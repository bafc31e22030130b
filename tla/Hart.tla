-------------------------------- MODULE Hart --------------------------------
(***************************************************************************)
(* The privileged architecture of one hart: traps and interrupts           *)
(* (emulator/src/cpu/rv_privileged.c), the trap-return and CSR instructions *)
(* (rv_impl/base.c, rv_csr.c) and the step that runs them (rv_cpu.c).      *)
(*                                                                         *)
(* The hart's thread fetches and executes one instruction, then loads      *)
(* cpu->irq_pending once and takes at most one interrupt.  Devices change  *)
(* irq_pending from other threads at any time, so the instruction and the  *)
(* check are two steps.                                                    *)
(*                                                                         *)
(* mstatus is the set of its bits that are 1.  Program counters are        *)
(* abstract places in which instructions follow each other.                *)
(***************************************************************************)
EXTENDS Integers, Sequences

CONSTANTS
    NumPlaces,      \* places in the program, the trap handlers among them
    MHandler,       \* mtvec: the place of the machine-mode handler
    SHandler,       \* stvec: the place of the supervisor-mode handler
    Unfetchable,    \* places from which the fetch faults
    Undecodable,    \* places with a compressed encoding that does not decode
    Irqs,           \* the interrupts that devices raise
    HookedCauses,   \* the causes with a trap_hook that swallows them
    StatusWrites,   \* the values the guest writes to mstatus and sstatus
    MedelegWrites,  \* the values the guest writes to medeleg
    MidelegWrites,  \* the values the guest writes to mideleg
    MieWrites,      \* the values the guest writes to mie
    BootMemPrivilege  \* mem_privilege when the hart starts

Places == 0..(NumPlaces - 1)
Privileges == 0..3
Causes == {"fetch", "illegal", "memory", "ecall_u", "ecall_s", "ecall_m"}
IrqPriority == <<"MEIP", "MSIP", "MTIP", "SEIP", "SSIP", "STIP">>
AllIrqs == {IrqPriority[i] : i \in 1..6}

\* Bit positions in mstatus; MPP also has the bit after it.
SIE == 1
MIE == 3
SPIE == 5
MPIE == 7
SPP == 8
MPP == 11
MPRV == 17
TSR == 22
StatusBits == {SIE, MIE, SPIE, MPIE, SPP, MPP, MPP + 1, MPRV, TSR}
\* RV_SSTATUS_MASK
SupervisorBits == {SIE, SPIE, SPP}

ASSUME HartAssumption ==
    /\ NumPlaces \in Nat
    /\ MHandler \in Places
    /\ SHandler \in Places
    /\ Unfetchable \subseteq Places
    /\ Undecodable \subseteq Places
    /\ Irqs \subseteq AllIrqs
    /\ HookedCauses \subseteq Causes
    /\ StatusWrites \subseteq SUBSET (0..63)
    /\ MedelegWrites \subseteq SUBSET Causes
    /\ MidelegWrites \subseteq SUBSET AllIrqs
    /\ MieWrites \subseteq SUBSET AllIrqs
    /\ BootMemPrivilege \in Privileges

VARIABLES
    step,           \* what the thread does next: "insn" or "check"; "aborted"
                    \* once the emulator has called abort()
    privilege, mem_privilege, mstatus, medeleg, mideleg, mie, mepc, sepc,
    pc, irq_pending,    \* the fields of struct rv_cpu
    mtrap, strap    \* history: what the last trap to machine (supervisor) mode
                    \* interrupted, until its handler returns or rewrites what
                    \* the trap saved

delegation == <<medeleg, mideleg, mie>>
vars == <<step, privilege, mem_privilege, mstatus, delegation, mepc, sepc, pc,
          irq_pending, mtrap, strap>>

-----------------------------------------------------------------------------
Set(bits, b, on) == IF on THEN bits \cup {b} ELSE bits \ {b}

MppOf(bits) ==
    (IF MPP \in bits THEN 1 ELSE 0) + (IF MPP + 1 \in bits THEN 2 ELSE 0)

SetMpp(bits, p) == Set(Set(bits, MPP, p \in {1, 3}), MPP + 1, p \in {2, 3})

\* rv_sync_mem_privilege
Effective(bits, p) == IF MPRV \in bits THEN MppOf(bits) ELSE p

SyncMemPrivilege == mem_privilege' = Effective(mstatus', privilege')

NextPc == (pc + 1) % NumPlaces

\* What a trap interrupts: the place to return to, the privilege, the mode's
\* interrupt-enable bit.
Context(at, bit) == [pc |-> at, privilege |-> privilege, ie |-> bit \in mstatus]
NoTrap == [pc |-> 0, privilege |-> 4, ie |-> FALSE]

TypeOK ==
    /\ step \in {"insn", "check", "aborted"}
    /\ privilege \in Privileges
    /\ mem_privilege \in Privileges
    /\ mstatus \subseteq StatusBits
    /\ medeleg \subseteq Causes
    /\ mideleg \subseteq AllIrqs
    /\ mie \subseteq AllIrqs
    /\ irq_pending \subseteq Irqs
    /\ pc \in Places
    /\ mepc \in Places
    /\ sepc \in Places
    /\ mtrap \in [pc : Places, privilege : Privileges, ie : BOOLEAN] \cup {NoTrap}
    /\ strap \in [pc : Places, privilege : {0, 1}, ie : BOOLEAN] \cup {NoTrap}

Init ==
    /\ step = "insn"
    /\ privilege = 3
    /\ mem_privilege = BootMemPrivilege
    /\ mstatus = {}
    /\ medeleg = {}
    /\ mideleg = {}
    /\ mie = {}
    /\ irq_pending = {}
    /\ pc = 0
    /\ mepc = 0
    /\ sepc = 0
    /\ mtrap = NoTrap
    /\ strap = NoTrap

-----------------------------------------------------------------------------
(* rv_do_trap                                                              *)

\* SIE is cleared before it is copied to SPIE.
EnterSupervisor_ClearsSieFirst(at) ==
    /\ privilege' = 1
    /\ mstatus' = Set(mstatus \ {SPIE, SIE}, SPP, privilege = 1)
    /\ SyncMemPrivilege
    /\ sepc' = at
    /\ pc' = SHandler
    /\ strap' = Context(at, SIE)
    /\ UNCHANGED <<mepc, mtrap>>

EnterSupervisor(at) ==
    /\ privilege' = 1
    /\ mstatus' = Set(Set(Set(mstatus, SPIE, SIE \in mstatus), SIE, FALSE),
                      SPP, privilege = 1)
    /\ SyncMemPrivilege
    /\ sepc' = at
    /\ pc' = SHandler
    /\ strap' = Context(at, SIE)
    /\ UNCHANGED <<mepc, mtrap>>

\* mem_privilege is not recomputed.
EnterMachine_NoSync(at) ==
    /\ privilege' = 3
    /\ mstatus' = SetMpp(Set(Set(mstatus, MPIE, MIE \in mstatus), MIE, FALSE),
                         privilege)
    /\ mepc' = at
    /\ pc' = MHandler
    /\ mtrap' = Context(at, MIE)
    /\ UNCHANGED <<mem_privilege, sepc, strap>>

EnterMachine(at) ==
    /\ privilege' = 3
    /\ mstatus' = SetMpp(Set(Set(mstatus, MPIE, MIE \in mstatus), MIE, FALSE),
                         privilege)
    /\ SyncMemPrivilege
    /\ mepc' = at
    /\ pc' = MHandler
    /\ mtrap' = Context(at, MIE)
    /\ UNCHANGED <<sepc, strap>>

Delegated(cause, deleg) == privilege <= 1 /\ cause \in deleg

Trap(at, cause, deleg) ==
    \/ Delegated(cause, deleg) /\ EnterSupervisor(at)
    \/ ~Delegated(cause, deleg) /\ EnterMachine(at)

\* A hook may swallow the exception; the pc is where the caller left it.
Swallowed(next) ==
    /\ pc' = next
    /\ UNCHANGED <<privilege, mem_privilege, mstatus, mepc, sepc, mtrap, strap>>

Exception(at, next, cause) ==
    /\ \/ cause \in HookedCauses /\ Swallowed(next)
       \/ Trap(at, cause, medeleg)
    /\ UNCHANGED <<delegation, irq_pending>>

-----------------------------------------------------------------------------
(* rv_step_insn.  When the fetch faults or the compressed instruction does *)
(* not decode, it returns without calling rv_check_interrupts.             *)

FetchFault ==
    /\ step = "insn"
    /\ pc \in Unfetchable
    /\ Exception(pc, pc, "fetch")
    /\ UNCHANGED step

BadCompressed ==
    /\ step = "insn"
    /\ pc \in Undecodable \ Unfetchable
    /\ Exception(pc, pc, "illegal")
    /\ UNCHANGED step

\* The instruction at pc is executed; the interrupts are checked afterwards.
Execute ==
    /\ step = "insn"
    /\ pc \notin Unfetchable \cup Undecodable
    /\ step' = "check"

\* A jump goes on with the next instruction at once.
Jump_Unchecked(target) ==
    /\ step = "insn"
    /\ pc \notin Unfetchable \cup Undecodable
    /\ pc' = target
    /\ UNCHANGED <<step, privilege, mem_privilege, mstatus, delegation, mepc,
                   sepc, irq_pending, mtrap, strap>>

\* A jump, or an instruction that only touches registers and memory.
Jump(target) ==
    /\ Execute
    /\ pc' = target
    /\ UNCHANGED <<privilege, mem_privilege, mstatus, delegation, mepc, sepc,
                   irq_pending, mtrap, strap>>

\* An instruction that cannot be executed here (mret, sret and every CSR
\* instruction below the privilege they need among them), or a load or store
\* that faults.
Fault(cause) ==
    /\ Execute
    /\ cause \in {"illegal", "memory"}
    /\ Exception(pc, NextPc, cause)

Ecall ==
    /\ Execute
    /\ privilege # 2
    /\ Exception(pc, NextPc, CASE privilege = 0 -> "ecall_u"
                                [] privilege = 1 -> "ecall_s"
                                [] privilege = 3 -> "ecall_m")

\* The switch of rv_base_system has no case for privilege 2.
EcallAborts ==
    /\ step = "insn"
    /\ pc \notin Unfetchable \cup Undecodable
    /\ privilege = 2
    /\ step' = "aborted"
    /\ UNCHANGED <<privilege, mem_privilege, mstatus, delegation, mepc, sepc, pc,
                   irq_pending, mtrap, strap>>

-----------------------------------------------------------------------------
(* Trap returns.                                                           *)

\* MPP is cleared before it is read.
Mret_ClearsMppFirst ==
    /\ Execute
    /\ privilege = 3
    /\ privilege' = 0
    /\ mstatus' = Set(SetMpp(Set(Set(mstatus, MIE, MPIE \in mstatus), MPIE, TRUE), 0),
                      MPRV, FALSE)
    /\ SyncMemPrivilege
    /\ pc' = mepc
    /\ mtrap' = NoTrap
    /\ UNCHANGED <<delegation, mepc, sepc, irq_pending, strap>>

Mret ==
    LET returned == SetMpp(Set(Set(mstatus, MIE, MPIE \in mstatus), MPIE, TRUE), 0)
    IN
    /\ Execute
    /\ privilege = 3
    /\ privilege' = MppOf(mstatus)
    /\ mstatus' = IF privilege' # 3 THEN returned \ {MPRV} ELSE returned
    /\ SyncMemPrivilege
    /\ pc' = mepc
    /\ mtrap' = NoTrap
    /\ UNCHANGED <<delegation, mepc, sepc, irq_pending, strap>>

\* MPRV survives the return to a lower privilege.
Sret_KeepsMprv ==
    /\ Execute
    /\ privilege >= 1
    /\ ~(privilege = 1 /\ TSR \in mstatus)
    /\ privilege' = IF SPP \in mstatus THEN 1 ELSE 0
    /\ mstatus' = (Set(mstatus, SIE, SPIE \in mstatus) \ {SPP}) \cup {SPIE}
    /\ SyncMemPrivilege
    /\ pc' = sepc
    /\ strap' = NoTrap
    /\ UNCHANGED <<delegation, mepc, sepc, irq_pending, mtrap>>

Sret ==
    /\ Execute
    /\ privilege >= 1
    /\ ~(privilege = 1 /\ TSR \in mstatus)
    /\ privilege' = IF SPP \in mstatus THEN 1 ELSE 0
    /\ mstatus' = (Set(mstatus, SIE, SPIE \in mstatus) \ {SPP, MPRV}) \cup {SPIE}
    /\ SyncMemPrivilege
    /\ pc' = sepc
    /\ strap' = NoTrap
    /\ UNCHANGED <<delegation, mepc, sepc, irq_pending, mtrap>>

-----------------------------------------------------------------------------
(* CSR writes (rv_csr_write); a read changes nothing.                      *)

CsrWrite(lowest) ==
    /\ Execute
    /\ privilege >= lowest
    /\ pc' = NextPc
    /\ UNCHANGED <<privilege, irq_pending>>

\* RV_MSTATUS_MASK is not applied.
WriteMstatus_Unmasked(wdata) ==
    /\ CsrWrite(3)
    /\ mstatus' = wdata
    /\ SyncMemPrivilege
    /\ mtrap' = NoTrap
    /\ strap' = NoTrap
    /\ UNCHANGED <<delegation, mepc, sepc>>

\* The written value is or-ed with (wdata >> 1) & RV_STATUS_MPP_BASE_BIT, which
\* is 11: bits 1, 2 and 4 of it are copied to bits 0, 1 and 3.
WriteMstatus(wdata) ==
    /\ CsrWrite(3)
    /\ mstatus' = (wdata \cup {b \in {0, 1, 3} : b + 1 \in wdata}) \cap StatusBits
    /\ SyncMemPrivilege
    /\ mtrap' = NoTrap
    /\ strap' = NoTrap
    /\ UNCHANGED <<delegation, mepc, sepc>>

WriteSstatus(wdata) ==
    /\ CsrWrite(1)
    /\ mstatus' = (mstatus \ SupervisorBits) \cup (wdata \cap SupervisorBits)
    /\ strap' = NoTrap
    /\ UNCHANGED <<mem_privilege, delegation, mepc, sepc, mtrap>>

WriteMepc(place) ==
    /\ CsrWrite(3)
    /\ mepc' = place
    /\ mtrap' = NoTrap
    /\ UNCHANGED <<mem_privilege, mstatus, delegation, sepc, strap>>

WriteSepc(place) ==
    /\ CsrWrite(1)
    /\ sepc' = place
    /\ strap' = NoTrap
    /\ UNCHANGED <<mem_privilege, mstatus, delegation, mepc, mtrap>>

WriteDelegation ==
    /\ CsrWrite(3)
    /\ \/ medeleg' \in MedelegWrites /\ UNCHANGED <<mideleg, mie>>
       \/ mideleg' \in MidelegWrites /\ UNCHANGED <<medeleg, mie>>
       \/ mie' \in MieWrites /\ UNCHANGED <<medeleg, mideleg>>
    /\ UNCHANGED <<mem_privilege, mstatus, mepc, sepc, mtrap, strap>>

-----------------------------------------------------------------------------
(* rv_check_interrupts                                                     *)

Pending == irq_pending \cap mie
MachineEnabled == privilege < 3 \/ MIE \in mstatus
\* Machine mode counts as supervisor mode.
SupervisorEnabled_InMachine == privilege < 1 \/ SIE \in mstatus

SupervisorEnabled == privilege < 1 \/ (privilege = 1 /\ SIE \in mstatus)

\* Supervisor interrupts are looked at first.
ToTake_SupervisorFirst ==
    IF SupervisorEnabled /\ Pending \cap mideleg # {} THEN Pending \cap mideleg
    ELSE IF MachineEnabled THEN Pending \ mideleg ELSE {}

ToTake ==
    IF MachineEnabled /\ Pending \ mideleg # {} THEN Pending \ mideleg
    ELSE IF SupervisorEnabled THEN Pending \cap mideleg ELSE {}

Rank(irq) == CHOOSE i \in 1..6 : IrqPriority[i] = irq

TakeInterrupt ==
    /\ step = "check"
    /\ \E irq \in ToTake :
         /\ \A other \in ToTake : Rank(irq) <= Rank(other)
         /\ Trap(pc, irq, mideleg)
    /\ step' = "insn"
    /\ UNCHANGED <<delegation, irq_pending>>

NoInterrupt ==
    /\ step = "check"
    /\ ToTake = {}
    /\ step' = "insn"
    /\ UNCHANGED <<privilege, mem_privilege, mstatus, delegation, mepc, sepc, pc,
                   irq_pending, mtrap, strap>>

-----------------------------------------------------------------------------
\* The CLINT, the PLIC or a mip write changes a bit of irq_pending.
Device(irq) ==
    /\ irq_pending' = Set(irq_pending, irq, irq \notin irq_pending)
    /\ UNCHANGED <<step, privilege, mem_privilege, mstatus, delegation, mepc,
                   sepc, pc, mtrap, strap>>

Insn ==
    \/ \E target \in Places : Jump(target)
    \/ \E cause \in Causes : Fault(cause)
    \/ Ecall \/ EcallAborts \/ Mret \/ Sret
    \/ \E wdata \in StatusWrites : WriteMstatus(wdata) \/ WriteSstatus(wdata)
    \/ \E place \in Places : WriteMepc(place) \/ WriteSepc(place)
    \/ WriteDelegation

HartStep == FetchFault \/ BadCompressed \/ Insn \/ TakeInterrupt \/ NoInterrupt

Next == HartStep \/ \E irq \in Irqs : Device(irq)

Spec == Init /\ [][Next]_vars

\* The hart's thread keeps running.
FairSpec == Spec /\ WF_vars(HartStep)

-----------------------------------------------------------------------------
(* Properties.                                                             *)

\* mem_privilege, a cache that every data access trusts, is what mstatus and the
\* privilege say it is (rv_cpu.h 65-70).
MemPrivilegeInSync == mem_privilege = Effective(mstatus, privilege)

\* Code below machine mode never accesses memory with another mode's rights:
\* MPRV does not survive a return, and no supervisor write sets it.
NoBorrowedPrivilege == privilege < 3 => mem_privilege = privilege

\* A trap handled in machine mode returns to what it interrupted, whatever traps
\* of the handler to supervisor mode and back lie between (rv_do_trap 48-64, mret).
MachineReturns ==
    [][Mret /\ mtrap # NoTrap
         => /\ pc' = mtrap.pc
            /\ privilege' = mtrap.privilege
            /\ MIE \in mstatus' <=> mtrap.ie]_vars

\* So does a trap handled in supervisor mode, even when machine-mode traps
\* interrupted its handler (rv_do_trap 32-47, sret).
SupervisorReturns ==
    [][Sret /\ strap # NoTrap
         => /\ pc' = strap.pc
            /\ privilege' = strap.privilege
            /\ SIE \in mstatus' <=> strap.ie]_vars

\* An interrupt the hart must take now, in the words of the privileged
\* specification that the comments of rv_check_interrupts quote.
Due(irq) ==
    /\ irq \in irq_pending \cap mie
    /\ IF irq \in mideleg
       THEN privilege = 0 \/ (privilege = 1 /\ SIE \in mstatus)
       ELSE privilege < 3 \/ MIE \in mstatus

\* A check leaves nothing to take: whichever interrupt it chose, every other
\* pending one is masked by the handler's mode.
NothingLeftToTake ==
    [][step = "check" /\ step' = "insn" => \A irq \in Irqs : ~Due(irq)']_vars

\* An interrupt is never handled in a mode below the one it interrupts, nor in
\* supervisor mode unless it is delegated; and a masked one is not taken.
InterruptsRespectModes ==
    [][step = "check" /\ <<privilege', mstatus'>> # <<privilege, mstatus>>
         => /\ privilege' >= privilege
            /\ \E irq \in Irqs : Due(irq) /\ (privilege' = 1 <=> irq \in mideleg)]_vars

\* An interrupt that is due is taken, or stops being due.
InterruptTaken == \A irq \in Irqs : Due(irq) ~> ~Due(irq)

\* What the last trap to each mode interrupted is what its return will restore.
Saved ==
    /\ mtrap # NoTrap => /\ mepc = mtrap.pc
                         /\ MppOf(mstatus) = mtrap.privilege
                         /\ MPIE \in mstatus <=> mtrap.ie
    /\ strap # NoTrap => /\ sepc = strap.pc
                         /\ SPP \in mstatus <=> strap.privilege = 1
                         /\ SPIE \in mstatus <=> strap.ie

\* Privilege 2 does not exist: "Ensures the value 2 never gets written to MPP."
MppLegal == MppOf(mstatus) # 2

\* "Unreachable."
NeverAborts == step # "aborted"
=============================================================================
