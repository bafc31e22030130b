-------------------------------- MODULE Csr ---------------------------------
(***************************************************************************)
(* The CSR instructions of one hart: do_csr of                             *)
(* emulator/src/cpu/rv_impl/base.c with rv_csr_read and rv_csr_write of    *)
(* emulator/src/cpu/rv_csr.c.                                              *)
(*                                                                         *)
(* A value is the set of its bits that are 1.  An instruction reads and    *)
(* then writes, and between the two another thread (CLINT, PLIC) may       *)
(* change irq_pending, which mip and sip show: the write is a step of its  *)
(* own.  The registers that keep every value they are given, and that no   *)
(* part of this module looks at, are represented by mscratch and sscratch. *)
(* The registers pmpcfg and pmpaddr are those of module Pmp.               *)
(***************************************************************************)
EXTENDS Integers

CONSTANTS
    Insns,       \* the instructions that the guest may execute
    Lines,       \* bits of irq_pending that devices drive
    MaxInsns     \* bound: instructions in a behaviour

Bits == 0..63
\* cpu->privilege; 2 is reserved, but a write of mstatus may leave it in MPP and mret
\* then enters it.
Privileges == 0..3

\* enum rv_csr: "none" stands for an index that no case of the two switches has.
Level == [fflags |-> 0, frm |-> 0, fcsr |-> 0, none |-> 0,
          sstatus |-> 1, sie |-> 1, sip |-> 1, sscratch |-> 1, satp |-> 1,
          mstatus |-> 3, mie |-> 3, mip |-> 3, mideleg |-> 3, medeleg |-> 3,
          mscratch |-> 3, mhartid |-> 3]
Indices == DOMAIN Level

\* RV_STATUS_*: the fields of mstatus, and those that sstatus shows
SIE == 1
MIE == 3
MPP == 11
FS == {13, 14}
SUM == 18
TVM == 20
MstatusMask == {1, 3, 5, 6, 7, 8, 9, 10, 11, 12, 13, 14, 15, 16, 17, 18, 19, 20, 21, 22}
SstatusMask == {1, 5, 6, 8, 9, 10, 13, 14, 15, 16, 18, 19}
MstatusHardwired == {33, 35}
SstatusHardwired == {33}

\* RV_SIP_WMASK: SSIP, STIP and SEIP may be written.
SipWmask == {1, 5, 9}

\* fflags are bits 0 to 4 of fcsr, frm is bits 5 to 7.
FflagsMask == 0..4
FrmMask == 0..2
FcsrMask == 0..7
FrmBase == 5

\* satp.MODE: 8 is Sv39.
SatpMode == 60..63
Sv39 == {63}

Stored == {"mstatus", "mie", "sie", "mideleg", "medeleg", "mscratch", "sscratch",
           "satp", "fcsr", "mhartid"}

\* op is the lower half of funct3, imm its upper bit.
CsrInsns == [csr : Indices, op : {"none", "write", "set", "clear"}, imm : BOOLEAN,
             rs1IsZero : BOOLEAN, rdIsZero : BOOLEAN, value : SUBSET Bits]

ASSUME CsrAssumption == Insns \subseteq CsrInsns /\ Lines \subseteq Bits /\ MaxInsns \in Nat

Idle == [phase |-> "idle"]

VARIABLES
    privilege,    \* cpu->privilege
    csr,          \* cpu->csr, the registers in Stored
    irq_pending,  \* cpu->irq_pending
    at,           \* Idle, or the instruction that has read and not yet written
    rd,           \* the destination register
    outcome,      \* history: "none", "done" or "illegal"
    left          \* bound: how many more instructions may be executed
vars == <<privilege, csr, irq_pending, at, rd, outcome, left>>

Init ==
    /\ privilege = 3
    /\ csr = [r \in Stored |-> {}]
    /\ irq_pending = {}
    /\ at = Idle
    /\ rd = {}
    /\ outcome = "none"
    /\ left = MaxInsns

-----------------------------------------------------------------------------
(* rv_csr_read                                                             *)

FloatOn == csr["mstatus"] \cap FS # {}
FloatCsrs == {"fcsr", "fflags", "frm"}

\* Variant: mstatus.FS is not looked at.
Accessible_IgnoresFs(r) ==
    /\ Level[r] <= privilege
    /\ r # "none"
    /\ r = "satp" => ~(privilege = 1 /\ TVM \in csr["mstatus"])

\* The checks of the reader, which the writer repeats.
Accessible(r) ==
    /\ Level[r] <= privilege
    /\ r # "none"
    /\ r = "satp" => ~(privilege = 1 /\ TVM \in csr["mstatus"])
    /\ r \in FloatCsrs => FloatOn

\* bits shifted by n places to the left, or to the right if n < 0
Shift(bits, n) == {b \in Bits : b - n \in bits}

View(r) ==
    CASE r = "mstatus" -> csr["mstatus"] \cup MstatusHardwired
      [] r = "sstatus" -> (csr["mstatus"] \cap SstatusMask) \cup SstatusHardwired
      [] r = "mip" -> irq_pending
      [] r = "sip" -> irq_pending \cap csr["mideleg"]
      [] r = "fflags" -> csr["fcsr"] \cap FflagsMask
      [] r = "frm" -> Shift(csr["fcsr"], -FrmBase) \cap FrmMask
      [] OTHER -> csr[r]

-----------------------------------------------------------------------------
(* rv_csr_write                                                            *)

\* old with the bits of mask replaced by those of new
Merge(old, mask, new) == (old \ mask) \cup (new \cap mask)

Unsupported(w) == w \cap SatpMode \notin {{}, Sv39}

\* Variant: the whole of mstatus is written through sstatus.
Replaced_WholeStatus(r, w) ==
    CASE r = "mstatus" -> (w \cup {b \in {0, 1, 3} : b + 1 \in w}) \cap MstatusMask
      [] r = "sstatus" -> w \cap MstatusMask
      [] r = "satp" -> IF Unsupported(w) THEN csr["satp"] ELSE w
      [] r = "fcsr" -> w \cap FcsrMask
      [] r = "fflags" -> Merge(csr["fcsr"], FflagsMask, w)
      [] r = "frm" -> Merge(csr["fcsr"], Shift(FrmMask, FrmBase), Shift(w, FrmBase))
      [] r = "mhartid" -> csr["mhartid"]
      [] OTHER -> w

\* Variant: a new rounding mode clears the exception flags.
Replaced_WholeFcsr(r, w) ==
    CASE r = "mstatus" -> (w \cup {b \in {0, 1, 3} : b + 1 \in w}) \cap MstatusMask
      [] r = "sstatus" -> Merge(csr["mstatus"], SstatusMask, w)
      [] r = "satp" -> IF Unsupported(w) THEN csr["satp"] ELSE w
      [] r = "fcsr" -> w \cap FcsrMask
      [] r = "fflags" -> Merge(csr["fcsr"], FflagsMask, w)
      [] r = "frm" -> Shift(w \cap FrmMask, FrmBase)
      [] r = "mhartid" -> csr["mhartid"]
      [] OTHER -> w

\* Variant: a mode that is not supported is written to satp.
Replaced_AnyMode(r, w) ==
    CASE r = "mstatus" -> (w \cup {b \in {0, 1, 3} : b + 1 \in w}) \cap MstatusMask
      [] r = "sstatus" -> Merge(csr["mstatus"], SstatusMask, w)
      [] r = "fcsr" -> w \cap FcsrMask
      [] r = "fflags" -> Merge(csr["fcsr"], FflagsMask, w)
      [] r = "frm" -> Merge(csr["fcsr"], Shift(FrmMask, FrmBase), Shift(w, FrmBase))
      [] r = "mhartid" -> csr["mhartid"]
      [] OTHER -> w

\* What becomes of the register that holds r.  RV_STATUS_MPP_BASE_BIT is 11, taken
\* for a mask: bits 1, 2 and 4 of what is written to mstatus are copied to 0, 1 and 3.
Replaced(r, w) ==
    CASE r = "mstatus" -> (w \cup {b \in {0, 1, 3} : b + 1 \in w}) \cap MstatusMask
      [] r = "sstatus" -> Merge(csr["mstatus"], SstatusMask, w)
      [] r = "satp" -> IF Unsupported(w) THEN csr["satp"] ELSE w
      [] r = "fcsr" -> w \cap FcsrMask
      [] r = "fflags" -> Merge(csr["fcsr"], FflagsMask, w)
      [] r = "frm" -> Merge(csr["fcsr"], Shift(FrmMask, FrmBase), Shift(w, FrmBase))
      [] r = "mhartid" -> csr["mhartid"]
      [] OTHER -> w

Holder(r) ==
    CASE r \in {"mstatus", "sstatus"} -> "mstatus"
      [] r \in FloatCsrs -> "fcsr"
      [] OTHER -> r

\* The compare-and-exchange loop of mip and sip
NewPending(r, w) ==
    Merge(irq_pending, IF r = "mip" THEN SipWmask ELSE SipWmask \cap csr["mideleg"], w)

WriteCsr(r, w) ==
    IF r \in {"mip", "sip"}
    THEN irq_pending' = NewPending(r, w) /\ UNCHANGED csr
    ELSE csr' = [csr EXCEPT ![Holder(r)] = Replaced(r, w)] /\ UNCHANGED irq_pending

-----------------------------------------------------------------------------
(* do_csr                                                                  *)

DoRead(i) == ~i.rdIsZero \/ i.op # "write"

\* The immediate forms write always, the others unless they set or clear by x0.
DoWrite(i) == i.imm \/ i.op = "write" \/ ~i.rs1IsZero

Operand(i) == IF ~i.imm /\ i.rs1IsZero THEN {} ELSE i.value

\* rv_do_iillegal is called, in the step that reads or in the one that writes.
Illegal ==
    /\ at' = Idle
    /\ outcome' = "illegal"
    /\ UNCHANGED <<privilege, csr, irq_pending, rd>>

Fetch == at = Idle /\ left > 0 /\ left' = left - 1

RefuseRead(i) ==
    /\ Fetch
    /\ (DoRead(i) /\ ~Accessible(i.csr)) \/ i.op = "none"
    /\ Illegal

Read(i) ==
    /\ Fetch
    /\ DoRead(i) => Accessible(i.csr)
    /\ i.op # "none"
    /\ at' = [phase |-> "read", insn |-> i,
              rdata |-> IF DoRead(i) THEN View(i.csr) ELSE {}]
    /\ outcome' = "none"
    /\ UNCHANGED <<privilege, csr, irq_pending, rd>>

RefuseWrite ==
    /\ at # Idle
    /\ DoWrite(at.insn) /\ ~Accessible(at.insn.csr)
    /\ Illegal
    /\ UNCHANGED left

NewValue(i, rdata) ==
    CASE i.op = "write" -> Operand(i)
      [] i.op = "set" -> rdata \cup Operand(i)
      [] i.op = "clear" -> rdata \ Operand(i)

Finish ==
    /\ at # Idle
    /\ DoWrite(at.insn) => Accessible(at.insn.csr)
    /\ IF DoWrite(at.insn)
       THEN WriteCsr(at.insn.csr, NewValue(at.insn, at.rdata))
       ELSE UNCHANGED <<csr, irq_pending>>
    /\ rd' = IF at.insn.rdIsZero THEN rd ELSE at.rdata
    /\ at' = Idle
    /\ outcome' = "done"
    /\ UNCHANGED <<privilege, left>>

-----------------------------------------------------------------------------
\* A trap or a return from one (module Hart), between two instructions
ChangePrivilege(p) ==
    /\ at = Idle
    /\ privilege' = p
    /\ outcome' = "none"
    /\ UNCHANGED <<csr, irq_pending, at, rd, left>>

\* The CLINT or the PLIC raises or drops a bit.
Toggled(bits, b) == IF b \in bits THEN bits \ {b} ELSE bits \cup {b}

Device(b) ==
    /\ irq_pending' = Toggled(irq_pending, b)
    /\ UNCHANGED <<privilege, csr, at, rd, outcome, left>>

Next ==
    \/ \E i \in Insns : RefuseRead(i) \/ Read(i)
    \/ RefuseWrite \/ Finish
    \/ \E p \in Privileges : ChangePrivilege(p)
    \/ \E b \in Lines : Device(b)

Spec == Init /\ [][Next]_vars

-----------------------------------------------------------------------------
(* Properties                                                              *)

\* No sequence of writes, through whichever name, leaves a field with a value that it
\* does not have: satp.MODE is off or Sv39, mstatus and fcsr have their own bits only,
\* and the identification registers those they were made with.
LegalFields ==
    /\ csr["satp"] \cap SatpMode \in {{}, Sv39}
    /\ csr["mstatus"] \subseteq MstatusMask
    /\ csr["fcsr"] \subseteq FcsrMask
    /\ csr["mhartid"] = {}

\* Every variable keeps its type.
TypeOK ==
    /\ privilege \in Privileges
    /\ csr \in [Stored -> SUBSET Bits] /\ LegalFields
    /\ irq_pending \subseteq Bits
    /\ at \in {Idle} \cup [phase : {"read"}, insn : CsrInsns, rdata : SUBSET Bits]
    /\ rd \subseteq Bits
    /\ outcome \in {"none", "done", "illegal"}
    /\ left \in Nat

\* A register that is saved and written back, through whichever of its names, is what
\* it was, and so is every register that it is a view of: the masks of the reader and
\* of the writer, their shifts, the bits that are hardwired and the one that the write
\* of mstatus forces fit together in every state.
SavedRestores ==
    \A r \in Indices \ {"none"} :
        IF r \in {"mip", "sip"} THEN NewPending(r, View(r)) = irq_pending
        ELSE Replaced(r, View(r)) = csr[Holder(r)]

Executes == at # Idle /\ at' = Idle

\* Below machine mode no CSR instruction changes what machine mode owns: its own
\* registers, the fields of mstatus that sstatus hides and the pending bits that are not
\* delegated; supervisor mode does not change satp while mstatus.TVM is set, and user
\* mode changes fcsr alone.  (The reserved privilege 2 is bound by the rest, and not by
\* TVM, which is compared with privilege 1: see TvmHolds.)
NoEscalation ==
    [][Executes /\ privilege < 3 =>
          /\ \A r \in {"mie", "mideleg", "medeleg", "mscratch", "mhartid"} :
                csr'[r] = csr[r]
          /\ csr'["mstatus"] \ SstatusMask = csr["mstatus"] \ SstatusMask
          /\ privilege = 1 /\ TVM \in csr["mstatus"] => csr'["satp"] = csr["satp"]
          /\ irq_pending' \ csr["mideleg"] = irq_pending \ csr["mideleg"]
          /\ privilege = 0 => /\ irq_pending' = irq_pending
                              /\ \A r \in Stored \ {"fcsr"} : csr'[r] = csr[r]]_vars

\* While TVM is set nothing below machine mode changes satp.  (Violated at privilege 2,
\* which the code lets the guest reach.)
TvmHolds ==
    [][Executes /\ privilege < 3 /\ TVM \in csr["mstatus"]
          => csr'["satp"] = csr["satp"]]_vars

\* Without mstatus.FS nothing of fcsr is changed, nor seen in a register.
FloatStateGuarded ==
    [][Executes /\ ~FloatOn =>
          /\ csr'["fcsr"] = csr["fcsr"]
          /\ at.insn.csr \in FloatCsrs => rd' = rd]_vars

\* The bits of the register that holds r which an operand w names
Named(r, w) ==
    CASE r = "frm" -> Shift(w \cap FrmMask, FrmBase)
      [] r = "fflags" -> w \cap FflagsMask
      [] OTHER -> w

Differ(a, b) == (a \ b) \cup (b \ a)

\* To set or clear bits leaves every other bit alone, also those that another name of
\* the register shows, and returns what was there before.  Two cases are left out: the
\* reserved bits 2 and 4 of mstatus, which end up in its enable bits, and pending bits
\* that a device changed in the middle of the instruction.
OnlyNamedBits ==
    [][LET i == at.insn
           r == i.csr
       IN  /\ Executes /\ outcome' = "done" /\ i.op \in {"set", "clear"}
           /\ r = "mstatus" => Operand(i) \cap {2, 4} = {}
           /\ at.rdata = View(r)
           => /\ \A q \in Stored : Differ(csr'[q], csr[q]) \subseteq
                    IF q = Holder(r) THEN Named(r, Operand(i)) ELSE {}
              /\ Differ(irq_pending', irq_pending) \subseteq
                    IF r \in {"mip", "sip"} THEN Operand(i) ELSE {}
              /\ rd' = IF i.rdIsZero THEN rd ELSE View(r)]_vars

\* An instruction that sets or clears no bits leaves all of them alone.  (What the
\* instruction is for; violated when a device changes a pending bit meanwhile: the
\* immediate forms write the value back even when the immediate is zero.)
NothingNamedNothingWritten ==
    [][Executes /\ outcome' = "done" /\ at.insn.op \in {"set", "clear"}
          /\ Operand(at.insn) = {} => irq_pending' = irq_pending]_vars
=============================================================================
