--------------------------- MODULE MachineProofs ----------------------------
(***************************************************************************)
(* Theorems about Hart, for every program layout and every set of values   *)
(* the guest writes, and about Machine: the composition is a hart and it   *)
(* is a timer, so what is proved of each holds of the two together, and    *)
(* the pending bit that joins them says what it should.                    *)
(***************************************************************************)
EXTENDS Machine, TLAPS

\* Where the bits of mstatus are.
LEMMA BitPositions ==
    /\ SIE = 1 /\ MIE = 3 /\ SPIE = 5 /\ MPIE = 7 /\ SPP = 8
    /\ MPP = 11 /\ MPRV = 17 /\ TSR = 22
  BY DEF SIE, MIE, SPIE, MPIE, SPP, MPP, MPRV, TSR

LEMMA StatusBitsAre == StatusBits = {1, 3, 5, 7, 8, 11, 12, 17, 22}
  BY BitPositions DEF StatusBits

\* Writing MPP stores the privilege and leaves the other bits.
LEMMA SetMppStores ==
    ASSUME NEW bits, bits \subseteq StatusBits, NEW p \in Privileges
    PROVE  /\ MppOf(SetMpp(bits, p)) = p
           /\ SetMpp(bits, p) \subseteq StatusBits
           /\ \A b : b # 11 /\ b # 12 => (b \in SetMpp(bits, p) <=> b \in bits)
<1>1. MPP = 11 /\ MPP + 1 = 12
  BY BitPositions
<1>2. \A b : b \in SetMpp(bits, p) <=>
             \/ b = 11 /\ p \in {1, 3}
             \/ b = 12 /\ p \in {2, 3}
             \/ b # 11 /\ b # 12 /\ b \in bits
  BY <1>1 DEF SetMpp, Set
<1>3. MppOf(SetMpp(bits, p)) = p
  BY <1>1, <1>2 DEF MppOf, Privileges
<1>4. SetMpp(bits, p) \subseteq StatusBits
  BY <1>2, StatusBitsAre
<1>. QED
  BY <1>2, <1>3, <1>4

LEMMA MppIsPrivilege ==
    ASSUME NEW bits
    PROVE  MppOf(bits) \in Privileges
  BY DEF MppOf, Privileges

\* MppOf looks at two bits.
LEMMA MppLooksAt ==
    ASSUME NEW a, NEW b, 11 \in a <=> 11 \in b, 12 \in a <=> 12 \in b
    PROVE  MppOf(a) = MppOf(b)
  BY BitPositions DEF MppOf

-----------------------------------------------------------------------------
(* The inductive invariant.                                                *)

\* MPRV is set in machine mode only, and mem_privilege is in sync.
Access == MemPrivilegeInSync /\ (MPRV \in mstatus => privilege = 3)

HartInv == TypeOK /\ Access /\ Saved

\* A trap to supervisor mode.
LEMMA SupervisorEntry ==
    ASSUME HartInv, NEW at \in Places, privilege <= 1, EnterSupervisor(at)
    PROVE  /\ privilege' = 1 /\ mem_privilege' = 1 /\ pc' \in Places
           /\ mstatus' \subseteq StatusBits /\ sepc' \in Places /\ mepc' \in Places
           /\ strap' \in [pc : Places, privilege : {0, 1}, ie : BOOLEAN]
           /\ mtrap' = mtrap
           /\ Access' /\ Saved'
<1>1. privilege \in {0, 1}
  BY DEF HartInv, TypeOK, Privileges
<1>2. mstatus \subseteq StatusBits /\ MPRV \notin mstatus
  BY <1>1 DEF HartInv, TypeOK, Access
<1>3. \A b : b \in mstatus' <=>
             \/ b = 5 /\ 1 \in mstatus
             \/ b = 8 /\ privilege = 1
             \/ b \notin {1, 5, 8} /\ b \in mstatus
  BY BitPositions DEF EnterSupervisor, Set
<1>4. mstatus' \subseteq StatusBits /\ MPRV \notin mstatus'
  <2>1. \A b \in mstatus' : b \in mstatus \/ b = 5 \/ b = 8
    BY <1>3
  <2>2. 5 \in StatusBits /\ 8 \in StatusBits
    BY StatusBitsAre
  <2>3. mstatus' \subseteq StatusBits
    BY <1>2, <2>1, <2>2
  <2>4. MPRV # 5 /\ MPRV # 8
    BY BitPositions
  <2>. QED
    BY <1>2, <2>1, <2>3, <2>4
<1>5. mem_privilege' = 1 /\ privilege' = 1 /\ MemPrivilegeInSync'
  BY <1>4 DEF EnterSupervisor, SyncMemPrivilege, Effective, MemPrivilegeInSync
<1>6. /\ sepc' = at /\ mepc' = mepc /\ mtrap' = mtrap /\ pc' = SHandler
      /\ strap' = [pc |-> at, privilege |-> privilege, ie |-> 1 \in mstatus]
  BY BitPositions DEF EnterSupervisor, Context
<1>7. MppOf(mstatus') = MppOf(mstatus) /\ (MPIE \in mstatus' <=> MPIE \in mstatus)
  BY <1>3, MppLooksAt, BitPositions
<1>8. Saved'
  <2>1. 8 \in mstatus' <=> privilege = 1
    BY <1>3
  <2>2. 5 \in mstatus' <=> 1 \in mstatus
    BY <1>3
  <2>3. SPP = 8 /\ SPIE = 5
    BY BitPositions
  <2>4. /\ sepc' = strap'.pc
        /\ SPP \in mstatus' <=> strap'.privilege = 1
        /\ SPIE \in mstatus' <=> strap'.ie
    BY <1>6, <2>1, <2>2, <2>3
  <2>5. mtrap' # NoTrap => /\ mepc' = mtrap'.pc
                           /\ MppOf(mstatus') = mtrap'.privilege
                           /\ MPIE \in mstatus' <=> mtrap'.ie
    BY <1>6, <1>7 DEF HartInv, Saved
  <2>. QED
    BY <2>4, <2>5 DEF Saved
<1>9. strap' \in [pc : Places, privilege : {0, 1}, ie : BOOLEAN]
  BY <1>1, <1>6
<1>. QED
  BY <1>4, <1>5, <1>6, <1>8, <1>9, HartAssumption DEF HartInv, TypeOK, Access

\* A trap to machine mode.
LEMMA MachineEntry ==
    ASSUME HartInv, NEW at \in Places, EnterMachine(at)
    PROVE  /\ privilege' = 3 /\ mem_privilege' \in Privileges /\ pc' \in Places
           /\ mstatus' \subseteq StatusBits /\ mepc' \in Places /\ sepc' \in Places
           /\ mtrap' \in [pc : Places, privilege : Privileges, ie : BOOLEAN]
           /\ strap' = strap
           /\ Access' /\ Saved'
<1> DEFINE masked == Set(Set(mstatus, MPIE, MIE \in mstatus), MIE, FALSE)
<1>1. privilege \in Privileges /\ mstatus \subseteq StatusBits
  BY DEF HartInv, TypeOK
<1>2. \A b : b \in masked <=> \/ b = 7 /\ 3 \in mstatus
                              \/ b \notin {3, 7} /\ b \in mstatus
  BY BitPositions DEF Set
<1>3. masked \subseteq StatusBits
  BY <1>1, <1>2, StatusBitsAre
<1>4. mstatus' = SetMpp(masked, privilege) /\ privilege' = 3
  BY DEF EnterMachine
<1> HIDE DEF masked
<1>5. /\ MppOf(mstatus') = privilege /\ mstatus' \subseteq StatusBits
      /\ \A b : b # 11 /\ b # 12 => (b \in mstatus' <=> b \in masked)
  BY <1>1, <1>3, <1>4, SetMppStores
<1>6. /\ MPIE \in mstatus' <=> MIE \in mstatus
      /\ SPP \in mstatus' <=> SPP \in mstatus
      /\ SPIE \in mstatus' <=> SPIE \in mstatus
  BY <1>2, <1>5, BitPositions
<1>7. mem_privilege' = Effective(mstatus', 3)
  BY <1>4 DEF EnterMachine, SyncMemPrivilege
<1>8. Access' /\ mem_privilege' \in Privileges
  BY <1>4, <1>7, MppIsPrivilege DEF Access, MemPrivilegeInSync, Effective, Privileges
<1>9. /\ mepc' = at /\ sepc' = sepc /\ strap' = strap /\ pc' = MHandler
      /\ mtrap' = [pc |-> at, privilege |-> privilege, ie |-> MIE \in mstatus]
  BY DEF EnterMachine, Context
<1>10. Saved'
  BY <1>5, <1>6, <1>9 DEF HartInv, Saved
<1>11. mtrap' \in [pc : Places, privilege : Privileges, ie : BOOLEAN]
  BY <1>1, <1>9
<1>. QED
  BY <1>4, <1>5, <1>8, <1>9, <1>10, <1>11, HartAssumption DEF HartInv, TypeOK

-----------------------------------------------------------------------------
(* Every step preserves the invariant.                                     *)

LEMMA TrapStep ==
    ASSUME HartInv, NEW at \in Places, NEW cause, NEW deleg, Trap(at, cause, deleg),
           step' \in {"insn", "check"}, UNCHANGED <<delegation, irq_pending>>
    PROVE  HartInv'
<1>1. CASE EnterSupervisor(at) /\ privilege <= 1
  BY <1>1, SupervisorEntry DEF HartInv, TypeOK, delegation, Privileges
<1>2. CASE EnterMachine(at)
  BY <1>2, MachineEntry DEF HartInv, TypeOK, delegation, Privileges
<1>. QED
  BY <1>1, <1>2 DEF Trap, Delegated

LEMMA NextPcIsPlace ==
    ASSUME NEW place \in Places
    PROVE  (place + 1) % NumPlaces \in Places
  BY HartAssumption DEF Places

LEMMA ExceptionStep ==
    ASSUME HartInv, NEW next \in Places, NEW cause, Exception(pc, next, cause),
           step' \in {"insn", "check"}
    PROVE  HartInv'
<1>1. pc \in Places
  BY DEF HartInv, TypeOK
<1>2. CASE Swallowed(next) /\ UNCHANGED <<delegation, irq_pending>>
  BY <1>2 DEF Swallowed, HartInv, TypeOK, Access, MemPrivilegeInSync, Saved,
              delegation
<1>. QED
  BY <1>1, <1>2, TrapStep DEF Exception

\* A step that changes neither the status nor what the traps saved.
LEMMA QuietStep ==
    ASSUME HartInv, TypeOK',
           UNCHANGED <<privilege, mem_privilege, mstatus, mepc, sepc, mtrap, strap>>
    PROVE  HartInv'
  BY DEF HartInv, Access, MemPrivilegeInSync, Saved

LEMMA MretStep ==
    ASSUME HartInv, Mret
    PROVE  /\ HartInv'
           /\ pc' = mepc /\ privilege' = MppOf(mstatus)
           /\ MIE \in mstatus' <=> MPIE \in mstatus
<1> DEFINE enabled == Set(Set(mstatus, MIE, MPIE \in mstatus), MPIE, TRUE)
<1>1. mstatus \subseteq StatusBits /\ 0 \in Privileges
  BY DEF HartInv, TypeOK, Privileges
<1>2. \A b : b \in enabled <=> \/ b = 3 /\ 7 \in mstatus
                               \/ b = 7
                               \/ b \notin {3, 7} /\ b \in mstatus
  BY BitPositions DEF Set
<1>3. enabled \subseteq StatusBits
  BY <1>1, <1>2, StatusBitsAre
<1>4. /\ privilege' = MppOf(mstatus) /\ pc' = mepc /\ step' = "check"
      /\ mstatus' = IF privilege' # 3 THEN SetMpp(enabled, 0) \ {MPRV}
                                     ELSE SetMpp(enabled, 0)
      /\ mem_privilege' = Effective(mstatus', privilege')
      /\ mtrap' = NoTrap
      /\ UNCHANGED <<delegation, mepc, sepc, irq_pending, strap>>
  BY DEF Mret, Execute, SyncMemPrivilege
<1> HIDE DEF enabled
<1>5. /\ SetMpp(enabled, 0) \subseteq StatusBits
      /\ \A b : b # 11 /\ b # 12 => (b \in SetMpp(enabled, 0) <=> b \in enabled)
  BY <1>1, <1>3, SetMppStores
<1>6. mstatus' \subseteq StatusBits /\ (MPRV \in mstatus' => privilege' = 3)
  BY <1>4, <1>5
<1>7. \A b : b # 11 /\ b # 12 /\ b # 17 => (b \in mstatus' <=> b \in enabled)
  BY <1>4, <1>5, BitPositions
<1>8. /\ MIE \in mstatus' <=> MPIE \in mstatus
      /\ SPP \in mstatus' <=> SPP \in mstatus
      /\ SPIE \in mstatus' <=> SPIE \in mstatus
  BY <1>2, <1>7, BitPositions
<1>9. privilege' \in Privileges /\ mem_privilege' \in Privileges
  BY <1>4, MppIsPrivilege DEF Effective
<1>10. TypeOK'
  BY <1>4, <1>6, <1>9 DEF HartInv, TypeOK, delegation
<1>11. Access'
  BY <1>4, <1>6 DEF Access, MemPrivilegeInSync
<1>12. Saved'
  BY <1>4, <1>8 DEF HartInv, Saved
<1>. QED
  BY <1>4, <1>8, <1>10, <1>11, <1>12 DEF HartInv

LEMMA SretStep ==
    ASSUME HartInv, Sret
    PROVE  /\ HartInv'
           /\ pc' = sepc /\ privilege' = (IF SPP \in mstatus THEN 1 ELSE 0)
           /\ SIE \in mstatus' <=> SPIE \in mstatus
<1>1. mstatus \subseteq StatusBits
  BY DEF HartInv, TypeOK
<1>2. \A b : b \in mstatus' <=> \/ b = 1 /\ 5 \in mstatus
                                \/ b = 5
                                \/ b \notin {1, 5, 8, 17} /\ b \in mstatus
  BY BitPositions DEF Sret, Set
<1>3. /\ privilege' = (IF SPP \in mstatus THEN 1 ELSE 0)
      /\ pc' = sepc /\ step' = "check"
      /\ mem_privilege' = Effective(mstatus', privilege')
      /\ strap' = NoTrap
      /\ UNCHANGED <<delegation, mepc, sepc, irq_pending, mtrap>>
  BY DEF Sret, Execute, SyncMemPrivilege
<1>4. MPRV \notin mstatus' /\ mem_privilege' = privilege'
  BY <1>2, <1>3, BitPositions DEF Effective
<1>5. mstatus' \subseteq StatusBits
  <2>1. \A b \in mstatus' : b \in mstatus \/ b = 1 \/ b = 5
    BY <1>2
  <2>2. 1 \in StatusBits /\ 5 \in StatusBits
    BY StatusBitsAre
  <2>. QED
    BY <1>1, <2>1, <2>2
<1>6. /\ SIE \in mstatus' <=> SPIE \in mstatus
      /\ MPIE \in mstatus' <=> MPIE \in mstatus
      /\ MppOf(mstatus') = MppOf(mstatus)
  BY <1>2, MppLooksAt, BitPositions
<1>7. TypeOK'
  BY <1>3, <1>4, <1>5 DEF HartInv, TypeOK, delegation, Privileges
<1>8. Access'
  BY <1>3, <1>4 DEF Access, MemPrivilegeInSync
<1>9. Saved'
  BY <1>3, <1>6 DEF HartInv, Saved
<1>. QED
  BY <1>3, <1>6, <1>7, <1>8, <1>9 DEF HartInv

LEMMA MstatusWriteStep ==
    ASSUME HartInv, NEW wdata \in StatusWrites, WriteMstatus(wdata)
    PROVE  HartInv'
<1>1. /\ privilege = 3 /\ privilege' = 3 /\ step' = "check"
      /\ mstatus' \subseteq StatusBits
      /\ mem_privilege' = Effective(mstatus', privilege')
      /\ mtrap' = NoTrap /\ strap' = NoTrap
      /\ pc' = NextPc
      /\ UNCHANGED <<delegation, mepc, sepc, irq_pending>>
  BY DEF WriteMstatus, CsrWrite, Execute, SyncMemPrivilege, HartInv, TypeOK, Privileges
<1>2. pc' \in Places
  BY <1>1, NextPcIsPlace DEF NextPc, HartInv, TypeOK
<1>3. mem_privilege' \in Privileges
  BY <1>1, MppIsPrivilege DEF Effective, Privileges
<1>. QED
  BY <1>1, <1>2, <1>3
     DEF HartInv, TypeOK, Access, MemPrivilegeInSync, Saved, delegation, Privileges

LEMMA SstatusWriteStep ==
    ASSUME HartInv, NEW wdata \in StatusWrites, WriteSstatus(wdata)
    PROVE  HartInv'
<1>1. \A b : b \in mstatus' <=> \/ b \in {1, 5, 8} /\ b \in wdata
                                \/ b \notin {1, 5, 8} /\ b \in mstatus
  BY BitPositions DEF WriteSstatus, SupervisorBits
<1>2. mstatus' \subseteq StatusBits
  BY <1>1, StatusBitsAre DEF HartInv, TypeOK
<1>3. /\ MPRV \in mstatus' <=> MPRV \in mstatus
      /\ MPIE \in mstatus' <=> MPIE \in mstatus
      /\ MppOf(mstatus') = MppOf(mstatus)
  BY <1>1, MppLooksAt, BitPositions
<1>4. /\ step' = "check" /\ pc' = NextPc /\ strap' = NoTrap
      /\ UNCHANGED <<privilege, mem_privilege, delegation, mepc, sepc,
                     irq_pending, mtrap>>
  BY DEF WriteSstatus, CsrWrite, Execute
<1>5. pc' \in Places
  BY <1>4, NextPcIsPlace DEF NextPc, HartInv, TypeOK
<1>6. TypeOK'
  BY <1>2, <1>4, <1>5 DEF HartInv, TypeOK, delegation
<1>7. Access'
  BY <1>3, <1>4 DEF HartInv, Access, MemPrivilegeInSync, Effective
<1>8. Saved'
  BY <1>3, <1>4 DEF HartInv, Saved
<1>. QED
  BY <1>6, <1>7, <1>8 DEF HartInv

LEMMA OtherCsrStep ==
    ASSUME HartInv, NEW place \in Places,
           WriteMepc(place) \/ WriteSepc(place) \/ WriteDelegation
    PROVE  HartInv'
<1>1. pc' \in Places /\ step' = "check"
  BY NextPcIsPlace
     DEF HartInv, TypeOK, NextPc, WriteMepc, WriteSepc, WriteDelegation, CsrWrite, Execute
<1>2. /\ UNCHANGED <<privilege, mem_privilege, mstatus, irq_pending>>
      /\ medeleg' \subseteq Causes /\ mideleg' \subseteq AllIrqs /\ mie' \subseteq AllIrqs
  BY HartAssumption
     DEF HartInv, TypeOK, WriteMepc, WriteSepc, WriteDelegation, CsrWrite, delegation
<1>3. CASE WriteMepc(place)
  BY <1>1, <1>2, <1>3
     DEF WriteMepc, HartInv, TypeOK, Access, MemPrivilegeInSync, Saved
<1>4. CASE WriteSepc(place)
  BY <1>1, <1>2, <1>4
     DEF WriteSepc, HartInv, TypeOK, Access, MemPrivilegeInSync, Saved
<1>5. CASE WriteDelegation
  BY <1>1, <1>2, <1>5
     DEF WriteDelegation, HartInv, TypeOK, Access, MemPrivilegeInSync, Saved
<1>. QED
  BY <1>3, <1>4, <1>5

LEMMA HartStarts ==
    ASSUME BootMemPrivilege = 3, Init
    PROVE  HartInv
<1>1. 0 \in Places
  BY HartAssumption DEF Places
<1>. QED
  BY <1>1 DEF Init, HartInv, TypeOK, Access, MemPrivilegeInSync, Effective,
              Saved, Privileges

LEMMA HartInvStep ==
    ASSUME HartInv, [Next]_vars
    PROVE  HartInv'
<1>0. pc \in Places /\ NextPc \in Places
  BY NextPcIsPlace DEF HartInv, TypeOK, NextPc
<1>1. CASE FetchFault \/ BadCompressed
  BY <1>0, <1>1, ExceptionStep DEF FetchFault, BadCompressed
<1>2. ASSUME NEW target \in Places, Jump(target) PROVE HartInv'
  <2>1. TypeOK'
    BY <1>2 DEF Jump, Execute, HartInv, TypeOK, delegation
  <2>. QED
    BY <1>2, <2>1, QuietStep DEF Jump
<1>3. ASSUME NEW cause \in Causes, Fault(cause) PROVE HartInv'
  BY <1>0, <1>3, ExceptionStep DEF Fault, Execute
<1>4. CASE Ecall
  <2>1. PICK cause : Exception(pc, NextPc, cause)
    BY <1>4 DEF Ecall
  <2>. QED
    BY <1>0, <1>4, <2>1, ExceptionStep DEF Ecall, Execute
<1>5. CASE EcallAborts \/ NoInterrupt
  <2>1. TypeOK'
    BY <1>5 DEF EcallAborts, NoInterrupt, HartInv, TypeOK, delegation
  <2>. QED
    BY <1>5, <2>1, QuietStep DEF EcallAborts, NoInterrupt
<1>6. CASE Mret \/ Sret
  BY <1>6, MretStep, SretStep
<1>7. ASSUME NEW wdata \in StatusWrites, WriteMstatus(wdata) \/ WriteSstatus(wdata)
      PROVE  HartInv'
  BY <1>7, MstatusWriteStep, SstatusWriteStep
<1>8. ASSUME NEW place \in Places, WriteMepc(place) \/ WriteSepc(place)
      PROVE  HartInv'
  BY <1>8, OtherCsrStep
<1>9. CASE WriteDelegation
  BY <1>0, <1>9, OtherCsrStep
<1>10. CASE TakeInterrupt
  <2>1. PICK irq \in ToTake : Trap(pc, irq, mideleg)
    BY <1>10 DEF TakeInterrupt
  <2>. QED
    BY <1>0, <1>10, <2>1, TrapStep DEF TakeInterrupt
<1>11. ASSUME NEW irq \in Irqs, Device(irq) PROVE HartInv'
  <2>1. TypeOK'
    BY <1>11 DEF Device, Set, HartInv, TypeOK, delegation
  <2>. QED
    BY <1>11, <2>1, QuietStep DEF Device
<1>12. CASE UNCHANGED vars
  <2>1. TypeOK'
    BY <1>12 DEF vars, HartInv, TypeOK, delegation
  <2>. QED
    BY <1>12, <2>1, QuietStep DEF vars
<1>. QED
  BY <1>1, <1>2, <1>3, <1>4, <1>5, <1>6, <1>7, <1>8, <1>9, <1>10, <1>11, <1>12
     DEF Next, HartStep, Insn

LEMMA HartInductive ==
    ASSUME BootMemPrivilege = 3
    PROVE  Spec => []HartInv
  BY HartStarts, HartInvStep, PTL DEF Spec

-----------------------------------------------------------------------------
(* The theorems.  emu_machine_init starts a hart with mem_privilege = 3.   *)

\* Every variable keeps its type, whatever the guest writes to the CSRs.
THEOREM TypeCorrect ==
    ASSUME BootMemPrivilege = 3
    PROVE  Spec => []TypeOK
<1>1. HartInv => TypeOK
  BY DEF HartInv
<1>. QED
  BY <1>1, HartInductive, PTL

\* The cached privilege of data accesses is always the one that mstatus and the
\* privilege stand for, although only three places of the code recompute it.
THEOREM MemPrivilegeSynced ==
    ASSUME BootMemPrivilege = 3
    PROVE  Spec => []MemPrivilegeInSync
<1>1. HartInv => MemPrivilegeInSync
  BY DEF HartInv, Access
<1>. QED
  BY <1>1, HartInductive, PTL

\* Below machine mode no data access has another mode's rights.
THEOREM NothingBorrowed ==
    ASSUME BootMemPrivilege = 3
    PROVE  Spec => []NoBorrowedPrivilege
<1>1. HartInv => NoBorrowedPrivilege
  BY DEF HartInv, Access, MemPrivilegeInSync, Effective, NoBorrowedPrivilege
<1>. QED
  BY <1>1, HartInductive, PTL

\* mret returns to what the last machine-mode trap interrupted.
THEOREM MachineTrapReturns ==
    ASSUME BootMemPrivilege = 3
    PROVE  Spec => MachineReturns
<1>1. HartInv /\ [Next]_vars
        => [Mret /\ mtrap # NoTrap
              => /\ pc' = mtrap.pc
                 /\ privilege' = mtrap.privilege
                 /\ MIE \in mstatus' <=> mtrap.ie]_vars
  BY MretStep DEF HartInv, Saved
<1>. QED
  BY <1>1, HartInductive, PTL DEF Spec, MachineReturns

\* sret returns to what the last supervisor-mode trap interrupted.
THEOREM SupervisorTrapReturns ==
    ASSUME BootMemPrivilege = 3
    PROVE  Spec => SupervisorReturns
<1>1. ASSUME HartInv, Sret, strap # NoTrap
      PROVE  /\ pc' = strap.pc
             /\ privilege' = strap.privilege
             /\ SIE \in mstatus' <=> strap.ie
  <2>1. strap.privilege \in {0, 1}
    BY <1>1 DEF HartInv, TypeOK
  <2>. QED
    BY <1>1, <2>1, SretStep DEF HartInv, Saved
<1>2. HartInv /\ [Next]_vars
        => [Sret /\ strap # NoTrap
              => /\ pc' = strap.pc
                 /\ privilege' = strap.privilege
                 /\ SIE \in mstatus' <=> strap.ie]_vars
  BY <1>1
<1>. QED
  BY <1>2, HartInductive, PTL DEF Spec, SupervisorReturns

-----------------------------------------------------------------------------
(* The interrupt check.                                                    *)

\* The steps that follow an instruction.
LEMMA CheckSteps ==
    ASSUME [Next]_vars, step = "check"
    PROVE  \/ TakeInterrupt
           \/ NoInterrupt
           \/ step' = "check" /\ UNCHANGED <<privilege, mstatus>>
<1>1. ~(FetchFault \/ BadCompressed \/ Insn)
  BY DEF FetchFault, BadCompressed, Insn, Jump, Fault, Ecall, EcallAborts, Mret, Sret,
         WriteMstatus, WriteSstatus, WriteMepc, WriteSepc, WriteDelegation, CsrWrite,
         Execute
<1>2. ASSUME NEW irq \in Irqs, Device(irq)
      PROVE  step' = "check" /\ UNCHANGED <<privilege, mstatus>>
  BY <1>2 DEF Device
<1>3. CASE UNCHANGED vars
  BY <1>3 DEF vars
<1>. QED
  BY <1>1, <1>2, <1>3 DEF Next, HartStep

\* What is due is exactly what the check chooses among.
LEMMA DueIsTaken ==
    ASSUME TypeOK, NEW irq, Due(irq)
    PROVE  ToTake # {}
<1>1. CASE irq \in mideleg
  BY <1>1 DEF Due, ToTake, Pending, MachineEnabled, SupervisorEnabled
<1>2. CASE irq \notin mideleg
  BY <1>2 DEF Due, ToTake, Pending, MachineEnabled
<1>. QED
  BY <1>1, <1>2

LEMMA TakenIsDue ==
    ASSUME TypeOK, NEW irq \in ToTake
    PROVE  Due(irq) /\ irq \in Irqs
<1>1. CASE irq \in Pending \ mideleg /\ MachineEnabled
  BY <1>1 DEF Due, Pending, MachineEnabled, TypeOK
<1>2. CASE irq \in Pending \cap mideleg /\ SupervisorEnabled
  BY <1>2 DEF Due, Pending, SupervisorEnabled, TypeOK, Privileges
<1>. QED
  BY <1>1, <1>2 DEF ToTake

\* Entering a mode masks its interrupts; the other mode had none to offer.
LEMMA TakenLeavesNothing ==
    ASSUME HartInv, TakeInterrupt, NEW irq
    PROVE  ~Due(irq)'
<1>1. PICK taken \in ToTake : Trap(pc, taken, mideleg)
  BY DEF TakeInterrupt
<1>2. UNCHANGED <<irq_pending, mie, mideleg>>
  BY DEF TakeInterrupt, delegation
<1>3. pc \in Places /\ privilege \in Privileges
  BY DEF HartInv, TypeOK
<1>4. CASE EnterMachine(pc)
  <2> DEFINE masked == Set(Set(mstatus, MPIE, MIE \in mstatus), MIE, FALSE)
  <2>1. MIE \notin masked /\ masked \subseteq StatusBits
    BY BitPositions, StatusBitsAre DEF Set, HartInv, TypeOK
  <2>2. mstatus' = SetMpp(masked, privilege) /\ privilege' = 3
    BY <1>4 DEF EnterMachine
  <2> HIDE DEF masked
  <2>3. MIE \notin mstatus'
    BY <1>3, <2>1, <2>2, SetMppStores, BitPositions
  <2>. QED
    BY <2>2, <2>3 DEF Due
<1>5. CASE Delegated(taken, mideleg) /\ EnterSupervisor(pc)
  <2>1. taken \in mideleg /\ privilege <= 1
    BY <1>5 DEF Delegated
  <2>2. MachineEnabled
    BY <1>3, <2>1 DEF MachineEnabled, Privileges
  <2>3. Pending \ mideleg = {}
    BY <2>1, <2>2 DEF ToTake
  <2>4. privilege' = 1 /\ SIE \notin mstatus'
    BY <1>5, BitPositions DEF EnterSupervisor, Set
  <2>. QED
    BY <1>2, <2>3, <2>4 DEF Due, Pending
<1>. QED
  BY <1>1, <1>4, <1>5 DEF Trap

\* After every check, no interrupt is left that the hart would have to take.
THEOREM CheckLeavesNothing ==
    ASSUME BootMemPrivilege = 3
    PROVE  Spec => NothingLeftToTake
<1>1. ASSUME HartInv, [Next]_vars, step = "check", step' = "insn", NEW irq \in Irqs
      PROVE  ~Due(irq)'
  <2>1. CASE NoInterrupt
    <3>1. ToTake = {} /\ UNCHANGED <<irq_pending, mie, mideleg, privilege, mstatus>>
      BY <2>1 DEF NoInterrupt, delegation
    <3>. QED
      BY <1>1, <3>1, DueIsTaken DEF Due, HartInv
  <2>. QED
    BY <1>1, <2>1, CheckSteps, TakenLeavesNothing
<1>2. HartInv /\ [Next]_vars
        => [step = "check" /\ step' = "insn" => \A irq \in Irqs : ~Due(irq)']_vars
  BY <1>1
<1>. QED
  BY <1>2, HartInductive, PTL DEF Spec, NothingLeftToTake

\* An interrupt is taken only if it is due, in a mode no lower than the one it
\* interrupts, and in supervisor mode exactly if it is delegated.
THEOREM ModesRespected ==
    ASSUME BootMemPrivilege = 3
    PROVE  Spec => InterruptsRespectModes
<1>1. ASSUME HartInv, TakeInterrupt
      PROVE  /\ privilege' >= privilege
             /\ \E irq \in Irqs : Due(irq) /\ (privilege' = 1 <=> irq \in mideleg)
  <2>1. PICK irq \in ToTake : Trap(pc, irq, mideleg)
    BY <1>1 DEF TakeInterrupt
  <2>2. Due(irq) /\ irq \in Irqs /\ privilege \in Privileges
    BY <1>1, TakenIsDue DEF HartInv, TypeOK
  <2>3. irq \in mideleg => privilege <= 1
    BY <2>2 DEF Due, Privileges
  <2>4. IF irq \in mideleg THEN privilege' = 1 ELSE privilege' = 3
    BY <2>1, <2>3 DEF Trap, Delegated, EnterSupervisor, EnterMachine
  <2>. QED
    BY <2>2, <2>3, <2>4 DEF Privileges
<1>2. HartInv /\ [Next]_vars
        => [step = "check" /\ <<privilege', mstatus'>> # <<privilege, mstatus>>
              => /\ privilege' >= privilege
                 /\ \E irq \in Irqs :
                      Due(irq) /\ (privilege' = 1 <=> irq \in mideleg)]_vars
  BY <1>1, CheckSteps DEF NoInterrupt
<1>. QED
  BY <1>2, HartInductive, PTL DEF Spec, InterruptsRespectModes

-----------------------------------------------------------------------------
(* The composition with the timer.                                         *)

\* The type of the timer, which PendingMeansFired needs to be inductive.
TimerTyped ==
    /\ now \in Nat
    /\ phase \in [Owners -> {"off", "setting", "waiting", "fired"}]
    /\ due \in [Owners -> Int]

MachineInv == HartInv /\ TimerTyped /\ PendingMeansFired

\* A step of the hart leaves the interrupts that are pending to the devices.
LEMMA HartLeavesPending ==
    ASSUME HartStep
    PROVE  irq_pending' = irq_pending
<1>1. CASE FetchFault \/ BadCompressed
  BY <1>1 DEF FetchFault, BadCompressed, Exception
<1>2. CASE TakeInterrupt \/ NoInterrupt
  BY <1>2 DEF TakeInterrupt, NoInterrupt
<1>3. CASE Insn
  <2>1. CASE (\E target \in Places : Jump(target)) \/ EcallAborts
    BY <2>1 DEF Jump, EcallAborts
  <2>2. CASE (\E cause \in Causes : Fault(cause)) \/ Ecall
    BY <2>2 DEF Fault, Ecall, Exception
  <2>3. CASE Mret \/ Sret
    BY <2>3 DEF Mret, Sret
  <2>4. CASE \E wdata \in StatusWrites : WriteMstatus(wdata) \/ WriteSstatus(wdata)
    BY <2>4 DEF WriteMstatus, WriteSstatus, CsrWrite
  <2>5. CASE (\E place \in Places : WriteMepc(place) \/ WriteSepc(place)) \/ WriteDelegation
    BY <2>5 DEF WriteMepc, WriteSepc, WriteDelegation, CsrWrite
  <2>. QED
    BY <1>3, <2>1, <2>2, <2>3, <2>4, <2>5 DEF Insn
<1>. QED
  BY <1>1, <1>2, <1>3 DEF HartStep

\* What each step of the composition is for the hart and for the timer.
LEMMA StepsOfBoth ==
    ASSUME MachineInv, [MachineNext]_machineVars
    PROVE  /\ [Next]_vars
           /\ [TimersNext]_timerVars
<1>0. Me \in Owners /\ Owners = {Me} /\ "MTIP" \in Irqs
  BY MachineAssumption
<1>1. CASE RunStep
  <2>1. CASE HookHalts
    <3>1. Ecall
      BY <2>1 DEF HookHalts, Ecall, Exception
    <3>. QED
      BY <1>1, <3>1 DEF RunStep, Next, HartStep, Insn
  <2>. QED
    BY <1>1, <2>1 DEF RunStep, Next
<1>2. CASE FinishStore
  <2>1. [Next]_vars
    <3>1. CASE "MTIP" \in irq_pending
      BY <1>0, <1>2, <3>1 DEF FinishStore, Next, Device, Set, registers
    <3>2. CASE "MTIP" \notin irq_pending
      <4>1. irq_pending' = irq_pending
        BY <1>2, <3>2 DEF FinishStore
      <4>. QED
        BY <1>2, <4>1 DEF FinishStore, registers, vars
    <3>. QED
      BY <3>1, <3>2
  <2>. QED
    BY <1>0, <1>2, <2>1 DEF FinishStore, TimersNext
<1>3. CASE CheckTimer
  <2>1. CASE Fire(Me)
    <3>1. "MTIP" \notin irq_pending
      BY <2>1 DEF Fire, MachineInv, PendingMeansFired, Free
    <3>2. irq_pending' = Set(irq_pending, "MTIP", "MTIP" \notin irq_pending)
      BY <1>3, <2>1, <3>1 DEF CheckTimer, Set, Fire
    <3>. QED
      BY <1>0, <1>3, <2>1, <3>2 DEF CheckTimer, Next, Device, registers, TimersNext
  <2>2. CASE UNCHANGED <<timerVars, irq_pending>>
    BY <1>3, <2>2 DEF CheckTimer, registers, vars
  <2>. QED
    BY <1>3, <2>1, <2>2 DEF CheckTimer
<1>4. CASE Join
  BY <1>4 DEF Join
<1>5. CASE \E d \in Deadlines : StoreDeadline(d)
  <2>. PICK d \in Deadlines : StoreDeadline(d)
    BY <1>5
  <2>1. NextPc \in Places
    BY NextPcIsPlace DEF MachineInv, HartInv, TypeOK, NextPc
  <2>. QED
    BY <1>0, <2>1 DEF StoreDeadline, Next, HartStep, Insn, TimersNext
<1>6. CASE Clock
  BY <1>6 DEF Clock, TimersNext
<1>7. CASE \E irq \in Irqs \ {"MTIP"} : Controller(irq)
  BY <1>7 DEF Controller, Next
<1>8. CASE UNCHANGED machineVars
  BY <1>8 DEF machineVars
<1>. QED
  BY <1>1, <1>2, <1>3, <1>4, <1>5, <1>6, <1>7, <1>8 DEF MachineNext, Thread

LEMMA MachineStarts ==
    ASSUME BootMemPrivilege = 3, MachineInit
    PROVE  MachineInv
<1>1. HartInv
  BY HartStarts DEF MachineInit
<1>2. TimerTyped
  BY DEF MachineInit, TimerTyped, Never
<1>3. PendingMeansFired
  BY MachineAssumption DEF MachineInit, Init, PendingMeansFired, Free
<1>. QED
  BY <1>1, <1>2, <1>3 DEF MachineInv

LEMMA MachineInvStep ==
    ASSUME MachineInv, [MachineNext]_machineVars
    PROVE  MachineInv'
<1>0. Me \in Owners /\ Owners = {Me}
  BY MachineAssumption
<1>1. HartInv'
  BY StepsOfBoth, HartInvStep DEF MachineInv
<1>2. CASE UNCHANGED <<timerVars, irq_pending>>
  BY <1>1, <1>2 DEF timerVars, MachineInv, TimerTyped, PendingMeansFired, Free
<1>3. CASE RunStep
  <2>1. UNCHANGED timerVars
    BY <1>3 DEF RunStep
  <2>2. irq_pending' = irq_pending
    BY <1>3, HartLeavesPending DEF RunStep, HookHalts
  <2>. QED
    BY <1>2, <2>1, <2>2
<1>4. CASE FinishStore
  BY <1>0, <1>1, <1>4 DEF FinishStore, Settle, MachineInv, TimerTyped, PendingMeansFired, Free
<1>5. CASE CheckTimer
  <2>1. CASE Fire(Me)
    BY <1>0, <1>1, <1>5, <2>1
       DEF CheckTimer, Fire, MachineInv, TimerTyped, PendingMeansFired, Free
  <2>. QED
    BY <1>2, <1>5, <2>1 DEF CheckTimer
<1>6. CASE \E d \in Deadlines : StoreDeadline(d)
  <2>. PICK d \in Deadlines : StoreDeadline(d)
    BY <1>6
  <2>1. d \in Int
    BY TimersAssumption
  <2>2. Ask(Me, d)
    BY DEF StoreDeadline
  <2>3. phase' = [phase EXCEPT ![Me] = "setting"] /\ due' = [due EXCEPT ![Me] = d] /\ now' = now
    BY <2>2 DEF Ask
  <2>4. phase'[Me] = "setting"
    BY <1>0, <2>3 DEF MachineInv, TimerTyped
  <2>. QED
    BY <1>0, <1>1, <2>1, <2>3, <2>4 DEF MachineInv, TimerTyped, PendingMeansFired, Free
<1>7. CASE Clock
  BY <1>1, <1>7, <1>0
     DEF Clock, Advance, vars, MachineInv, TimerTyped, PendingMeansFired, Free
<1>8. CASE \E irq \in Irqs \ {"MTIP"} : Controller(irq)
  BY <1>1, <1>8 DEF Controller, Device, Set, timerVars, MachineInv, TimerTyped,
                    PendingMeansFired, Free
<1>9. CASE Join \/ UNCHANGED machineVars
  BY <1>2, <1>9 DEF Join, machineVars, vars
<1>. QED
  BY <1>3, <1>4, <1>5, <1>6, <1>7, <1>8, <1>9 DEF MachineNext, Thread

LEMMA MachineInductive ==
    ASSUME BootMemPrivilege = 3
    PROVE  MachineSpec => []MachineInv
  BY MachineStarts, MachineInvStep, PTL DEF MachineSpec

-----------------------------------------------------------------------------
(* The theorems.                                                           *)

\* MTIP is pending exactly while the timer has fired: rv_clint_check_timer is the only
\* one to raise it, and a store to mtimecmp lets it drop before the guest goes on.
THEOREM PendingIsFired ==
    ASSUME BootMemPrivilege = 3
    PROVE  MachineSpec => []PendingMeansFired
<1>1. MachineInv => PendingMeansFired
  BY DEF MachineInv
<1>. QED
  BY <1>1, MachineInductive, PTL

\* The hart in its loop, halted or not, with a timer that rv_clint_check_timer polls and
\* that its own stores set, is the hart whose devices Hart lets do anything: every theorem
\* of the theorems above holds of it.
THEOREM MachineIsHart ==
    ASSUME BootMemPrivilege = 3
    PROVE  MachineSpec => Spec
<1>1. MachineInit => Init
  BY DEF MachineInit
<1>2. MachineInv /\ [MachineNext]_machineVars => [Next]_vars
  BY StepsOfBoth
<1>. QED
  BY <1>1, <1>2, MachineInductive, PTL DEF MachineSpec, Spec

\* And it is a timer that keeps the promises of Timers, whatever the hart does.
THEOREM MachineIsTimer ==
    ASSUME BootMemPrivilege = 3
    PROVE  MachineSpec => TimersSafety
<1>1. MachineInit => TimersInit
  BY DEF MachineInit, TimersInit
<1>2. MachineInv /\ [MachineNext]_machineVars => [TimersNext]_timerVars
  BY StepsOfBoth
<1>. QED
  BY <1>1, <1>2, MachineInductive, PTL DEF MachineSpec, TimersSafety

\* So after every check of the composed machine no interrupt is left to take.
THEOREM MachineLeavesNothing ==
    ASSUME BootMemPrivilege = 3
    PROVE  MachineSpec => NothingLeftToTake
  BY MachineIsHart, CheckLeavesNothing

\* And an interrupt, the timer's among them, is taken in the mode it belongs to.
THEOREM MachineRespectsModes ==
    ASSUME BootMemPrivilege = 3
    PROVE  MachineSpec => InterruptsRespectModes
  BY MachineIsHart, ModesRespected
=============================================================================
