----------------------------- MODULE CsrProofs ------------------------------
(***************************************************************************)
(* What is proved of the CSR instructions of a hart, for every set of      *)
(* instructions, every set of device lines and any number of instructions. *)
(***************************************************************************)
EXTENDS Csr, TLAPS

-----------------------------------------------------------------------------
(* The registers and their masks                                           *)

LEMMA Names ==
    Indices = {"fflags", "frm", "fcsr", "none", "sstatus", "sie", "sip", "sscratch",
               "satp", "mstatus", "mie", "mip", "mideleg", "medeleg", "mscratch",
               "mhartid"}
BY DEF Indices, Level

LEMMA Levels ==
    /\ \A r \in {"fflags", "frm", "fcsr", "none"} : Level[r] = 0
    /\ \A r \in {"sstatus", "sie", "sip", "sscratch", "satp"} : Level[r] = 1
    /\ \A r \in {"mstatus", "mie", "mip", "mideleg", "medeleg", "mscratch", "mhartid"} :
          Level[r] = 3
BY DEF Level

LEMMA Holders ==
    ASSUME NEW r \in Indices \ {"none", "mip", "sip"}
    PROVE  Holder(r) \in Stored
BY Names DEF Holder, Stored, FloatCsrs

LEMMA Masks ==
    /\ SstatusMask \subseteq MstatusMask
    /\ MstatusMask \subseteq Bits
    /\ FcsrMask \subseteq Bits
    /\ FflagsMask \subseteq FcsrMask
    /\ Shift(FrmMask, FrmBase) \subseteq FcsrMask
    /\ SipWmask \subseteq Bits
<1>1. SstatusMask \subseteq MstatusMask /\ MstatusMask \subseteq Bits
  BY DEF SstatusMask, MstatusMask, Bits
<1>2. FcsrMask \subseteq Bits /\ FflagsMask \subseteq FcsrMask
  BY DEF FcsrMask, FflagsMask, Bits
<1>3. Shift(FrmMask, FrmBase) \subseteq FcsrMask
  BY DEF Shift, FrmMask, FrmBase, FcsrMask, Bits
<1>4. SipWmask \subseteq Bits
  BY DEF SipWmask, Bits
<1> QED BY <1>1, <1>2, <1>3, <1>4

\* What is stored is a value of the register.
LEMMA ReplacedIsLegal ==
    ASSUME TypeOK,
           NEW r \in Indices \ {"none", "mip", "sip"}, NEW w \in SUBSET Bits
    PROVE  /\ Replaced(r, w) \in SUBSET Bits
           /\ Holder(r) = "satp" => Replaced(r, w) \cap SatpMode \in {{}, Sv39}
           /\ Holder(r) = "mstatus" => Replaced(r, w) \subseteq MstatusMask
           /\ Holder(r) = "fcsr" => Replaced(r, w) \subseteq FcsrMask
           /\ Holder(r) = "mhartid" => Replaced(r, w) = {}
<1>1. CASE r = "mstatus"
  BY <1>1, Masks DEF Replaced, Holder, FloatCsrs
<1>2. CASE r = "sstatus"
  BY <1>2, Masks DEF Replaced, Holder, FloatCsrs, Merge, TypeOK, LegalFields
<1>3. CASE r = "satp"
  BY <1>3 DEF Replaced, Holder, FloatCsrs, Unsupported, TypeOK, LegalFields, Stored
<1>4. CASE r \in FloatCsrs
  <2>1. csr["fcsr"] \subseteq FcsrMask
    BY DEF TypeOK, LegalFields
  <2>2. Holder(r) = "fcsr"
    BY <1>4 DEF Holder, FloatCsrs
  <2>3. Replaced(r, w) \subseteq FcsrMask
    BY <1>4, <2>1, Masks DEF Replaced, FloatCsrs, Merge
  <2> QED BY <2>2, <2>3, Masks
<1>5. CASE r = "mhartid"
  BY <1>5 DEF Replaced, Holder, FloatCsrs, TypeOK, LegalFields
<1>6. CASE r \in {"sie", "sscratch", "mie", "mideleg", "medeleg", "mscratch"}
  BY <1>6 DEF Replaced, Holder, FloatCsrs
<1> QED BY <1>1, <1>2, <1>3, <1>4, <1>5, <1>6, Names DEF FloatCsrs

LEMMA ViewIsBits ==
    ASSUME TypeOK, NEW r \in Indices, r # "none"
    PROVE  View(r) \in SUBSET Bits
<1>1. CASE r \in Stored \ {"mstatus"}
  BY <1>1 DEF View, TypeOK, Stored
<1>2. CASE r \in {"mstatus", "sstatus"}
  <2>1. MstatusHardwired \subseteq Bits /\ SstatusHardwired \subseteq Bits
    BY DEF MstatusHardwired, SstatusHardwired, Bits
  <2> QED BY <1>2, <2>1 DEF View, TypeOK, Stored
<1>3. CASE r \in {"mip", "sip"}
  BY <1>3 DEF View, TypeOK
<1>4. CASE r \in {"fflags", "frm"}
  BY <1>4, Masks DEF View, TypeOK, Shift, Stored
<1> QED BY <1>1, <1>2, <1>3, <1>4, Names DEF Stored

-----------------------------------------------------------------------------
(* Type correctness                                                        *)

\* A pending instruction, its operand and what it read
LEMMA Pending ==
    ASSUME TypeOK, at # Idle
    PROVE  /\ at.insn \in CsrInsns
           /\ at.rdata \in SUBSET Bits
           /\ at.insn.csr \in Indices
           /\ Operand(at.insn) \in SUBSET Bits
           /\ at.insn.op # "none" => NewValue(at.insn, at.rdata) \in SUBSET Bits
<1>1. at \in [phase : {"read"}, insn : CsrInsns, rdata : SUBSET Bits]
  BY DEF TypeOK
<1>2. at.insn \in CsrInsns /\ at.rdata \in SUBSET Bits
  BY <1>1
<1>3. at.insn.csr \in Indices /\ Operand(at.insn) \in SUBSET Bits
  BY <1>2 DEF CsrInsns, Operand
<1>4. at.insn.op \in {"none", "write", "set", "clear"}
  BY <1>2 DEF CsrInsns
<1>5. at.insn.op # "none" => NewValue(at.insn, at.rdata) \in SUBSET Bits
  BY <1>2, <1>3, <1>4 DEF NewValue
<1> QED BY <1>2, <1>3, <1>5

\* An instruction that waits to write is one that writes or reads, and may still read.
Began ==
    at # Idle => /\ at.insn.op # "none"
                 /\ DoRead(at.insn) => Accessible(at.insn.csr)
Typed == TypeOK /\ Began

\* A write keeps the types.
LEMMA WriteKeepsTypes ==
    ASSUME TypeOK, NEW r \in Indices \ {"none"}, NEW w \in SUBSET Bits, WriteCsr(r, w)
    PROVE  /\ csr' \in [Stored -> SUBSET Bits] /\ LegalFields'
           /\ irq_pending' \in SUBSET Bits
<1>1. CASE r \in {"mip", "sip"}
  <2>1. csr' = csr /\ irq_pending' = NewPending(r, w)
    BY <1>1 DEF WriteCsr
  <2>2. LegalFields'
    BY <2>1 DEF TypeOK, LegalFields
  <2>3. irq_pending' \in SUBSET Bits
    BY <2>1, Masks DEF NewPending, Merge, TypeOK
  <2> QED BY <2>1, <2>2, <2>3 DEF TypeOK
<1>2. CASE r \notin {"mip", "sip"}
  <2>1. /\ csr' = [csr EXCEPT ![Holder(r)] = Replaced(r, w)]
        /\ irq_pending' = irq_pending
    BY <1>2 DEF WriteCsr
  <2>2. Holder(r) \in Stored
    BY <1>2, Holders
  <2>3. /\ csr' \in [Stored -> SUBSET Bits]
        /\ \A q \in Stored : csr'[q] = IF q = Holder(r) THEN Replaced(r, w) ELSE csr[q]
    BY <1>2, <2>1, <2>2, ReplacedIsLegal DEF TypeOK
  <2>4. LegalFields'
    BY <1>2, <2>3, ReplacedIsLegal DEF TypeOK, LegalFields, Stored
  <2> QED BY <2>1, <2>3, <2>4 DEF TypeOK
<1> QED BY <1>1, <1>2

LEMMA TypedInit == Init => Typed
  BY CsrAssumption DEF Init, Typed, TypeOK, LegalFields, Began,
     Privileges, Stored, Idle, Sv39

LEMMA TypedStep ==
    Typed /\ [Next]_vars => Typed'
<1> SUFFICES ASSUME Typed, [Next]_vars
             PROVE  Typed'
  OBVIOUS
<1> USE DEF Typed
<1>1. ASSUME NEW i \in Insns, RefuseRead(i) PROVE Typed'
  BY <1>1 DEF RefuseRead, Fetch, Illegal, TypeOK, LegalFields, Began
<1>2. ASSUME NEW i \in Insns, Read(i) PROVE Typed'
  <2>1. i \in CsrInsns /\ i.csr \in Indices
    BY CsrAssumption DEF CsrInsns
  <2>2. DoRead(i) => i.csr # "none"
    BY <1>2 DEF Read, Accessible
  <2>3. at' \in [phase : {"read"}, insn : CsrInsns, rdata : SUBSET Bits] /\ at'.insn = i
    BY <1>2, <2>1, <2>2, ViewIsBits DEF Read
  <2>4. TypeOK'
    BY <1>2, <2>3 DEF Read, Fetch, TypeOK, LegalFields
  <2>5. Began'
    BY <1>2, <2>3 DEF Read, Fetch, Began, Accessible, FloatOn
  <2> QED BY <2>4, <2>5
<1>3. CASE RefuseWrite
  BY <1>3 DEF RefuseWrite, Illegal, TypeOK, LegalFields, Began
<1>4. CASE Finish
  <2>1. /\ at.insn.csr \in Indices /\ at.rdata \in SUBSET Bits
        /\ NewValue(at.insn, at.rdata) \in SUBSET Bits
    BY <1>4, Pending DEF Finish, Began
  <2>2. DoWrite(at.insn) => at.insn.csr # "none"
    BY <1>4 DEF Finish, Accessible
  <2>3. /\ csr' \in [Stored -> SUBSET Bits] /\ LegalFields'
        /\ irq_pending' \in SUBSET Bits
    <3>1. CASE DoWrite(at.insn)
      BY <1>4, <2>1, <2>2, <3>1, WriteKeepsTypes DEF Finish
    <3>2. CASE ~DoWrite(at.insn)
      BY <1>4, <3>2 DEF Finish, TypeOK, LegalFields
    <3> QED BY <3>1, <3>2
  <2>4. TypeOK'
    BY <1>4, <2>1, <2>3 DEF Finish, TypeOK
  <2> QED BY <1>4, <2>3, <2>4 DEF Finish, Began
<1>5. ASSUME NEW p \in Privileges, ChangePrivilege(p) PROVE Typed'
  BY <1>5 DEF ChangePrivilege, TypeOK, LegalFields, Began
<1>6. ASSUME NEW b \in Lines, Device(b) PROVE Typed'
  <2>1. b \in Bits
    BY CsrAssumption
  <2>2. irq_pending' \in SUBSET Bits
    BY <1>6, <2>1 DEF Device, Toggled, TypeOK
  <2>3. Began'
    BY <1>6 DEF Device, Began, Accessible, FloatOn
  <2> QED BY <1>6, <2>2, <2>3 DEF Device, TypeOK, LegalFields
<1>7. CASE UNCHANGED vars
  <2>1. Began'
    BY <1>7 DEF vars, Began, Accessible, FloatOn
  <2> QED BY <1>7, <2>1 DEF vars, TypeOK, LegalFields
<1> QED BY <1>1, <1>2, <1>3, <1>4, <1>5, <1>6, <1>7 DEF Next

\* Every register keeps its type, and every field a value that it has: whatever is
\* written, through whichever name.
THEOREM TypeCorrect == Spec => []TypeOK
<1>1. Typed => TypeOK
  BY DEF Typed
<1> QED BY TypedInit, TypedStep, <1>1, PTL DEF Spec

-----------------------------------------------------------------------------
(* Privilege                                                               *)

LEMMA ExecutesInStep == Next /\ Executes => RefuseWrite \/ Finish
  BY DEF Next, Executes, RefuseRead, Read, Fetch, ChangePrivilege, Device

\* What a step that executes an instruction changes, if anything, is what a write of
\* its register changes, and the register is one that it may access.
LEMMA ExecutionIsAccess ==
    ASSUME TypeOK, Began, Next, Executes
    PROVE  \/ UNCHANGED <<csr, irq_pending>>
           \/ \E r \in Indices, w \in SUBSET Bits : Accessible(r) /\ WriteCsr(r, w)
<1>1. CASE RefuseWrite
  BY <1>1 DEF RefuseWrite, Illegal
<1>2. CASE Finish
  <2>1. CASE DoWrite(at.insn)
    <3>1. at.insn.csr \in Indices /\ NewValue(at.insn, at.rdata) \in SUBSET Bits
      BY <1>2, Pending DEF Finish, Began
    <3> QED BY <1>2, <2>1, <3>1 DEF Finish
  <2>2. CASE ~DoWrite(at.insn)
    BY <1>2, <2>2 DEF Finish
  <2> QED BY <2>1, <2>2
<1> QED BY <1>1, <1>2, ExecutesInStep

\* What a write changes below machine mode
LEMMA WriteIsOwn ==
    ASSUME TypeOK, privilege < 3,
           NEW r \in Indices, NEW w \in SUBSET Bits, Accessible(r), WriteCsr(r, w)
    PROVE  /\ \A q \in {"mie", "mideleg", "medeleg", "mscratch", "mhartid"} :
                 csr'[q] = csr[q]
           /\ csr'["mstatus"] \ SstatusMask = csr["mstatus"] \ SstatusMask
           /\ privilege = 1 /\ TVM \in csr["mstatus"] => csr'["satp"] = csr["satp"]
           /\ irq_pending' \ csr["mideleg"] = irq_pending \ csr["mideleg"]
           /\ privilege = 0 => /\ irq_pending' = irq_pending
                               /\ \A q \in Stored \ {"fcsr"} : csr'[q] = csr[q]
<1>1. privilege \in {0, 1, 2} /\ r # "none" /\ Level[r] <= privilege
  BY DEF TypeOK, Privileges, Accessible
<1>2. r \in FloatCsrs \cup {"sstatus", "sie", "sip", "sscratch", "satp"}
  BY <1>1, Names, Levels DEF FloatCsrs
<1>3. r \in {"sstatus", "sie", "sip", "sscratch", "satp"} => privilege # 0
  BY <1>1, Levels
<1>4. CASE r = "sip"
  <2>1. csr' = csr /\ irq_pending' = NewPending(r, w)
    BY <1>4 DEF WriteCsr
  <2>2. irq_pending' \ csr["mideleg"] = irq_pending \ csr["mideleg"]
    BY <1>4, <2>1 DEF NewPending, Merge
  <2> QED BY <1>3, <1>4, <2>1, <2>2
<1>5. CASE r # "sip"
  <2>1. /\ csr' = [csr EXCEPT ![Holder(r)] = Replaced(r, w)]
        /\ irq_pending' = irq_pending
    BY <1>2, <1>5 DEF WriteCsr, FloatCsrs
  <2>2. \A q \in Stored : q # Holder(r) => csr'[q] = csr[q]
    BY <2>1 DEF TypeOK
  <2>3. CASE r \in FloatCsrs
    <3>1. Holder(r) = "fcsr"
      BY <2>3 DEF Holder, FloatCsrs
    <3> QED BY <2>1, <2>2, <3>1 DEF Stored
  <2>4. CASE r = "sstatus"
    <3>1. Holder(r) = "mstatus"
      BY <2>4 DEF Holder, FloatCsrs
    <3>2. csr'["mstatus"] = Merge(csr["mstatus"], SstatusMask, w)
      BY <2>1, <2>4, <3>1 DEF TypeOK, Stored, Replaced
    <3>3. csr'["mstatus"] \ SstatusMask = csr["mstatus"] \ SstatusMask
      BY <3>2 DEF Merge
    <3> QED BY <1>3, <2>1, <2>2, <2>4, <3>1, <3>3 DEF Stored
  <2>5. CASE r \in {"sie", "sscratch", "satp"}
    <3>1. Holder(r) = r
      BY <2>5 DEF Holder, FloatCsrs
    <3>2. r = "satp" /\ privilege = 1 => TVM \notin csr["mstatus"]
      BY DEF Accessible
    <3> QED BY <1>3, <2>1, <2>2, <2>5, <3>1, <3>2 DEF Stored
  <2> QED BY <1>2, <1>5, <2>3, <2>4, <2>5
<1> QED BY <1>4, <1>5

\* Below machine mode, the reserved privilege 2 included, no CSR instruction changes
\* what machine mode owns, and in supervisor mode none changes satp while TVM is set.
THEOREM PrivilegeHolds == Spec => NoEscalation
<1>1. Typed /\ [Next]_vars =>
        [Executes /\ privilege < 3 =>
          /\ \A r \in {"mie", "mideleg", "medeleg", "mscratch", "mhartid"} :
                csr'[r] = csr[r]
          /\ csr'["mstatus"] \ SstatusMask = csr["mstatus"] \ SstatusMask
          /\ privilege = 1 /\ TVM \in csr["mstatus"] => csr'["satp"] = csr["satp"]
          /\ irq_pending' \ csr["mideleg"] = irq_pending \ csr["mideleg"]
          /\ privilege = 0 => /\ irq_pending' = irq_pending
                              /\ \A r \in Stored \ {"fcsr"} : csr'[r] = csr[r]]_vars
  <2>1. ASSUME Typed, Next, Executes, UNCHANGED <<csr, irq_pending>>
        PROVE  /\ \A r \in {"mie", "mideleg", "medeleg", "mscratch", "mhartid"} :
                     csr'[r] = csr[r]
               /\ csr'["mstatus"] \ SstatusMask = csr["mstatus"] \ SstatusMask
               /\ TVM \in csr["mstatus"] => csr'["satp"] = csr["satp"]
               /\ irq_pending' \ csr["mideleg"] = irq_pending \ csr["mideleg"]
               /\ \A r \in Stored \ {"fcsr"} : csr'[r] = csr[r]
    BY <2>1
  <2> QED BY <2>1, ExecutionIsAccess, WriteIsOwn DEF Typed
<1> QED BY TypedInit, TypedStep, <1>1, PTL DEF Spec, NoEscalation

\* Without mstatus.FS the floating-point state is neither written nor read.
THEOREM FloatStateHidden == Spec => FloatStateGuarded
<1>1. Typed /\ [Next]_vars =>
        [Executes /\ ~FloatOn =>
          /\ csr'["fcsr"] = csr["fcsr"]
          /\ at.insn.csr \in FloatCsrs => rd' = rd]_vars
  <2> SUFFICES ASSUME Typed, Next, Executes, ~FloatOn
               PROVE  /\ csr'["fcsr"] = csr["fcsr"]
                      /\ at.insn.csr \in FloatCsrs => rd' = rd
    OBVIOUS
  <2>1. csr'["fcsr"] = csr["fcsr"]
    <3>1. ASSUME NEW r \in Indices, NEW w \in SUBSET Bits, Accessible(r), WriteCsr(r, w)
          PROVE  csr'["fcsr"] = csr["fcsr"]
      <4>1. r \notin FloatCsrs /\ r # "none"
        BY <3>1 DEF Accessible
      <4>2. Holder(r) # "fcsr"
        BY <4>1 DEF Holder, FloatCsrs
      <4> QED BY <3>1, <4>2 DEF WriteCsr, Typed, TypeOK, Stored
    <3> QED BY <3>1, ExecutionIsAccess DEF Typed
  <2>2. ASSUME at.insn.csr \in FloatCsrs PROVE rd' = rd
    <3>1. ~Accessible(at.insn.csr)
      BY <2>2 DEF Accessible
    <3>2. CASE RefuseWrite
      BY <3>2 DEF RefuseWrite, Illegal
    <3>3. CASE Finish
      <4>1. ~DoRead(at.insn)
        BY <3>1, <3>3 DEF Finish, Began, Typed
      <4> QED BY <3>3, <4>1 DEF Finish, DoRead
    <3> QED BY <3>2, <3>3, ExecutesInStep
  <2> QED BY <2>1, <2>2
<1> QED BY TypedInit, TypedStep, <1>1, PTL DEF Spec, FloatStateGuarded

-----------------------------------------------------------------------------
(* Setting and clearing bits                                               *)

\* w differs from the bits v in bits of m only.
Within(w, v, m) == Differ(w, v) \subseteq m

\* What an instruction that sets or clears bits computes
LEMMA SetOrClear ==
    ASSUME NEW i, i.op \in {"set", "clear"}, NEW v
    PROVE  Within(NewValue(i, v), v, Operand(i))
BY DEF NewValue, Within, Differ

LEMMA ShiftUp ==
    ASSUME NEW bits \in SUBSET Bits, NEW b \in Bits
    PROVE  b \in Shift(bits, FrmBase) <=> b - FrmBase \in bits
BY DEF Shift

LEMMA FrmView ==
    ASSUME NEW bits \in SUBSET Bits, NEW b \in FrmMask
    PROVE  b \in Shift(bits, -FrmBase) <=> b + FrmBase \in bits
BY DEF Shift, FrmMask, FrmBase, Bits

\* What is written back to a register differs from what it holds in the named bits only,
\* when the value differs from what was read in those bits.
LEMMA ReplacedDiffers ==
    ASSUME TypeOK,
           NEW r \in Indices \ {"none", "mip", "sip"},
           NEW m \in SUBSET Bits, NEW w \in SUBSET Bits, Within(w, View(r), m),
           r = "mstatus" => m \cap {2, 4} = {}
    PROVE  Differ(Replaced(r, w), csr[Holder(r)]) \subseteq Named(r, m)
<1>1. CASE r = "mstatus"
  <2>1. csr["mstatus"] \subseteq MstatusMask
    BY DEF TypeOK, LegalFields
  <2>2. {2, 4, 33, 35} \cap MstatusMask = {}
    BY DEF MstatusMask
  <2>3. 2 \notin w /\ 4 \notin w
    BY <1>1, <2>1, <2>2 DEF View, Within, Differ, MstatusHardwired
  <2>4. {b \in {0, 1, 3} : b + 1 \in w} \cap MstatusMask = {}
    BY <2>3 DEF MstatusMask
  <2>5. Replaced(r, w) = w \cap MstatusMask
    BY <1>1, <2>4 DEF Replaced
  <2>6. Holder(r) = "mstatus" /\ Named(r, m) = m
    BY <1>1 DEF Holder, FloatCsrs, Named
  <2> QED BY <1>1, <2>1, <2>2, <2>5, <2>6 DEF View, Within, Differ, MstatusHardwired
<1>2. CASE r = "sstatus"
  <2>1. 33 \notin SstatusMask
    BY DEF SstatusMask
  <2>2. Holder(r) = "mstatus" /\ Named(r, m) = m
    BY <1>2 DEF Holder, FloatCsrs, Named
  <2> QED BY <1>2, <2>1, <2>2 DEF Replaced, View, Within, Differ, Merge, SstatusHardwired
<1>3. CASE r = "frm"
  <2>1. Holder(r) = "fcsr" /\ Named(r, m) = Shift(m \cap FrmMask, FrmBase)
    BY <1>3 DEF Holder, FloatCsrs, Named
  <2>2. csr["fcsr"] \in SUBSET Bits
    BY DEF TypeOK, Stored
  <2>3. Replaced(r, w) = Merge(csr["fcsr"], Shift(FrmMask, FrmBase), Shift(w, FrmBase))
    BY <1>3 DEF Replaced
  <2>4. View(r) = Shift(csr["fcsr"], -FrmBase) \cap FrmMask
    BY <1>3 DEF View
  <2>5. ASSUME NEW b \in Differ(Replaced(r, w), csr["fcsr"])
        PROVE  b \in Shift(m \cap FrmMask, FrmBase)
    <3>1. /\ b \in Shift(FrmMask, FrmBase)
          /\ ~(b \in Shift(w, FrmBase) <=> b \in csr["fcsr"])
      BY <2>3, <2>5 DEF Differ, Merge
    <3>2. b \in Bits /\ b - FrmBase \in FrmMask
      BY <3>1 DEF Shift
    <3>3. b \in Shift(w, FrmBase) <=> b - FrmBase \in w
      BY <3>2, ShiftUp
    <3>4. b - FrmBase \in Shift(csr["fcsr"], -FrmBase) <=> b \in csr["fcsr"]
      BY <2>2, <3>2, FrmView DEF Bits, FrmBase
    <3>5. b - FrmBase \in m
      BY <2>4, <3>1, <3>2, <3>3, <3>4 DEF Within, Differ
    <3>6. m \cap FrmMask \in SUBSET Bits
      OBVIOUS
    <3> QED BY <3>2, <3>5, <3>6, ShiftUp
  <2> QED BY <2>1, <2>5
<1>4. CASE r = "fflags"
  BY <1>4 DEF Holder, FloatCsrs, Named, Replaced, View, Within, Differ, Merge
<1>5. CASE r = "fcsr"
  <2>1. csr["fcsr"] \subseteq FcsrMask
    BY DEF TypeOK, LegalFields
  <2> QED BY <1>5, <2>1
          DEF Holder, FloatCsrs, Named, Replaced, View, Within, Differ, Merge
<1>6. CASE r \in {"satp", "mhartid"}
  <2>1. Holder(r) = r /\ Named(r, m) = m /\ View(r) = csr[r]
    BY <1>6 DEF Holder, FloatCsrs, Named, View
  <2>2. Replaced(r, w) = w \/ Replaced(r, w) = csr[r]
    BY <1>6 DEF Replaced
  <2> QED BY <2>1, <2>2 DEF Within, Differ
<1>7. CASE r \in {"sie", "sscratch", "mie", "mideleg", "medeleg", "mscratch"}
  BY <1>7 DEF Holder, FloatCsrs, Named, Replaced, View, Within, Differ
<1> QED BY <1>1, <1>2, <1>3, <1>4, <1>5, <1>6, <1>7, Names

\* The same of the pending bits
LEMMA PendingDiffers ==
    ASSUME NEW r \in {"mip", "sip"}, NEW m, NEW w, Within(w, View(r), m)
    PROVE  Differ(NewPending(r, w), irq_pending) \subseteq m
<1>1. CASE r = "mip"
  BY <1>1 DEF NewPending, View, Within, Differ, Merge
<1>2. CASE r = "sip"
  BY <1>2 DEF NewPending, View, Within, Differ, Merge
<1> QED BY <1>1, <1>2

\* A register that is saved and written back through the same name is what it was, and
\* so are the registers it is a view of, in every state and for every name.
THEOREM SavedValuesRestore == Spec => []SavedRestores
<1>1. TypeOK => SavedRestores
  <2> SUFFICES ASSUME TypeOK, NEW r \in Indices \ {"none"}
               PROVE  IF r \in {"mip", "sip"} THEN NewPending(r, View(r)) = irq_pending
                      ELSE Replaced(r, View(r)) = csr[Holder(r)]
    BY DEF SavedRestores
  <2>1. View(r) \in SUBSET Bits /\ Within(View(r), View(r), {})
    BY ViewIsBits DEF Within, Differ
  <2>2. CASE r \in {"mip", "sip"}
    BY <2>1, <2>2, PendingDiffers DEF Differ
  <2>3. CASE r \notin {"mip", "sip"}
    <3>1. Differ(Replaced(r, View(r)), csr[Holder(r)]) \subseteq Named(r, {})
      BY <2>1, <2>3, ReplacedDiffers
    <3>2. Named(r, {}) = {}
      BY DEF Named, Shift
    <3> QED BY <2>3, <3>1, <3>2 DEF Differ
  <2> QED BY <2>2, <2>3
<1> QED BY TypeCorrect, <1>1, PTL

\* To set or clear bits leaves every other bit alone, also those that another name of
\* the register shows, and returns what was there before.
THEOREM OthersBitsAreKept == Spec => OnlyNamedBits
<1>1. ASSUME Typed, Next, Executes, outcome' = "done",
             at.insn.op \in {"set", "clear"},
             at.insn.csr = "mstatus" => Operand(at.insn) \cap {2, 4} = {},
             at.rdata = View(at.insn.csr)
      PROVE  /\ \A q \in Stored : Differ(csr'[q], csr[q]) \subseteq
                   IF q = Holder(at.insn.csr) THEN Named(at.insn.csr, Operand(at.insn)) ELSE {}
             /\ Differ(irq_pending', irq_pending) \subseteq
                   IF at.insn.csr \in {"mip", "sip"} THEN Operand(at.insn) ELSE {}
             /\ rd' = IF at.insn.rdIsZero THEN rd ELSE View(at.insn.csr)
  <2> DEFINE r == at.insn.csr
             m == Operand(at.insn)
             w == NewValue(at.insn, at.rdata)
  <2>1. Finish
    BY <1>1, ExecutesInStep DEF RefuseWrite, Illegal
  <2>2. r \in Indices /\ m \in SUBSET Bits /\ w \in SUBSET Bits
    BY <1>1, Pending DEF Typed, Executes
  <2>3. r # "none"
    BY <1>1 DEF Typed, Began, Executes, DoRead, Accessible
  <2>4. Within(w, View(r), m)
    BY <1>1, SetOrClear
  <2>5. rd' = IF at.insn.rdIsZero THEN rd ELSE View(r)
    BY <1>1, <2>1 DEF Finish
  <2> HIDE DEF r, m, w
  <2>6. \/ /\ \A q \in Stored : Differ(csr'[q], csr[q]) = {}
           /\ Differ(irq_pending', irq_pending) = {}
        \/ WriteCsr(r, w)
    <3>1. UNCHANGED <<csr, irq_pending>> \/ WriteCsr(r, w)
      BY <2>1 DEF Finish, r, w
    <3> QED BY <3>1 DEF Differ
  <2>7. ASSUME WriteCsr(r, w), r \in {"mip", "sip"}
        PROVE  /\ \A q \in Stored : Differ(csr'[q], csr[q]) = {}
               /\ Differ(irq_pending', irq_pending) \subseteq m
    <3>1. csr' = csr /\ irq_pending' = NewPending(r, w)
      BY <2>7 DEF WriteCsr
    <3> QED BY <2>4, <2>7, <3>1, PendingDiffers DEF Differ
  <2>8. ASSUME WriteCsr(r, w), r \notin {"mip", "sip"}
        PROVE  /\ \A q \in Stored : Differ(csr'[q], csr[q]) \subseteq
                     IF q = Holder(r) THEN Named(r, m) ELSE {}
               /\ Differ(irq_pending', irq_pending) = {}
    <3>1. /\ csr' = [csr EXCEPT ![Holder(r)] = Replaced(r, w)]
          /\ irq_pending' = irq_pending
      BY <2>8 DEF WriteCsr
    <3>2. r = "mstatus" => m \cap {2, 4} = {}
      BY <1>1 DEF r, m
    <3>3. Differ(Replaced(r, w), csr[Holder(r)]) \subseteq Named(r, m)
      BY <1>1, <2>2, <2>3, <2>4, <2>8, <3>2, ReplacedDiffers DEF Typed
    <3>4. csr \in [Stored -> SUBSET Bits]
      BY <1>1 DEF Typed, TypeOK
    <3>5. \A q \in Stored : csr'[q] = IF q = Holder(r) THEN Replaced(r, w) ELSE csr[q]
      BY <3>1, <3>4
    <3> QED BY <3>1, <3>3, <3>5 DEF Differ
  <2> QED BY <2>5, <2>6, <2>7, <2>8 DEF r, m
<1>2. Typed /\ [Next]_vars =>
        [LET i == at.insn
             r == i.csr
         IN  /\ Executes /\ outcome' = "done" /\ i.op \in {"set", "clear"}
             /\ r = "mstatus" => Operand(i) \cap {2, 4} = {}
             /\ at.rdata = View(r)
             => /\ \A q \in Stored : Differ(csr'[q], csr[q]) \subseteq
                      IF q = Holder(r) THEN Named(r, Operand(i)) ELSE {}
                /\ Differ(irq_pending', irq_pending) \subseteq
                      IF r \in {"mip", "sip"} THEN Operand(i) ELSE {}
                /\ rd' = IF i.rdIsZero THEN rd ELSE View(r)]_vars
  BY <1>1
<1> QED BY TypedInit, TypedStep, <1>2, PTL DEF Spec, OnlyNamedBits
=============================================================================
