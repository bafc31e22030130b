----------------------------- MODULE PlicProofs -----------------------------
(***************************************************************************)
(* Proofs about Plic for any number of harts, devices and sources.         *)
(***************************************************************************)
EXTENDS Plic, TLAPS

-----------------------------------------------------------------------------
(* Contexts and lines.                                                     *)

\* Context 2h is hart h's machine context, 2h + 1 its supervisor context.
LEMMA ContextOfHart ==
    ASSUME NEW c \in Contexts
    PROVE  /\ c \div 2 \in Harts
           /\ c = 2 * (c \div 2) \/ c = 2 * (c \div 2) + 1
           /\ Line(c) = IF c = 2 * (c \div 2) THEN "MEIP" ELSE "SEIP"
  BY PlicAssumption DEF Contexts, Harts, Line

LEMMA HartContexts ==
    ASSUME NEW h \in Harts
    PROVE  /\ 2 * h \in Contexts /\ 2 * h + 1 \in Contexts
           /\ Line(2 * h) = "MEIP" /\ Line(2 * h + 1) = "SEIP"
  BY PlicAssumption DEF Contexts, Harts, Line

-----------------------------------------------------------------------------
(* Type correctness.                                                       *)

\* Every register keeps its type; a source that does not exist never becomes
\* pending and is never served.
THEOREM TypeCorrect == Spec => []TypeOK
<1>1. Init => TypeOK
  BY PlicAssumption DEF Init, TypeOK
<1>2. TypeOK /\ [Next]_vars => TypeOK'
  <2> SUFFICES ASSUME TypeOK, [Next]_vars PROVE TypeOK'
    OBVIOUS
  <2> USE PlicAssumption DEF TypeOK
  <2>1. ASSUME NEW d \in Devices, NEW src \in UsedSources, SetPending(d, src)
        PROVE  TypeOK'
    BY <2>1 DEF SetPending, Locked, ValidSource, Actors, csr
  <2>2. ASSUME NEW h \in Harts, NEW src \in UsedSources, NEW p \in Priorities,
               WritePriority(h, src, p)
        PROVE  TypeOK'
    BY <2>2 DEF WritePriority, Locked, Actors, csr
  <2>3. ASSUME NEW h \in Harts, NEW ctx \in Contexts, NEW w \in EnableWords,
               WriteEnable(h, ctx, w)
        PROVE  TypeOK'
    BY <2>3 DEF WriteEnable, Locked, Actors, csr
  <2>4. ASSUME NEW h \in Harts, NEW ctx \in Contexts, NEW t \in Thresholds,
               WriteThreshold(h, ctx, t)
        PROVE  TypeOK'
    BY <2>4 DEF WriteThreshold, Locked, Actors, csr
  <2>5. ASSUME NEW h \in Harts, NEW ctx \in Contexts, NEW src \in Sources,
               Claim(h, ctx, src)
        PROVE  TypeOK'
    BY <2>5 DEF Claim, Locked, Actors, csr
  <2>6. ASSUME NEW h \in Harts, NEW src \in inService, Complete(h, src)
        PROVE  TypeOK'
    BY <2>6 DEF Complete, registers, csr
  <2>7. ASSUME NEW h \in Harts, NEW op \in CsrOps,
               CsrRead(h, op[1], op[2], op[3])
        PROVE  TypeOK'
    <3>1. op[1] \in CsrInsns /\ op[2] \in SUBSET CsrBits /\ op[3] \in SUBSET CsrBits
      BY <2>7
    <3>2. irq_pending[h] \in SUBSET IrqBits
      OBVIOUS
    <3>3. wdata'[h] \in SUBSET IrqBits /\ wdata' = [wdata EXCEPT ![h] = wdata'[h]]
      BY <2>7, <3>1, <3>2 DEF CsrRead, CsrInsns, IrqBits
    <3>. QED
      BY <2>7, <3>1, <3>3 DEF CsrRead, registers, Actors
  <2>8. ASSUME NEW h \in Harts, CsrLoad(h)
        PROVE  TypeOK'
    BY <2>8 DEF CsrLoad, registers, Actors
  <2>9. ASSUME NEW h \in Harts, CsrCas(h)
        PROVE  TypeOK'
    BY <2>9 DEF CsrCas, ForgetLocals, registers, Actors, IrqBits
  <2>10. ASSUME NEW h \in Harts, CsrRetry(h)
         PROVE  TypeOK'
    BY <2>10 DEF CsrRetry, registers, Actors
  <2>11. ASSUME NEW a \in Actors, DriveLine(a)
         PROVE  TypeOK'
    <3>1. cursor \in Contexts /\ cursor + 1 \in 0..(2 * N)
      BY <2>11 DEF DriveLine, Contexts
    <3>2. cursor \div 2 \in Harts /\ Line(cursor) \in IrqBits
      BY <3>1, ContextOfHart DEF IrqBits, CsrBits
    <3>3. irq_pending' \in [Harts -> SUBSET IrqBits]
      BY <2>11, <3>2 DEF DriveLine, SetBit
    <3>. QED
      BY <2>11, <3>1, <3>3 DEF DriveLine, registers, csr
  <2>12. ASSUME NEW a \in Actors, Unlock(a)
         PROVE  TypeOK'
    BY <2>12 DEF Unlock, registers, csr
  <2>13. CASE UNCHANGED vars
    BY <2>13 DEF vars, registers, csr
  <2>. QED
    BY <2>1, <2>2, <2>3, <2>4, <2>5, <2>6, <2>7, <2>8, <2>9, <2>10, <2>11,
       <2>12, <2>13 DEF Next, RegisterOp, CsrOp, Update
<1>. QED
  BY <1>1, <1>2, PTL DEF Spec

-----------------------------------------------------------------------------
(* The lines agree with the registers whenever the lock is free.           *)

\* What the scan of plic_update_harts finds is what the registers ask for.
LEMMA ScanFindsWanted ==
    ASSUME TypeOK, NumSources \notin pending, NEW c \in Contexts
    PROVE  Claimable(c) # {} <=> Wanted(c)
  <1>1. ASSUME NEW src \in pending
        PROVE  Enabled(c, src) <=> src \in enable[c]
    BY <1>1, PlicAssumption DEF TypeOK, Enabled, Sources
  <1>. QED
    BY <1>1 DEF Claimable, Wanted

\* The lock is held by exactly the thread that is updating the lines, and a
\* source without an enable bit is never pending.
LockInv ==
    /\ TypeOK
    /\ NumSources \notin pending
    /\ lock = NoActor => cursor = 0
    /\ \A a \in Actors : pc[a] = "update" <=> lock = a

\* The line of context c has been driven since the registers last changed.
Driven(c) == lock = NoActor \/ c < cursor

\* A driven line says whether its context has an interrupt.
LineInv(c) == Driven(c) => (Line(c) \in irq_pending[c \div 2] <=> Wanted(c))

\* A step leaves the registers and the word of every hart as they are.
QuietStep ==
    UNCHANGED <<registers, lock, cursor, irq_pending>>

\* Every step of the PLIC is one of five kinds.
Kinds ==
    \/ /\ lock = NoActor /\ lock' \in Actors /\ cursor' = 0    \* a register operation
       /\ UNCHANGED <<irq_pending, csr>>
    \/ \E a \in Actors : DriveLine(a)
    \/ \E a \in Actors : Unlock(a)
    \/ \E h \in Harts : CsrCas(h)
    \/ /\ QuietStep
       /\ \/ UNCHANGED mask
          \/ \E h \in Harts, op \in CsrOps : mask' = [mask EXCEPT ![h] = op[2]]

LEMMA StepKinds ==
    ASSUME LockInv, [Next]_vars
    PROVE  Kinds
  <1> USE DEF LockInv
  <1>1. ASSUME NEW a \in Actors, Locked(a)
        PROVE  lock = NoActor /\ lock' \in Actors /\ cursor' = 0
                 /\ UNCHANGED <<irq_pending, csr>>
    BY <1>1 DEF Locked
  <1>2. ASSUME NEW d \in Devices, NEW src \in UsedSources, SetPending(d, src)
        PROVE  Kinds
    BY <1>1, <1>2 DEF SetPending, Actors, Kinds
  <1>3. ASSUME NEW h \in Harts, RegisterOp(h)
        PROVE  Kinds
    <2>1. Locked(h) => Kinds
      BY <1>1 DEF Actors, Kinds
    <2>2. ASSUME NEW src \in inService, Complete(h, src) PROVE Kinds
      BY <2>2 DEF Complete, csr, Kinds, QuietStep
    <2>. QED
      BY <1>3, <2>1, <2>2 DEF RegisterOp, WritePriority, WriteEnable,
         WriteThreshold, Claim
  <1>4. ASSUME NEW h \in Harts, CsrOp(h)
        PROVE  Kinds
    <2>1. ASSUME NEW op \in CsrOps, CsrRead(h, op[1], op[2], op[3]) PROVE Kinds
      BY <2>1 DEF CsrRead, Kinds, QuietStep
    <2>2. CsrLoad(h) \/ CsrRetry(h) => Kinds
      BY DEF CsrLoad, CsrRetry, Kinds, QuietStep
    <2>3. CsrCas(h) => Kinds
      BY DEF Kinds
    <2>. QED
      BY <1>4, <2>1, <2>2, <2>3 DEF CsrOp
  <1>5. ASSUME NEW a \in Actors, Update(a) PROVE Kinds
    BY <1>5 DEF Update, Kinds
  <1>6. CASE UNCHANGED vars
    BY <1>6 DEF vars, csr, Kinds, QuietStep
  <1>. QED
    BY <1>2, <1>3, <1>4, <1>5, <1>6 DEF Next

\* The lock protects the update of the lines.
LEMMA LockInductive ==
    ASSUME LastSourceUnused
    PROVE  Spec => []LockInv
<1>1. Init => LockInv
  <2> SUFFICES ASSUME Init PROVE LockInv
    OBVIOUS
  <2>1. TypeOK
    BY PlicAssumption DEF Init, TypeOK
  <2>2. ASSUME NEW a \in Actors PROVE ~(lock = a) /\ pc[a] # "update"
    BY PlicAssumption DEF Init, Actors, Harts, NoActor
  <2>. QED
    BY <2>1, <2>2 DEF Init, LockInv
<1>2. LockInv /\ TypeOK' /\ [Next]_vars => LockInv'
  <2> SUFFICES ASSUME LockInv, TypeOK', [Next]_vars PROVE LockInv'
    OBVIOUS
  <2>0. NoActor \notin Actors
    BY PlicAssumption DEF Actors, Harts, NoActor
  <2> USE <2>0 DEF LockInv, TypeOK
  <2>1. ASSUME NEW d \in Devices, NEW src \in UsedSources, SetPending(d, src)
        PROVE  LockInv'
    BY <2>1 DEF SetPending, Locked, Actors, LastSourceUnused
  <2>2. ASSUME NEW h \in Harts, NEW src \in UsedSources, NEW p \in Priorities,
               WritePriority(h, src, p)
        PROVE  LockInv'
    BY <2>2 DEF WritePriority, Locked, Actors
  <2>3. ASSUME NEW h \in Harts, NEW ctx \in Contexts, NEW w \in EnableWords,
               WriteEnable(h, ctx, w)
        PROVE  LockInv'
    BY <2>3 DEF WriteEnable, Locked, Actors
  <2>4. ASSUME NEW h \in Harts, NEW ctx \in Contexts, NEW t \in Thresholds,
               WriteThreshold(h, ctx, t)
        PROVE  LockInv'
    BY <2>4 DEF WriteThreshold, Locked, Actors
  <2>5. ASSUME NEW h \in Harts, NEW ctx \in Contexts, NEW src \in Sources,
               Claim(h, ctx, src)
        PROVE  LockInv'
    BY <2>5 DEF Claim, Locked, Actors
  <2>6. ASSUME NEW h \in Harts, NEW src \in inService, Complete(h, src)
        PROVE  LockInv'
    BY <2>6 DEF Complete, registers
  <2>7. ASSUME NEW h \in Harts, NEW op \in CsrOps,
               CsrRead(h, op[1], op[2], op[3])
        PROVE  LockInv'
    BY <2>7 DEF CsrRead, registers, Actors
  <2>8. ASSUME NEW h \in Harts, CsrLoad(h) \/ CsrCas(h) \/ CsrRetry(h)
        PROVE  LockInv'
    BY <2>8 DEF CsrLoad, CsrCas, CsrRetry, registers, Actors
  <2>9. ASSUME NEW a \in Actors, DriveLine(a)
        PROVE  LockInv'
    BY <2>9 DEF DriveLine, registers
  <2>10. ASSUME NEW a \in Actors, Unlock(a)
         PROVE  LockInv'
    BY <2>10 DEF Unlock, registers
  <2>11. CASE UNCHANGED vars
    BY <2>11 DEF vars, registers
  <2>. QED
    BY <2>1, <2>2, <2>3, <2>4, <2>5, <2>6, <2>7, <2>8, <2>9, <2>10, <2>11
       DEF Next, RegisterOp, CsrOp, Update
<1>. QED
  BY <1>1, <1>2, TypeCorrect, PTL DEF Spec

\* Two contexts of one hart with the same line are the same context.
LEMMA SameLine ==
    ASSUME NEW c \in Contexts, NEW d \in Contexts,
           c \div 2 = d \div 2, Line(c) = Line(d)
    PROVE  c = d
<1>1. c = 2 * (c \div 2) <=> d = 2 * (d \div 2)
  BY ContextOfHart
<1>. QED
  BY <1>1, ContextOfHart

\* What fetch_or or fetch_and of one bit of one hart's word does to any bit.
LEMMA SetOneBit ==
    ASSUME NEW f \in [Harts -> SUBSET IrqBits], NEW i \in Harts, NEW j \in Harts,
           NEW bit, NEW m, NEW on \in BOOLEAN, NEW g,
           g = [f EXCEPT ![i] = SetBit(@, bit, on)]
    PROVE  m \in g[j] <=> IF i = j /\ bit = m THEN on ELSE m \in f[j]
<1>1. CASE i = j
  <2>1. g[j] = SetBit(f[j], bit, on)
    BY <1>1
  <2>. QED
    BY <1>1, <2>1 DEF SetBit
<1>2. CASE i # j
  <2>1. g[j] = f[j]
    BY <1>2
  <2>. QED
    BY <1>2, <2>1
<1>. QED
  BY <1>1, <1>2

\* One iteration of plic_update_harts drives one line and leaves the others.
LEMMA DriveOneLine ==
    ASSUME LockInv, NEW a \in Actors, DriveLine(a), NEW c \in Contexts
    PROVE  /\ Wanted(c)' <=> Wanted(c)
           /\ Line(c) \in irq_pending'[c \div 2]
                <=> IF c = cursor THEN Wanted(c) ELSE Line(c) \in irq_pending[c \div 2]
<1>1. cursor \in Contexts /\ cursor \in Nat /\ c \in Nat
  BY PlicAssumption DEF DriveLine, LockInv, TypeOK, Contexts
<1>2. c \div 2 \in Harts /\ cursor \div 2 \in Harts
  BY <1>1, ContextOfHart
<1>3. c \div 2 = cursor \div 2 /\ Line(c) = Line(cursor) <=> c = cursor
  BY <1>1, SameLine
<1>4. Claimable(cursor) # {} <=> Wanted(cursor)
  BY <1>1, ScanFindsWanted DEF LockInv
<1>5. Wanted(c)' <=> Wanted(c)
  BY DEF DriveLine, registers, Wanted
<1>6. irq_pending \in [Harts -> SUBSET IrqBits]
  BY DEF LockInv, TypeOK
<1>7. irq_pending' = [irq_pending EXCEPT ![cursor \div 2] =
                         SetBit(@, Line(cursor), Claimable(cursor) # {})]
  BY DEF DriveLine
<1>8. Line(c) \in irq_pending'[c \div 2]
        <=> IF cursor \div 2 = c \div 2 /\ Line(cursor) = Line(c)
            THEN Claimable(cursor) # {} ELSE Line(c) \in irq_pending[c \div 2]
  <2> DEFINE on == Claimable(cursor) # {}
             i == cursor \div 2
             j == c \div 2
  <2>1. on \in BOOLEAN /\ i \in Harts /\ j \in Harts
    BY <1>2
  <2>2. irq_pending' = [irq_pending EXCEPT ![i] = SetBit(@, Line(cursor), on)]
    BY <1>7
  <2> HIDE DEF on, i, j
  <2>3. Line(c) \in irq_pending'[j]
          <=> IF i = j /\ Line(cursor) = Line(c) THEN on ELSE Line(c) \in irq_pending[j]
    BY <1>6, <2>1, <2>2, SetOneBit
  <2>. QED
    BY <2>3 DEF on, i, j
<1>. QED
  BY <1>3, <1>4, <1>5, <1>8

\* No step makes a driven line wrong, if no CSR write may replace that line.
LEMMA LineStep ==
    ASSUME LockInv, LockInv', [Next]_vars, NEW c \in Contexts, LineInv(c),
           \A h \in Harts : Line(c) \notin mask[h]
    PROVE  LineInv(c)'
<1>0. c \in Nat /\ c < 2 * N /\ NoActor \notin Actors /\ c \div 2 \in Harts
  BY PlicAssumption, ContextOfHart DEF Contexts, Actors, Harts, NoActor
<1>1. CASE lock' \in Actors /\ cursor' = 0
  <2>1. ~Driven(c)'
    BY <1>0, <1>1 DEF Driven
  <2>. QED
    BY <2>1 DEF LineInv
<1>2. ASSUME NEW a \in Actors, DriveLine(a)
      PROVE  LineInv(c)'
  <2>1. lock # NoActor /\ lock' = lock /\ cursor' = cursor + 1 /\ cursor \in Nat
    BY <1>0, <1>2 DEF DriveLine, LockInv, TypeOK
  <2>2. Driven(c)' => c = cursor \/ Driven(c)
    BY <1>0, <2>1 DEF Driven
  <2>. QED
    BY <1>2, <2>2, DriveOneLine DEF LineInv
<1>3. ASSUME NEW a \in Actors, Unlock(a)
      PROVE  LineInv(c)'
  <2>1. Driven(c)
    BY <1>0, <1>3 DEF Unlock, Driven
  <2>2. Wanted(c)' <=> Wanted(c)
    BY <1>3 DEF Unlock, registers, Wanted
  <2>. QED
    BY <1>3, <2>1, <2>2 DEF Unlock, LineInv
<1>4. ASSUME NEW h \in Harts, CsrCas(h)
      PROVE  LineInv(c)'
  <2>1. Line(c) \in irq_pending'[c \div 2] <=> Line(c) \in irq_pending[c \div 2]
    BY <1>0, <1>4 DEF CsrCas, LockInv, TypeOK
  <2>2. (Wanted(c)' <=> Wanted(c)) /\ (Driven(c)' <=> Driven(c))
    BY <1>4 DEF CsrCas, registers, Wanted, Driven
  <2>. QED
    BY <2>1, <2>2 DEF LineInv
<1>5. CASE QuietStep
  BY <1>5 DEF QuietStep, registers, LineInv, Driven, Wanted
<1>. QED
  BY <1>1, <1>2, <1>3, <1>4, <1>5, StepKinds DEF Kinds

\* The bits a mip or sip write in progress replaces are among those that the
\* guest's writes replace.
MaskInv == \A h \in Harts : mask[h] = {} \/ \E op \in CsrOps : mask[h] = op[2]

LEMMA MaskStep ==
    ASSUME LockInv, [Next]_vars, MaskInv
    PROVE  MaskInv'
<1>1. CASE UNCHANGED mask
  BY <1>1 DEF MaskInv
<1>0. mask \in [Harts -> SUBSET CsrBits]
  BY DEF LockInv, TypeOK
<1>2. ASSUME NEW h \in Harts, CsrCas(h) PROVE MaskInv'
  <2>1. mask' = [mask EXCEPT ![h] = {}]
    BY <1>2 DEF CsrCas, ForgetLocals
  <2>. QED
    BY <1>0, <2>1 DEF MaskInv
<1>3. ASSUME NEW h \in Harts, NEW op \in CsrOps, mask' = [mask EXCEPT ![h] = op[2]]
      PROVE  MaskInv'
  BY <1>0, <1>3 DEF MaskInv
<1>. QED
  BY <1>1, <1>2, <1>3, StepKinds DEF Kinds, csr, DriveLine, Unlock

\* Nothing is pending and no line is driven at the start.
LEMMA InitQuiet ==
    ASSUME Init
    PROVE  MaskInv /\ \A c \in Contexts : LineInv(c)
<1>1. MaskInv
  BY DEF Init, MaskInv
<1>2. ASSUME NEW c \in Contexts PROVE LineInv(c)
  <2>1. irq_pending[c \div 2] = {}
    BY ContextOfHart DEF Init
  <2>2. ~Wanted(c)
    BY DEF Init, Wanted
  <2>. QED
    BY <2>1, <2>2 DEF LineInv
<1>. QED
  BY <1>1, <1>2

\* MEIP is the PLIC's: whatever mip and sip writes do, it agrees with the
\* registers whenever no update is in progress.
THEOREM MeipIsPlics ==
    ASSUME LastSourceUnused
    PROVE  Spec => []MeipMatchesPlic
<1> DEFINE Inv == MaskInv /\ \A h \in Harts : LineInv(2 * h)
<1>1. Init => Inv
  BY HartContexts, InitQuiet
<1>2. Inv /\ LockInv /\ LockInv' /\ [Next]_vars => Inv'
  <2> SUFFICES ASSUME Inv, LockInv, LockInv', [Next]_vars PROVE Inv'
    OBVIOUS
  <2>1. \A h \in Harts : "MEIP" \notin mask[h]
    <3>1. mask \in [Harts -> SUBSET CsrBits]
      BY DEF LockInv, TypeOK
    <3>2. "MEIP" \notin CsrBits
      BY DEF CsrBits
    <3>. QED
      BY ONLY <3>1, <3>2
  <2>2. ASSUME NEW h \in Harts PROVE LineInv(2 * h)'
    BY <2>1, HartContexts, LineStep
  <2>. QED
    BY <2>2, MaskStep
<1>3. Inv => MeipMatchesPlic
  <2> SUFFICES ASSUME Inv, lock = NoActor, NEW h \in Harts
               PROVE  "MEIP" \in irq_pending[h] <=> Wanted(2 * h)
    BY DEF MeipMatchesPlic
  <2>1. (2 * h) \div 2 = h
    BY PlicAssumption DEF Harts
  <2>. QED
    BY <2>1, HartContexts DEF LineInv, Driven
<1>. QED
  BY <1>1, <1>2, <1>3, LockInductive, PTL DEF Spec

\* SEIP is the PLIC's as long as no mip or sip write replaces it.
THEOREM SeipIsPlics ==
    ASSUME LastSourceUnused, NoCsrWriteOfSeip
    PROVE  Spec => []SeipMatchesPlic
<1> DEFINE Inv == MaskInv /\ \A h \in Harts : LineInv(2 * h + 1)
<1>1. Init => Inv
  BY HartContexts, InitQuiet
<1>2. Inv /\ LockInv /\ LockInv' /\ [Next]_vars => Inv'
  <2> SUFFICES ASSUME Inv, LockInv, LockInv', [Next]_vars PROVE Inv'
    OBVIOUS
  <2>1. \A h \in Harts : "SEIP" \notin mask[h]
    BY DEF MaskInv, NoCsrWriteOfSeip
  <2>2. ASSUME NEW h \in Harts PROVE LineInv(2 * h + 1)'
    BY <2>1, HartContexts, LineStep
  <2>. QED
    BY <2>2, MaskStep
<1>3. Inv => SeipMatchesPlic
  <2> SUFFICES ASSUME Inv, lock = NoActor, NEW h \in Harts
               PROVE  "SEIP" \in irq_pending[h] <=> Wanted(2 * h + 1)
    BY DEF SeipMatchesPlic
  <2>1. (2 * h + 1) \div 2 = h
    BY PlicAssumption DEF Harts
  <2>. QED
    BY <2>1, HartContexts DEF LineInv, Driven
<1>. QED
  BY <1>1, <1>2, <1>3, LockInductive, PTL DEF Spec
-----------------------------------------------------------------------------
(* The lines as the harts see them.                                        *)

\* Each line is right once it has been driven, and no write in progress replaces one.
LinesInv ==
    /\ LockInv
    /\ MaskInv
    /\ \A c \in Contexts : LineInv(c)

\* A hart's exchange of its word leaves all lines as they are.
LEMMA CasKeepsLines ==
    ASSUME NoCsrWriteOfSeip, LinesInv, NEW h \in Harts, CsrCas(h), NEW c \in Contexts
    PROVE  Line(c) \in irq_pending'[c \div 2] <=> Line(c) \in irq_pending[c \div 2]
<1>1. c \div 2 \in Harts /\ Line(c) \in {"MEIP", "SEIP"}
  BY ContextOfHart
<1>2. mask[h] \in SUBSET CsrBits /\ "SEIP" \notin mask[h] /\ "MEIP" \notin CsrBits
  BY DEF LinesInv, LockInv, TypeOK, MaskInv, NoCsrWriteOfSeip, CsrBits
<1>3. Line(c) \notin mask[h]
  BY <1>1, <1>2
<1>. QED
  BY <1>1, <1>3 DEF CsrCas, LinesInv, LockInv, TypeOK

\* Each step is a step of the lines, or changes nothing that a hart sees of them.
LEMMA StepMovesLines ==
    ASSUME NoCsrWriteOfSeip, LinesInv, [Next]_vars
    PROVE  [Wires!LinesNext]_(Wires!lineVars)
<1> DEFINE Asked == {ctx \in Contexts : Wanted(ctx)}
           High == {ctx \in Contexts : Line(ctx) \in irq_pending[ctx \div 2]}
<1>0. NoActor \notin Actors
  BY PlicAssumption DEF Actors, Harts, NoActor
<1>1. CASE /\ lock = NoActor /\ lock' \in Actors
           /\ UNCHANGED irq_pending
  <2>1. Wires!Change
    BY <1>0, <1>1 DEF Wires!Change
  <2>. QED
    BY <2>1 DEF Wires!LinesNext
<1>2. ASSUME NEW a \in Actors, DriveLine(a)
      PROVE  Wires!LinesNext
  <2>1. cursor \in Contexts
    BY <1>2, PlicAssumption DEF DriveLine, LinesInv, LockInv, TypeOK, Contexts
  <2>2. lock = a /\ lock' = lock
    BY <1>2 DEF DriveLine, LinesInv, LockInv
  <2>3. \A c \in Contexts :
          /\ Wanted(c)' <=> Wanted(c)
          /\ Line(c) \in irq_pending'[c \div 2]
               <=> IF c = cursor THEN Wanted(c) ELSE Line(c) \in irq_pending[c \div 2]
    BY <1>2, DriveOneLine DEF LinesInv
  <2>4. Asked' = Asked
    BY <2>3
  <2>5. PICK l \in Contexts : l = cursor
    BY <2>1
  <2>6. High' = IF l \in Asked THEN High \cup {l} ELSE High \ {l}
    BY <2>3, <2>5
  <2>7. Wires!Follow(l)
    BY <1>0, <2>2, <2>4, <2>6 DEF Wires!Follow
  <2>. QED
    BY <2>7 DEF Wires!LinesNext
<1>3. ASSUME NEW a \in Actors, Unlock(a)
      PROVE  Wires!LinesNext
  <2>1. lock = a /\ lock' = NoActor /\ UNCHANGED <<registers, irq_pending>>
    BY <1>3 DEF Unlock, LinesInv, LockInv
  <2>2. ASSUME NEW c \in Contexts PROVE Driven(c)
    BY <1>3, <2>2, PlicAssumption DEF Unlock, Driven, Contexts
  <2>3. High = Asked
    BY <2>2 DEF LinesInv, LineInv
  <2>4. Asked' = Asked /\ High' = High
    BY <2>1 DEF registers, Wanted
  <2>5. Wires!Settle
    BY <1>0, <2>1, <2>3, <2>4 DEF Wires!Settle
  <2>. QED
    BY <2>5 DEF Wires!LinesNext
<1>4. ASSUME NEW h \in Harts, CsrCas(h)
      PROVE  UNCHANGED Wires!lineVars
  <2>1. High' = High
    BY <1>4, CasKeepsLines
  <2>2. Asked' = Asked /\ lock' = lock
    BY <1>4 DEF CsrCas, registers, Wanted
  <2>. QED
    BY <2>1, <2>2 DEF Wires!lineVars
<1>5. CASE QuietStep
  BY <1>5 DEF QuietStep, registers, Wanted, Wires!lineVars
<1>. QED
  BY <1>1, <1>2, <1>3, <1>4, <1>5, StepKinds DEF Kinds, LinesInv

\* MEIP and SEIP of all harts are wires that follow the registers, each changing only
\* to the level asked for, as far as the harts can tell: the scans, the single atomic
\* updates and the writes of other bits in between do not show.
THEOREM PlicIsWires ==
    ASSUME LastSourceUnused, NoCsrWriteOfSeip
    PROVE  Spec => LinesFollow
<1>1. Init => MaskInv /\ \A c \in Contexts : LineInv(c)
  BY InitQuiet
<1>2. LockInv /\ LockInv' /\ MaskInv /\ (\A c \in Contexts : LineInv(c)) /\ [Next]_vars
        => MaskInv' /\ (\A c \in Contexts : LineInv(c))'
  <2> SUFFICES ASSUME LockInv, LockInv', MaskInv, \A c \in Contexts : LineInv(c), [Next]_vars
               PROVE  MaskInv' /\ \A c \in Contexts : LineInv(c)'
    OBVIOUS
  <2>1. ASSUME NEW c \in Contexts, NEW h \in Harts PROVE Line(c) \notin mask[h]
    <3>1. Line(c) \in {"MEIP", "SEIP"}
      BY ContextOfHart
    <3>2. mask[h] \in SUBSET CsrBits /\ "SEIP" \notin mask[h] /\ "MEIP" \notin CsrBits
      BY DEF LockInv, TypeOK, MaskInv, NoCsrWriteOfSeip, CsrBits
    <3>. QED
      BY <3>1, <3>2
  <2>2. ASSUME NEW c \in Contexts PROVE LineInv(c)'
    BY <2>1, LineStep
  <2>. QED
    BY <2>2, MaskStep
<1>3. Init => Wires!LinesInit
  <2> SUFFICES ASSUME Init PROVE Wires!LinesInit
    OBVIOUS
  <2>1. \A c \in Contexts : irq_pending[c \div 2] = {} /\ ~Wanted(c)
    BY ContextOfHart DEF Init, Wanted
  <2>. QED
    BY <2>1 DEF Init, Wires!LinesInit
<1>4. LinesInv /\ [Next]_vars => [Wires!LinesNext]_(Wires!lineVars)
  BY StepMovesLines
<1>. QED
  BY <1>1, <1>2, <1>3, <1>4, LockInductive, PTL DEF Spec, LinesInv, LinesFollow, Wires!LinesSpec
=============================================================================
