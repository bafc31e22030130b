---------------------------- MODULE PagingProofs ----------------------------
(***************************************************************************)
(* Theorems about Paging, for every number of harts, every geometry of the *)
(* tables and of the TLB, and everything software stores in a page table.  *)
(***************************************************************************)
EXTENDS Paging, FiniteSetTheorems, TLAPS

\* A set of natural numbers has a least element: the sets of the elements below each of
\* its elements are finite, and strict inclusion among finite sets is well-founded.
LEMMA MinExists ==
    ASSUME NEW S \in SUBSET Nat, S # {}
    PROVE  \E x \in S : \A y \in S : x <= y
<1> DEFINE Below(x) == {y \in S : y < x}
           T == {Below(x) : x \in S}
<1>1. T \subseteq FiniteSubsetsOf(S)
  <2> SUFFICES ASSUME NEW x \in S PROVE Below(x) \in SUBSET S /\ IsFiniteSet(Below(x))
    BY DEF FiniteSubsetsOf
  <2>1. x \in Nat
    OBVIOUS
  <2>2. \A y \in Below(x) : y \in Nat /\ y <= x
    OBVIOUS
  <2>3. Below(x) \in SUBSET Nat
    BY <2>2
  <2>. QED
    BY <2>1, <2>2, <2>3, FS_BoundedSetOfNaturals
<1>2. T # {}
  OBVIOUS
<1>3. IsWellFoundedOn(StrictSubsetOrdering(S), FiniteSubsetsOf(S))
  BY FS_StrictSubsetOrderingWellFounded
<1>4. PICK t \in T : \A u \in T : <<u, t>> \notin StrictSubsetOrdering(S)
  <2> HIDE DEF T
  <2>. QED
    BY <1>1, <1>2, <1>3, WFMin
<1>5. PICK x \in S : t = Below(x)
  BY <1>4
<1>6. ASSUME NEW y \in S, y < x PROVE FALSE
  <2>0. x \in Nat /\ y \in Nat
    OBVIOUS
  <2>1. /\ \A z \in S : z < y => z < x
        /\ ~(y < y)
    BY <1>6, <2>0
  <2>3. y \in Below(x) /\ y \notin Below(y)
    BY <1>6, <2>1
  <2>4. Below(y) \subseteq Below(x)
    BY <2>1
  <2>2. <<Below(y), Below(x)>> \in StrictSubsetOrdering(S)
    BY <2>3, <2>4 DEF StrictSubsetOrdering
  <2>. QED
    BY <1>4, <1>5, <2>2
<1>. QED
  BY <1>6

LEMMA FirstBelongs ==
    ASSUME NEW S \in SUBSET Nat, S # {}
    PROVE  First(S) \in S
  BY MinExists DEF First

\* The columns of a row are columns of the TLB.
LEMMA RowInTlb ==
    ASSUME NEW vpn \in Vpns
    PROVE  Row(vpn) \subseteq Columns
<1> DEFINE r == vpn % NumRows
<1>1. vpn \in Nat /\ NumRows \in Nat \ {0} /\ NumColumns \in Nat \ {0}
  BY PagingAssumption
<1>2. r \in 0..(NumRows - 1)
  BY <1>1
<1> HIDE DEF r
<1>3. (NumRows - 1 - r) * NumColumns >= 0
  BY <1>1, <1>2
<1>4. (NumRows - 1 - r) * NumColumns = NumRows * NumColumns - NumColumns - r * NumColumns
  BY <1>1, <1>2
<1>5. r * NumColumns >= 0 /\ r * NumColumns \in Int /\ NumRows * NumColumns \in Int
  BY <1>1, <1>2
<1>6. ASSUME NEW col \in 0..(NumColumns - 1) PROVE r * NumColumns + col \in Columns
  BY <1>1, <1>3, <1>4, <1>5, <1>6 DEF Columns
<1>. QED
  BY <1>6 DEF Row, r
-----------------------------------------------------------------------------
(* The inductive invariant.                                                *)

Pointers == \A slot \in Slots : PointsToTable(memory[slot])

\* A walk is under way only while translation is on, and a PTE that it is about to store
\* has the bits of the access.
Walking ==
    \A h \in Harts : walk[h] # Idle =>
       /\ satp[h].on
       /\ walk[h].at = "update" => /\ SetFlags(walk[h].mode) \subseteq walk[h].pte.bits
                                  /\ IsLeaf(walk[h].pte)

PagingInv == TypeOK /\ Pointers /\ Walking /\ DisabledIsEmpty /\ AccessRecorded

\* The place of a walk is a slot of a page table.
LEMMA SlotOfWalk ==
    ASSUME NEW w \in Lookup
    PROVE  Slot(w) \in Slots
<1>1. w.vpn \in Nat /\ Span(w.level) \in Nat \ {0} /\ w.table \in Tables
  BY PagingAssumption DEF Lookup
<1> DEFINE q == w.vpn \div Span(w.level)
<1>2. q \in Nat
  BY <1>1
<1> HIDE DEF q
<1>3. q % Fanout \in 0..(Fanout - 1)
  BY <1>2, PagingAssumption
<1>. QED
  BY <1>1, <1>3 DEF Slot, Index, Slots, q

LEMMA CachedIsPte ==
    ASSUME NEW pte \in Pte, NEW vpn \in Vpns, NEW level \in Levels
    PROVE  Cached(pte, vpn, level) \in Pte /\ Cached(pte, vpn, level).bits = pte.bits
<1>1. vpn \in Nat /\ Span(level) \in Nat \ {0}
  BY PagingAssumption
<1> DEFINE m == vpn % Span(level)
<1>2. m \in Nat
  BY <1>1
<1> HIDE DEF m
<1>. QED
  BY <1>2 DEF Cached, Pte, m

\* What a lookup answers has its type and its bits.
LEMMA AnswerStep ==
    ASSUME PagingInv, NEW h \in Harts, NEW outcome \in {"ok", "fault"}, NEW vpn \in Vpns,
           NEW mode \in Modes, NEW agent \in Agents, NEW pte \in Pte,
           outcome = "ok" => SetFlags(mode) \subseteq pte.bits,
           Answer(h, outcome, vpn, mode, agent, pte)
    PROVE  result' \in [Harts -> Result \cup {NoResult}] /\ AccessRecorded'
<1> DEFINE new == [outcome |-> outcome, asid |-> satp[h].asid, vpn |-> vpn,
                   mode |-> mode, agent |-> agent, pte |-> pte]
<1>1. new \in Result
  BY DEF PagingInv, TypeOK, Result
<1>2. new.outcome = outcome /\ new.mode = mode /\ new.pte = pte
  OBVIOUS
<1> HIDE DEF new
<1>3. result' = [result EXCEPT ![h] = new]
  BY DEF Answer, new
<1>. QED
  BY <1>1, <1>2, <1>3 DEF PagingInv, TypeOK, AccessRecorded

\* Nothing is answered.
LEMMA NoAnswerStep ==
    ASSUME PagingInv, NEW h \in Harts, result' = [result EXCEPT ![h] = NoResult]
    PROVE  result' \in [Harts -> Result \cup {NoResult}] /\ AccessRecorded'
  BY DEF PagingInv, TypeOK, AccessRecorded, NoResult

LEMMA InsertStep ==
    ASSUME PagingInv, NEW h \in Harts, satp[h].on, NEW vpn \in Vpns, NEW pte \in Pte,
           Insert(h, vpn, pte), UNCHANGED satp
    PROVE  /\ entries' \in [Harts -> [Columns -> Entry]]
           /\ valid' \in [Harts -> SUBSET Columns]
           /\ next_column' \in [Harts -> 0..(CounterLimit - 1)]
           /\ overrun' \subseteq Harts
           /\ DisabledIsEmpty'
<1> DEFINE free == Row(vpn) \ valid[h]
           victim == (vpn % NumRows) * NumColumns + next_column[h]
           i == IF free # {} THEN First(free) ELSE victim
           entry == [tag |-> Tag(vpn), asid |-> satp[h].asid, pte |-> pte]
<1>1. free # {} => i \in Columns
  <2>1. free \in SUBSET Nat /\ free \subseteq Columns
    BY RowInTlb DEF Columns
  <2> HIDE DEF free
  <2>. QED
    BY <2>1, FirstBelongs
<1>2. entry \in Entry
  <2>1. Tag(vpn) \in 0..(TagLimit - 1)
    BY PagingAssumption DEF Tag
  <2>. QED
    BY <2>1 DEF PagingInv, TypeOK, Entry
<1> HIDE DEF i, entry, free, victim
<1>3. /\ IF i \in Columns
         THEN entries' = [entries EXCEPT ![h][i] = entry] /\ UNCHANGED overrun
         ELSE overrun' = overrun \cup {h} /\ UNCHANGED entries
      /\ IF free # {}
         THEN valid' = [valid EXCEPT ![h] = @ \cup {i}] /\ UNCHANGED next_column
         ELSE /\ next_column' = [next_column EXCEPT ![h] = (@ + 1) % CounterLimit]
              /\ UNCHANGED valid
  BY DEF Insert, i, entry, free, victim
<1>4. entries' \in [Harts -> [Columns -> Entry]] /\ overrun' \subseteq Harts
  <2>1. entries \in [Harts -> [Columns -> Entry]] /\ overrun \subseteq Harts
    BY DEF PagingInv, TypeOK
  <2>2. CASE i \in Columns
    <3>1. entries' = [entries EXCEPT ![h] = [entries[h] EXCEPT ![i] = entry]]
      BY <1>3, <2>2
    <3>2. [entries[h] EXCEPT ![i] = entry] \in [Columns -> Entry]
      BY <1>2, <2>1, <2>2
    <3>. QED
      BY <1>3, <2>1, <2>2, <3>1, <3>2
  <2>. QED
    BY <1>3, <2>1, <2>2
<1>5. next_column' \in [Harts -> 0..(CounterLimit - 1)]
  <2>1. next_column \in [Harts -> 0..(CounterLimit - 1)] /\ CounterLimit \in Nat \ {0}
    BY PagingAssumption DEF PagingInv, TypeOK
  <2>2. (next_column[h] + 1) % CounterLimit \in 0..(CounterLimit - 1)
    BY <2>1
  <2>. QED
    BY <1>3, <2>1, <2>2
<1>6. valid' \in [Harts -> SUBSET Columns] /\ DisabledIsEmpty'
  <2>1. valid \in [Harts -> SUBSET Columns] /\ satp' = satp /\ DisabledIsEmpty
    BY DEF PagingInv, TypeOK
  <2>2. CASE free # {}
    <3>1. valid' = [valid EXCEPT ![h] = valid[h] \cup {i}]
      BY <1>3, <2>2
    <3>2. valid[h] \cup {i} \in SUBSET Columns
      BY <1>1, <2>1, <2>2
    <3>. QED
      BY <2>1, <3>1, <3>2 DEF DisabledIsEmpty
  <2>3. CASE free = {}
    BY <1>3, <2>1, <2>3 DEF DisabledIsEmpty
  <2>. QED
    BY <2>2, <2>3
<1>. QED
  BY <1>4, <1>5, <1>6

\* A walk ends with a translation.
LEMMA FinishStep ==
    ASSUME PagingInv, NEW h \in Harts, walk[h] # Idle, NEW pte \in Pte,
           SetFlags(walk[h].mode) \subseteq pte.bits, Finish(h, pte), UNCHANGED satp
    PROVE  /\ entries' \in [Harts -> [Columns -> Entry]]
           /\ valid' \in [Harts -> SUBSET Columns]
           /\ next_column' \in [Harts -> 0..(CounterLimit - 1)]
           /\ overrun' \subseteq Harts
           /\ result' \in [Harts -> Result \cup {NoResult}]
           /\ walk' = [walk EXCEPT ![h] = Idle]
           /\ DisabledIsEmpty' /\ AccessRecorded'
<1> DEFINE leaf == Cached(pte, walk[h].vpn, walk[h].level)
<1>1. walk[h] \in Lookup /\ satp[h].on
  BY DEF PagingInv, TypeOK, Walking
<1>2. /\ walk[h].vpn \in Vpns /\ walk[h].mode \in Modes /\ walk[h].agent \in Agents
      /\ walk[h].level \in Levels
  BY <1>1 DEF Lookup
<1>3. leaf \in Pte /\ leaf.bits = pte.bits
  BY <1>2, CachedIsPte
<1> HIDE DEF leaf
<1>4. /\ Insert(h, walk[h].vpn, leaf)
      /\ Answer(h, "ok", walk[h].vpn, walk[h].mode, walk[h].agent, leaf)
      /\ walk' = [walk EXCEPT ![h] = Idle]
  BY DEF Finish, EndWalk, leaf
<1>. QED
  BY <1>1, <1>2, <1>3, <1>4, InsertStep, AnswerStep
LEMMA NotedStep ==
    ASSUME TypeOK, NoteChanges
    PROVE  dirty' \in [Harts -> SUBSET Pages]
  BY DEF TypeOK, NoteChanges

\* A PTE is stored.
LEMMA StoredStep ==
    ASSUME TypeOK, Pointers, NEW slot \in Slots, NEW pte \in Pte, PointsToTable(pte),
           memory' = [memory EXCEPT ![slot] = pte]
    PROVE  memory' \in [Slots -> Pte] /\ Pointers'
<1>1. \A s \in Slots : memory'[s] = IF s = slot THEN pte ELSE memory[s]
  BY DEF TypeOK
<1>2. memory' \in [Slots -> Pte]
  BY DEF TypeOK
<1>3. ASSUME NEW s \in Slots PROVE PointsToTable(memory'[s])
  <2>1. CASE s = slot
    <3>1. memory'[s] = pte
      BY <1>1, <2>1
    <3>. QED
      BY <3>1
  <2>2. CASE s # slot
    <3>1. memory'[s] = memory[s]
      BY <1>1, <2>2
    <3>. QED
      BY <3>1 DEF Pointers
  <2>. QED
    BY <2>1, <2>2
<1>. QED
  BY <1>2, <1>3 DEF Pointers

\* A walk goes on, or one begins.
LEMMA WalkStep ==
    ASSUME PagingInv, NEW h \in Harts, satp[h].on, NEW w \in Lookup,
           w.at = "update" => SetFlags(w.mode) \subseteq w.pte.bits /\ IsLeaf(w.pte),
           walk' = [walk EXCEPT ![h] = w], UNCHANGED satp
    PROVE  walk' \in [Harts -> Lookup \cup {Idle}] /\ Walking'
<1>1. walk' \in [Harts -> Lookup \cup {Idle}]
  BY DEF PagingInv, TypeOK
<1>2. ASSUME NEW g \in Harts, walk'[g] # Idle
      PROVE  /\ satp'[g].on
             /\ walk'[g].at = "update" => /\ SetFlags(walk'[g].mode) \subseteq walk'[g].pte.bits
                                         /\ IsLeaf(walk'[g].pte)
  <2>1. CASE g = h
    <3>1. walk'[g] = w
      BY <2>1 DEF PagingInv, TypeOK
    <3>. QED
      BY <2>1, <3>1
  <2>2. CASE g # h
    <3>1. walk'[g] = walk[g]
      BY <2>2 DEF PagingInv, TypeOK
    <3>. QED
      BY <1>2, <3>1 DEF PagingInv, Walking
  <2>. QED
    BY <2>1, <2>2
<1>. QED
  BY <1>1, <1>2 DEF Walking

\* A walk ends.
LEMMA IdleStep ==
    ASSUME PagingInv, NEW h \in Harts, walk' = [walk EXCEPT ![h] = Idle], UNCHANGED satp
    PROVE  walk' \in [Harts -> Lookup \cup {Idle}] /\ Walking'
<1>1. walk' \in [Harts -> Lookup \cup {Idle}]
  BY DEF PagingInv, TypeOK
<1>2. \A g \in Harts : walk'[g] # Idle => walk'[g] = walk[g] /\ walk[g] # Idle
  BY DEF PagingInv, TypeOK
<1>3. ASSUME NEW g \in Harts, walk'[g] # Idle
      PROVE  /\ satp'[g].on
             /\ walk'[g].at = "update" => /\ SetFlags(walk'[g].mode) \subseteq walk'[g].pte.bits
                                         /\ IsLeaf(walk'[g].pte)
  <2>1. walk'[g] = walk[g] /\ walk[g] # Idle
    BY <1>2, <1>3
  <2>. QED
    BY <2>1 DEF PagingInv, Walking
<1>. QED
  BY <1>1, <1>3 DEF Walking

\* What a walk is, and the PTE it is at.
LEMMA WalkParts ==
    ASSUME PagingInv, NEW h \in Harts, walk[h] # Idle
    PROVE  /\ walk[h] \in Lookup /\ satp[h].on
           /\ walk[h].vpn \in Vpns /\ walk[h].mode \in Modes /\ walk[h].agent \in Agents
           /\ walk[h].level \in Levels /\ walk[h].table \in Tables /\ walk[h].pte \in Pte
           /\ Slot(walk[h]) \in Slots
           /\ memory[Slot(walk[h])] \in Pte
           /\ PointsToTable(memory[Slot(walk[h])])
<1>1. walk[h] \in Lookup /\ satp[h].on
  BY DEF PagingInv, TypeOK, Walking
<1>2. Slot(walk[h]) \in Slots
  BY <1>1, SlotOfWalk
<1>. QED
  BY <1>1, <1>2 DEF Lookup, PagingInv, TypeOK, Pointers

LEMMA TlbHitStep ==
    ASSUME PagingInv, NEW h \in Harts, NEW vpn \in Vpns, NEW mode \in Modes,
           NEW agent \in Agents, TlbHit(h, vpn, mode, agent)
    PROVE  PagingInv'
<1> DEFINE hit == First(Holding(h, vpn))
<1>1. hit \in Columns
  <2>1. Holding(h, vpn) \subseteq Columns /\ Columns \subseteq Nat
    BY RowInTlb DEF Holding, Columns
  <2>. QED
    BY <2>1, FirstBelongs DEF TlbHit
<1> HIDE DEF hit
<1>2. entries[h][hit].pte \in Pte
  BY <1>1 DEF PagingInv, TypeOK, Entry
<1>3. /\ SetFlags(mode) \subseteq entries[h][hit].pte.bits
      /\ Answer(h, "ok", vpn, mode, agent, entries[h][hit].pte)
      /\ UNCHANGED <<memory, satp, tlb, walk, overrun, writes, dirty>>
  BY DEF TlbHit, hit
<1>4. result' \in [Harts -> Result \cup {NoResult}] /\ AccessRecorded'
  BY <1>2, <1>3, AnswerStep
<1>. QED
  BY <1>3, <1>4 DEF PagingInv, TypeOK, Pointers, Walking, DisabledIsEmpty, tlb

LEMMA TlbMissStep ==
    ASSUME PagingInv, NEW h \in Harts, NEW vpn \in Vpns, NEW mode \in Modes,
           NEW agent \in Agents, TlbMiss(h, vpn, mode, agent)
    PROVE  PagingInv'
<1> DEFINE w == [at |-> "read", vpn |-> vpn, mode |-> mode, agent |-> agent,
                 level |-> TopLevel, table |-> Root[satp[h].asid], pte |-> NoPte]
<1>1. w \in Lookup /\ w.at = "read"
  BY PagingAssumption DEF PagingInv, TypeOK, Lookup, Levels, NoPte, Pte
<1> HIDE DEF w
<1>2. walk' = [walk EXCEPT ![h] = w] /\ satp[h].on
      /\ result' = [result EXCEPT ![h] = NoResult]
      /\ UNCHANGED <<memory, satp, entries, next_column, overrun, writes, dirty>>
  BY DEF TlbMiss, w
<1>3. walk' \in [Harts -> Lookup \cup {Idle}] /\ Walking'
  BY <1>1, <1>2, WalkStep
<1>4. result' \in [Harts -> Result \cup {NoResult}] /\ AccessRecorded'
  BY <1>2, NoAnswerStep
<1>5. valid' \in [Harts -> SUBSET Columns] /\ \A g \in Harts : valid'[g] \subseteq valid[g]
  <2>1. PICK i : valid' = valid \/ valid' = [valid EXCEPT ![h] = valid[h] \ {i}]
    BY DEF TlbMiss
  <2>. QED
    BY <2>1 DEF PagingInv, TypeOK
<1>. QED
  BY <1>2, <1>3, <1>4, <1>5 DEF PagingInv, TypeOK, Pointers, DisabledIsEmpty
LEMMA DescendStep ==
    ASSUME PagingInv, NEW h \in Harts, Descend(h)
    PROVE  PagingInv'
<1> DEFINE w == [walk[h] EXCEPT !.level = @ - 1, !.table = memory[Slot(walk[h])].ppn]
<1>1. walk[h] # Idle /\ walk[h].at = "read" /\ walk[h].level > 0
      /\ IsPointer(memory[Slot(walk[h])])
      /\ UNCHANGED <<memory, satp, tlb, result, overrun, writes, dirty>>
  BY DEF Descend, Reading
<1>2. w \in Lookup /\ w.at = "read"
  <2>1. memory[Slot(walk[h])].ppn \in Tables /\ walk[h] \in Lookup
    BY <1>1, WalkParts DEF PointsToTable
  <2>2. walk[h].level - 1 \in Levels
    BY <1>1, <2>1, PagingAssumption DEF Lookup, Levels
  <2>. QED
    BY <1>1, <2>1, <2>2 DEF Lookup
<1>3. walk' = [walk EXCEPT ![h] = w]
  BY DEF Descend, PagingInv, TypeOK
<1> HIDE DEF w
<1>4. walk' \in [Harts -> Lookup \cup {Idle}] /\ Walking'
  BY <1>1, <1>2, <1>3, WalkStep, WalkParts
<1>. QED
  BY <1>1, <1>4 DEF PagingInv, TypeOK, Pointers, DisabledIsEmpty, AccessRecorded, tlb

LEMMA FaultStep ==
    ASSUME PagingInv, NEW h \in Harts, PageFault(h) \/ AccessFault(h)
    PROVE  PagingInv'
<1>1. /\ walk[h] # Idle
      /\ EndWalk(h, "fault", NoPte)
      /\ UNCHANGED <<memory, satp, tlb, overrun, writes, dirty>>
  BY DEF PageFault, AccessFault, Reading
<1>2. NoPte \in Pte
  BY DEF NoPte, Pte
<1>3. result' \in [Harts -> Result \cup {NoResult}] /\ AccessRecorded'
  BY <1>1, <1>2, AnswerStep, WalkParts DEF EndWalk
<1>4. walk' \in [Harts -> Lookup \cup {Idle}] /\ Walking'
  BY <1>1, IdleStep DEF EndWalk
<1>. QED
  BY <1>1, <1>3, <1>4 DEF PagingInv, TypeOK, Pointers, DisabledIsEmpty, tlb

LEMMA ReadLeafStep ==
    ASSUME PagingInv, NEW h \in Harts, ReadLeaf(h)
    PROVE  PagingInv'
<1>1. /\ walk[h] # Idle
      /\ SetFlags(walk[h].mode) \subseteq memory[Slot(walk[h])].bits
      /\ Finish(h, memory[Slot(walk[h])])
      /\ UNCHANGED <<memory, satp, writes, dirty>>
  BY DEF ReadLeaf, Reading
<1>2. /\ entries' \in [Harts -> [Columns -> Entry]]
      /\ valid' \in [Harts -> SUBSET Columns]
      /\ next_column' \in [Harts -> 0..(CounterLimit - 1)]
      /\ overrun' \subseteq Harts
      /\ result' \in [Harts -> Result \cup {NoResult}]
      /\ walk' = [walk EXCEPT ![h] = Idle]
      /\ DisabledIsEmpty' /\ AccessRecorded'
  BY <1>1, FinishStep, WalkParts
<1>3. walk' \in [Harts -> Lookup \cup {Idle}] /\ Walking'
  BY <1>1, <1>2, IdleStep
<1>. QED
  BY <1>1, <1>2, <1>3 DEF PagingInv, TypeOK, Pointers

LEMMA ReadLeafToUpdateStep ==
    ASSUME PagingInv, NEW h \in Harts, ReadLeafToUpdate(h)
    PROVE  PagingInv'
<1> DEFINE read == memory[Slot(walk[h])]
           pte == [read EXCEPT !.bits = @ \cup SetFlags(walk[h].mode)]
           w == [walk[h] EXCEPT !.at = "update", !.pte = pte]
<1>1. /\ walk[h] # Idle /\ Granted(h)
      /\ UNCHANGED <<memory, satp, tlb, result, overrun, writes, dirty>>
  BY DEF ReadLeafToUpdate, Reading
<1>2. walk' = [walk EXCEPT ![h] = w]
  BY DEF ReadLeafToUpdate, PagingInv, TypeOK
<1>3. walk[h] \in Lookup /\ read \in Pte /\ IsLeaf(read)
  BY <1>1, WalkParts DEF Granted
<1>4. pte \in Pte /\ pte.bits = read.bits \cup SetFlags(walk[h].mode) /\ pte.v = read.v
  BY <1>3 DEF Pte, SetFlags
<1>5. IsLeaf(pte)
  BY <1>3, <1>4 DEF IsLeaf
<1> HIDE DEF pte, read
<1>6. w \in Lookup /\ w.pte = pte /\ w.mode = walk[h].mode
  BY <1>3, <1>4 DEF Lookup
<1>7. SetFlags(w.mode) \subseteq w.pte.bits /\ IsLeaf(w.pte)
  BY <1>4, <1>5, <1>6
<1> HIDE DEF w
<1>8. walk' \in [Harts -> Lookup \cup {Idle}] /\ Walking'
  BY <1>1, <1>2, <1>6, <1>7, WalkStep, WalkParts
<1>. QED
  BY <1>1, <1>8 DEF PagingInv, TypeOK, Pointers, DisabledIsEmpty, AccessRecorded, tlb

LEMMA UpdatePteStep ==
    ASSUME PagingInv, NEW h \in Harts, UpdatePte(h)
    PROVE  PagingInv'
<1>1. /\ walk[h] # Idle
      /\ SetFlags(walk[h].mode) \subseteq walk[h].pte.bits /\ PointsToTable(walk[h].pte)
      /\ memory' = [memory EXCEPT ![Slot(walk[h])] = walk[h].pte]
      /\ Finish(h, walk[h].pte) /\ NoteChanges
      /\ UNCHANGED <<satp, writes>>
  BY DEF UpdatePte, PagingInv, Walking, PointsToTable, IsPointer
<1>2. /\ entries' \in [Harts -> [Columns -> Entry]]
      /\ valid' \in [Harts -> SUBSET Columns]
      /\ next_column' \in [Harts -> 0..(CounterLimit - 1)]
      /\ overrun' \subseteq Harts
      /\ result' \in [Harts -> Result \cup {NoResult}]
      /\ walk' = [walk EXCEPT ![h] = Idle]
      /\ DisabledIsEmpty' /\ AccessRecorded'
  BY <1>1, FinishStep, WalkParts
<1>3. walk' \in [Harts -> Lookup \cup {Idle}] /\ Walking'
  BY <1>1, <1>2, IdleStep
<1>4. memory' \in [Slots -> Pte] /\ Pointers'
  BY <1>1, WalkParts, StoredStep DEF PagingInv
<1>5. dirty' \in [Harts -> SUBSET Pages]
  BY <1>1, NotedStep DEF PagingInv
<1>. QED
  BY <1>1, <1>2, <1>3, <1>4, <1>5 DEF PagingInv, TypeOK

LEMMA SfenceStep ==
    ASSUME PagingInv, NEW h \in Harts, NEW vpn \in Vpns \cup {X0}, NEW asid \in Asids \cup {X0},
           Sfence(h, vpn, asid)
    PROVE  PagingInv'
<1>1. result' \in [Harts -> Result \cup {NoResult}] /\ AccessRecorded'
  BY NoAnswerStep DEF Sfence
<1>2. valid' \in [Harts -> SUBSET Columns] /\ \A g \in Harts : valid'[g] \subseteq valid[g]
  <2> DEFINE gone == Fenced(h, vpn, asid)
  <2>1. valid' = valid \/ valid' = [valid EXCEPT ![h] = @ \ gone]
    BY DEF Sfence
  <2> HIDE DEF gone
  <2>. QED
    BY <2>1 DEF PagingInv, TypeOK
<1>3. dirty' \in [Harts -> SUBSET Pages]
  BY DEF Sfence, PagingInv, TypeOK
<1>. QED
  BY <1>1, <1>2, <1>3 DEF Sfence, PagingInv, TypeOK, Pointers, Walking, DisabledIsEmpty

LEMMA WriteSatpStep ==
    ASSUME PagingInv, NEW h \in Harts, NEW on \in BOOLEAN, NEW asid \in Asids,
           WriteSatp(h, on, asid)
    PROVE  PagingInv'
<1>1. result' \in [Harts -> Result \cup {NoResult}] /\ AccessRecorded'
  BY NoAnswerStep DEF WriteSatp
<1>2. walk[h] = Idle /\ walk' = walk
  BY DEF WriteSatp, Ready
<1>3. satp' \in [Harts -> [on : BOOLEAN, asid : Asids]]
      /\ satp'[h].on = on
      /\ \A g \in Harts : g # h => satp'[g] = satp[g]
  BY DEF WriteSatp, PagingInv, TypeOK
<1>4. valid' \in [Harts -> SUBSET Columns]
      /\ (~on => valid'[h] = {})
      /\ \A g \in Harts : g # h => valid'[g] = valid[g]
  BY DEF WriteSatp, PagingInv, TypeOK
<1>5. Walking' /\ DisabledIsEmpty'
  BY <1>2, <1>3, <1>4 DEF PagingInv, Walking, DisabledIsEmpty
<1>. QED
  BY <1>1, <1>3, <1>4, <1>5 DEF WriteSatp, PagingInv, TypeOK, Pointers

LEMMA WritePteStep ==
    ASSUME PagingInv, NEW h \in Harts, NEW write \in PteWrites,
           WritePte(h, write[1], write[2])
    PROVE  PagingInv'
<1>1. write[1] \in Slots /\ write[2] \in Pte /\ PointsToTable(write[2])
  BY PagingAssumption
<1>2. memory' \in [Slots -> Pte] /\ Pointers'
  BY <1>1, StoredStep DEF WritePte, PagingInv
<1>3. result' \in [Harts -> Result \cup {NoResult}] /\ AccessRecorded'
  BY NoAnswerStep DEF WritePte
<1>4. dirty' \in [Harts -> SUBSET Pages] /\ writes' \in 0..MaxWrites
  BY NotedStep, PagingAssumption DEF WritePte, PagingInv, TypeOK
<1>. QED
  BY <1>2, <1>3, <1>4 DEF WritePte, PagingInv, TypeOK, Walking, DisabledIsEmpty, tlb
LEMMA PagingStarts ==
    ASSUME Init
    PROVE  PagingInv
<1>1. NoEntry \in Entry /\ NoEntry.asid \in Asids
  BY PagingAssumption DEF NoEntry, Entry, NoPte, Pte
<1>2. satp \in [Harts -> [on : BOOLEAN, asid : Asids]]
  BY <1>1 DEF Init
<1>3. memory \in [Slots -> Pte] /\ Pointers
  BY PagingAssumption DEF Init, Pointers
<1>4. /\ entries \in [Harts -> [Columns -> Entry]]
      /\ valid \in [Harts -> SUBSET Columns]
      /\ next_column \in [Harts -> 0..(CounterLimit - 1)]
      /\ walk \in [Harts -> Lookup \cup {Idle}]
      /\ result \in [Harts -> Result \cup {NoResult}]
      /\ dirty \in [Harts -> SUBSET Pages]
      /\ writes \in 0..MaxWrites
  BY <1>1, PagingAssumption DEF Init
<1>. QED
  BY <1>2, <1>3, <1>4 DEF Init, PagingInv, TypeOK, Walking, DisabledIsEmpty, AccessRecorded

LEMMA PagingInvStep ==
    ASSUME PagingInv, [Next]_vars
    PROVE  PagingInv'
<1>1. CASE UNCHANGED vars
  BY <1>1 DEF vars, tlb, PagingInv, TypeOK, Pointers, Walking, DisabledIsEmpty, AccessRecorded
<1>2. ASSUME NEW h \in Harts, Lookups(h) PROVE PagingInv'
  <2>1. ASSUME NEW vpn \in Vpns, NEW acc \in Accesses,
               TlbHit(h, vpn, acc[1], acc[2]) \/ TlbMiss(h, vpn, acc[1], acc[2])
        PROVE  PagingInv'
    <3>1. acc[1] \in Modes /\ acc[2] \in Agents
      BY PagingAssumption
    <3>. QED
      BY <2>1, <3>1, TlbHitStep, TlbMissStep
  <2>. QED
    BY <1>2, <2>1, DescendStep, FaultStep, ReadLeafStep, ReadLeafToUpdateStep, UpdatePteStep
       DEF Lookups
<1>3. ASSUME NEW h \in Harts, Software(h) PROVE PagingInv'
  BY <1>3, SfenceStep, WriteSatpStep, WritePteStep DEF Software
<1>. QED
  BY <1>1, <1>2, <1>3 DEF Next

LEMMA PagingInductive == Spec => []PagingInv
  BY PagingStarts, PagingInvStep, PTL DEF Spec

-----------------------------------------------------------------------------
(* The theorems.                                                           *)

\* Every variable keeps its type: among others, a walk stays inside the page tables and an
\* entry that rv_paging_lookup inserts in a free column is inside the TLB.
THEOREM TypeCorrect == Spec => []TypeOK
<1>1. PagingInv => TypeOK
  BY DEF PagingInv
<1>. QED
  BY <1>1, PagingInductive, PTL

\* A lookup never succeeds without the A bit, nor one for a store without the D bit,
\* whatever other harts store in the page tables between its read and its write-back.
THEOREM AccessesRecorded == Spec => []AccessRecorded
<1>1. PagingInv => AccessRecorded
  BY DEF PagingInv
<1>. QED
  BY <1>1, PagingInductive, PTL

\* While translation is off the TLB is empty, as rv_inval_tlb takes for granted: a walk
\* that inserts an entry began with translation on, and satp is not written meanwhile.
THEOREM EmptyWhileDisabled == Spec => []DisabledIsEmpty
<1>1. PagingInv => DisabledIsEmpty
  BY DEF PagingInv
<1>. QED
  BY <1>1, PagingInductive, PTL

-----------------------------------------------------------------------------
(* The equations of Path.                                                  *)

\* Induction down the levels.
LEMMA LevelInduction ==
    ASSUME NEW S \in SUBSET Levels, TopLevel \in S,
           \A level \in Levels : level < TopLevel /\ level + 1 \in S => level \in S
    PROVE  S = Levels
<1>0. TopLevel \in Nat
  BY PagingAssumption
<1> DEFINE bad == {n \in 0..TopLevel : TopLevel - n \notin S}
<1>1. SUFFICES ASSUME bad # {} PROVE FALSE
  <2>1. ASSUME NEW level \in Levels, bad = {} PROVE level \in S
    <3>1. TopLevel - level \in 0..TopLevel /\ TopLevel - (TopLevel - level) = level
      BY <1>0 DEF Levels
    <3>. QED
      BY <2>1, <3>1
  <2>. QED
    BY <2>1
<1>2. PICK n \in bad : \A m \in bad : n <= m
  <2>1. bad \in SUBSET Nat
    BY <1>0
  <2> HIDE DEF bad
  <2>. QED
    BY <1>1, <2>1, MinExists
<1>3. n # 0
  BY <1>0, <1>2
<1>4. n - 1 \in 0..TopLevel /\ n - 1 \notin bad
  BY <1>0, <1>2, <1>3
<1>5. TopLevel - n \in Levels /\ TopLevel - n < TopLevel /\ (TopLevel - n) + 1 \in S
  <2>1. TopLevel - (n - 1) \in S
    BY <1>4
  <2>2. (TopLevel - n) + 1 = TopLevel - (n - 1)
    BY <1>0, <1>2
  <2>3. TopLevel - n \in Levels /\ TopLevel - n < TopLevel
    BY <1>0, <1>2, <1>3 DEF Levels
  <2>. QED
    BY <2>1, <2>2, <2>3
<1>. QED
  BY <1>2, <1>5

LEMMA PathExists ==
    ASSUME NEW m, NEW asid, NEW vpn
    PROVE  \E pte : pte = [level \in Levels |-> Met(m, asid, vpn, pte, level)]
<1>0. TopLevel \in Nat
  BY PagingAssumption
<1> DEFINE Solves(pte, level) ==
             /\ DOMAIN pte = level..TopLevel
             /\ pte = [k \in level..TopLevel |-> Met(m, asid, vpn, pte, k)]
           S == {level \in Levels : \E pte : Solves(pte, level)}
<1>1. TopLevel \in S
  <2> DEFINE top == [k \in TopLevel..TopLevel |-> m[<<Root[asid], Index(vpn, k)>>]]
  <2>1. Solves(top, TopLevel)
    <3>1. \A k \in TopLevel..TopLevel : k = TopLevel
      BY <1>0
    <3>2. \A k \in TopLevel..TopLevel : Met(m, asid, vpn, top, k) = m[<<Root[asid], Index(vpn, k)>>]
      BY <3>1 DEF Met
    <3> HIDE DEF Met
    <3>. QED
      BY <3>2
  <2>2. TopLevel \in Levels
    BY <1>0 DEF Levels
  <2>. QED
    BY <2>1, <2>2
<1>2. ASSUME NEW level \in Levels, level < TopLevel, level + 1 \in S
      PROVE  level \in S
  <2>1. PICK below : Solves(below, level + 1)
    BY <1>2
  <2> DEFINE pte == [k \in level..TopLevel |->
                       IF k = level THEN Met(m, asid, vpn, below, k) ELSE below[k]]
  <2>2. ASSUME NEW k \in level..TopLevel
        PROVE  pte[k] = Met(m, asid, vpn, pte, k)
    <3>1. k \in Nat /\ level \in Nat /\ k <= TopLevel /\ level <= k
      BY <1>0 DEF Levels
    <3>2. k # TopLevel => pte[k + 1] = below[k + 1]
      <4>1. k # TopLevel => k + 1 \in level..TopLevel /\ k + 1 # level
        BY <1>0, <3>1
      <4>. QED
        BY <4>1
    <3>3. Met(m, asid, vpn, pte, k) = Met(m, asid, vpn, below, k)
      <4> HIDE DEF pte
      <4>. QED
        BY <3>2 DEF Met
    <3>4. CASE k = level
      <4>1. pte[k] = Met(m, asid, vpn, below, k)
        BY <3>4
      <4>. QED
        BY <3>3, <4>1
    <3>5. CASE k # level
      <4>1. k \in (level + 1)..TopLevel
        BY <1>0, <3>1, <3>5
      <4>2. below[k] = Met(m, asid, vpn, below, k)
        BY <2>1, <4>1
      <4>3. pte[k] = below[k]
        BY <3>5
      <4>. QED
        BY <3>3, <4>2, <4>3
    <3>. QED
      BY <3>4, <3>5
  <2>3. Solves(pte, level)
    <3>1. DOMAIN pte = level..TopLevel
      OBVIOUS
    <3> DEFINE right == [k \in level..TopLevel |-> Met(m, asid, vpn, pte, k)]
    <3>2. \A k \in level..TopLevel : pte[k] = right[k]
      BY <2>2
    <3>3. pte = right
      BY <3>2
    <3>. QED
      BY <3>1, <3>3
  <2>. QED
    BY <2>3
<1>3. 0 \in S
  <2>1. S \in SUBSET Levels
    OBVIOUS
  <2> HIDE DEF S
  <2>. QED
    BY <1>0, <1>1, <1>2, <2>1, LevelInduction DEF Levels
<1>. QED
  BY <1>3 DEF Levels

LEMMA PathIs ==
    ASSUME NEW m, NEW asid, NEW vpn
    PROVE  Path(m, asid, vpn) = [level \in Levels |-> Met(m, asid, vpn, Path(m, asid, vpn), level)]
  BY PathExists DEF Path
LEMMA PathAt ==
    ASSUME NEW m, NEW asid, NEW vpn, NEW level \in Levels
    PROVE  Path(m, asid, vpn)[level] = Met(m, asid, vpn, Path(m, asid, vpn), level)
<1> DEFINE path == Path(m, asid, vpn)
<1>1. path = [k \in Levels |-> Met(m, asid, vpn, path, k)]
  BY PathIs
<1> HIDE DEF path
<1>2. path[level] = Met(m, asid, vpn, path, level)
  BY <1>1
<1>. QED
  BY <1>2 DEF path

LEMMA IndexInTable ==
    ASSUME NEW vpn \in Vpns, NEW level \in Levels
    PROVE  Index(vpn, level) \in 0..(Fanout - 1)
<1>1. vpn \in Nat /\ Span(level) \in Nat \ {0}
  BY PagingAssumption
<1> DEFINE q == vpn \div Span(level)
<1>2. q \in Nat
  BY <1>1
<1> HIDE DEF q
<1>3. q % Fanout \in 0..(Fanout - 1)
  BY <1>2, PagingAssumption
<1>. QED
  BY <1>3 DEF Index, q

\* A walk of well-formed tables meets PTEs that lead to tables.
LEMMA PathTyped ==
    ASSUME NEW m \in [Slots -> Pte], \A slot \in Slots : PointsToTable(m[slot]),
           NEW asid \in Asids, NEW vpn \in Vpns, NEW level \in Levels
    PROVE  Path(m, asid, vpn)[level] \in Pte /\ PointsToTable(Path(m, asid, vpn)[level])
<1> DEFINE path == Path(m, asid, vpn)
           S == {k \in Levels : path[k] \in Pte /\ PointsToTable(path[k])}
<1>1. \A table \in Tables, k \in Levels :
         /\ m[<<table, Index(vpn, k)>>] \in Pte
         /\ PointsToTable(m[<<table, Index(vpn, k)>>])
  BY IndexInTable DEF Slots
<1>2. \A k \in Levels : path[k] = Met(m, asid, vpn, path, k)
  BY PathAt
<1>3. TopLevel \in Levels /\ Root[asid] \in Tables
  BY PagingAssumption DEF Levels
<1>4. NoPte \in Pte /\ PointsToTable(NoPte)
  BY DEF NoPte, Pte, PointsToTable, IsPointer
<1> HIDE DEF path
<1>5. TopLevel \in S
  <2>1. path[TopLevel] = m[<<Root[asid], Index(vpn, TopLevel)>>]
    BY <1>2, <1>3 DEF Met
  <2>. QED
    BY <1>1, <1>3, <2>1
<1>6. ASSUME NEW k \in Levels, k < TopLevel, k + 1 \in S PROVE k \in S
  <2>0. k # TopLevel
    BY <1>6, PagingAssumption DEF Levels
  <2>1. CASE IsPointer(path[k + 1])
    <3>1. path[k + 1].ppn \in Tables
      BY <1>6, <2>1 DEF PointsToTable
    <3>2. path[k] = m[<<path[k + 1].ppn, Index(vpn, k)>>]
      BY <1>2, <2>0, <2>1 DEF Met
    <3>. QED
      BY <1>1, <3>1, <3>2
  <2>2. CASE ~IsPointer(path[k + 1])
    <3>1. path[k] = NoPte
      BY <1>2, <2>0, <2>2 DEF Met
    <3>. QED
      BY <1>4, <3>1
  <2>. QED
    BY <2>1, <2>2
<1>7. S \in SUBSET Levels
  OBVIOUS
<1>8. S = Levels
  <2> HIDE DEF S
  <2>. QED
    BY <1>5, <1>6, <1>7, LevelInduction
<1>9. level \in S
  BY <1>8
<1>. QED
  BY <1>9 DEF path

-----------------------------------------------------------------------------
(* Translations are current.                                               *)

\* The page tables lead to this table at this level.
Reaches(m, asid, vpn, level, table) ==
    IF level = TopLevel THEN table = Root[asid]
    ELSE IsPointer(Path(m, asid, vpn)[level + 1]) /\ Path(m, asid, vpn)[level + 1].ppn = table

\* What a hart with these unfenced pages may hold: what the tables m say, or anything of
\* a page that it has to fence.
Known(unfenced, m, asid, vpn, pte) ==
    <<asid, vpn>> \in unfenced \/ Current(pte, m, asid, vpn)

\* Where a walk may be: where the page tables lead it, or in a page it has to fence.
OnPath(unfenced, m, asid, w) ==
    <<asid, w.vpn>> \in unfenced \/ Reaches(m, asid, w.vpn, w.level, w.table)

EntriesCurrent ==
    \A h \in Harts, vpn \in Vpns :
       \A i \in Row(vpn) \cap valid[h] :
          entries[h][i].tag = Tag(vpn) =>
            Known(dirty[h], memory, entries[h][i].asid, vpn, entries[h][i].pte)

WalksCurrent ==
    \A h \in Harts : walk[h] # Idle => OnPath(dirty[h], memory, satp[h].asid, walk[h])

LEMMA ReachesMeets ==
    ASSUME NEW m, NEW asid, NEW vpn, NEW level \in Levels, NEW table,
           Reaches(m, asid, vpn, level, table)
    PROVE  Path(m, asid, vpn)[level] = m[<<table, Index(vpn, level)>>]
<1>1. Path(m, asid, vpn)[level] = Met(m, asid, vpn, Path(m, asid, vpn), level)
  BY PathAt
<1>. QED
  BY <1>1 DEF Met, Reaches

\* Additional A and D bits change neither the kind nor the place of a PTE.
LEMMA SameMeans ==
    ASSUME NEW p \in Pte, NEW q \in Pte, SameButFlags(p, q)
    PROVE  /\ p.v = q.v /\ p.ppn = q.ppn
           /\ p.bits \subseteq q.bits /\ p.bits \ {"A", "D"} = q.bits \ {"A", "D"}
<1> DEFINE a == [p EXCEPT !.bits = @ \ {"A", "D"}]
           b == [q EXCEPT !.bits = @ \ {"A", "D"}]
<1>1. a = b /\ p.bits \subseteq q.bits
  BY DEF SameButFlags
<1>2. a.v = p.v /\ a.ppn = p.ppn /\ a.bits = p.bits \ {"A", "D"}
  BY DEF Pte
<1>3. b.v = q.v /\ b.ppn = q.ppn /\ b.bits = q.bits \ {"A", "D"}
  BY DEF Pte
<1> HIDE DEF a, b
<1>. QED
  BY <1>1, <1>2, <1>3

LEMMA SameIf ==
    ASSUME NEW p \in Pte, NEW q \in Pte, p.v = q.v, p.ppn = q.ppn,
           p.bits \subseteq q.bits, p.bits \ {"A", "D"} = q.bits \ {"A", "D"}
    PROVE  SameButFlags(p, q)
  BY DEF SameButFlags, Pte

LEMMA SameKind ==
    ASSUME NEW p \in Pte, NEW q \in Pte, SameButFlags(p, q)
    PROVE  (IsLeaf(p) <=> IsLeaf(q)) /\ (IsPointer(p) <=> IsPointer(q))
<1>1. p.v = q.v /\ p.bits \ {"A", "D"} = q.bits \ {"A", "D"}
  BY SameMeans
<1>2. p.bits \cap {"R", "W", "X", "U"} = q.bits \cap {"R", "W", "X", "U"}
  BY <1>1
<1>. QED
  BY <1>1, <1>2 DEF IsLeaf, IsPointer
CurrentInv == EntriesCurrent /\ WalksCurrent /\ TranslationCurrent

\* A step that leaves what the harts know and where their walks are.
Kept ==
    \A g \in Harts :
       /\ \A asid \in Asids, vpn \in Vpns, pte \in Pte :
            Known(dirty[g], memory, asid, vpn, pte) => Known(dirty'[g], memory', asid, vpn, pte)
       /\ \A w \in Lookup :
            OnPath(dirty[g], memory, satp[g].asid, w) /\ satp'[g] = satp[g] =>
              OnPath(dirty'[g], memory', satp'[g].asid, w)

LEMMA KeptIfUnchanged ==
    ASSUME UNCHANGED <<memory, dirty>>
    PROVE  Kept
  BY DEF Kept, Known, OnPath

\* The pages that a store changes are noted for every hart.
LEMMA NotedOrSame ==
    ASSUME NoteChanges, NEW g \in Harts, NEW asid \in Asids, NEW vpn \in Vpns
    PROVE  /\ dirty[g] \subseteq dirty'[g]
           /\ \/ <<asid, vpn>> \in dirty'[g]
              \/ \A level \in Levels : SameButFlags(Path(memory, asid, vpn)[level],
                                                   Path(memory', asid, vpn)[level])
<1> DEFINE changed == {p \in Pages : \E level \in Levels :
                         ~SameButFlags(Path(memory, p[1], p[2])[level],
                                       Path(memory', p[1], p[2])[level])}
<1>1. dirty'[g] = dirty[g] \cup changed
  BY DEF NoteChanges
<1>2. <<asid, vpn>> \in Pages
  BY DEF Pages
<1>3. \/ <<asid, vpn>> \in changed
      \/ \A level \in Levels : SameButFlags(Path(memory, asid, vpn)[level],
                                           Path(memory', asid, vpn)[level])
  BY <1>2
<1> HIDE DEF changed
<1>. QED
  BY <1>1, <1>3

LEMMA KeptIfNoted ==
    ASSUME PagingInv, PagingInv', NoteChanges
    PROVE  Kept
<1>0. /\ memory \in [Slots -> Pte] /\ \A slot \in Slots : PointsToTable(memory[slot])
      /\ memory' \in [Slots -> Pte] /\ \A slot \in Slots : PointsToTable(memory'[slot])
  BY DEF PagingInv, TypeOK, Pointers
<1>1. ASSUME NEW g \in Harts, NEW asid \in Asids, NEW vpn \in Vpns, NEW pte \in Pte,
             Known(dirty[g], memory, asid, vpn, pte)
      PROVE  Known(dirty'[g], memory', asid, vpn, pte)
  <2>1. CASE <<asid, vpn>> \in dirty'[g]
    BY <2>1 DEF Known
  <2>2. CASE <<asid, vpn>> \notin dirty'[g]
    <3>1. PICK level \in Levels :
            /\ IsLeaf(Path(memory, asid, vpn)[level])
            /\ SameButFlags(pte, Cached(Path(memory, asid, vpn)[level], vpn, level))
      BY <1>1, <2>2, NotedOrSame DEF Known, Current
    <3> DEFINE p == Path(memory, asid, vpn)[level]
               q == Path(memory', asid, vpn)[level]
    <3>2. p \in Pte /\ q \in Pte
      BY <1>0, PathTyped
    <3>3. SameButFlags(p, q)
      BY <2>2, NotedOrSame
    <3>4. IsLeaf(p) /\ SameButFlags(pte, Cached(p, vpn, level))
      BY <3>1
    <3> HIDE DEF p, q
    <3>5. IsLeaf(q)
      BY <3>2, <3>3, <3>4, SameKind
    <3>6. Cached(p, vpn, level) \in Pte /\ Cached(q, vpn, level) \in Pte
      BY <3>2, CachedIsPte
    <3>7. /\ p.v = q.v /\ p.ppn = q.ppn
          /\ p.bits \subseteq q.bits /\ p.bits \ {"A", "D"} = q.bits \ {"A", "D"}
      BY <3>2, <3>3, SameMeans
    <3>8. /\ Cached(p, vpn, level).v = Cached(q, vpn, level).v
          /\ Cached(p, vpn, level).ppn = Cached(q, vpn, level).ppn
          /\ Cached(p, vpn, level).bits = p.bits /\ Cached(q, vpn, level).bits = q.bits
      BY <3>2, <3>7 DEF Cached, Pte
    <3>9. /\ pte.v = Cached(p, vpn, level).v /\ pte.ppn = Cached(p, vpn, level).ppn
          /\ pte.bits \subseteq p.bits /\ pte.bits \ {"A", "D"} = p.bits \ {"A", "D"}
      BY <3>4, <3>6, <3>8, SameMeans
    <3>10. SameButFlags(pte, Cached(q, vpn, level))
      BY <3>6, <3>7, <3>8, <3>9, SameIf
    <3>. QED
      BY <3>5, <3>10 DEF Known, Current, q
  <2>. QED
    BY <2>1, <2>2
<1>2. ASSUME NEW g \in Harts, NEW w \in Lookup,
             OnPath(dirty[g], memory, satp[g].asid, w), satp'[g] = satp[g]
      PROVE  OnPath(dirty'[g], memory', satp'[g].asid, w)
  <2>0. satp[g].asid \in Asids /\ w.vpn \in Vpns /\ w.level \in Levels
    BY DEF PagingInv, TypeOK, Lookup
  <2> DEFINE asid == satp[g].asid
             p == Path(memory, asid, w.vpn)[w.level + 1]
             q == Path(memory', asid, w.vpn)[w.level + 1]
  <2>1. CASE <<asid, w.vpn>> \in dirty'[g]
    BY <1>2, <2>1 DEF OnPath
  <2>2. CASE <<asid, w.vpn>> \notin dirty'[g]
    <3>1. Reaches(memory, asid, w.vpn, w.level, w.table)
      BY <1>2, <2>0, <2>2, NotedOrSame DEF OnPath
    <3>2. CASE w.level = TopLevel
      BY <1>2, <3>1, <3>2 DEF Reaches, OnPath
    <3>3. CASE w.level # TopLevel
      <4>1. w.level + 1 \in Levels
        BY <2>0, <3>3, PagingAssumption DEF Levels
      <4>2. p \in Pte /\ q \in Pte
        BY <1>0, <2>0, <4>1, PathTyped
      <4>3. SameButFlags(p, q)
        BY <2>0, <2>2, <4>1, NotedOrSame
      <4>4. IsPointer(p) /\ p.ppn = w.table
        BY <3>1, <3>3 DEF Reaches
      <4> HIDE DEF p, q
      <4>5. IsPointer(q) /\ q.ppn = w.table
        BY <4>2, <4>3, <4>4, SameKind, SameMeans
      <4>6. Reaches(memory', asid, w.vpn, w.level, w.table)
        BY <3>3, <4>5 DEF Reaches, q
      <4>. QED
        BY <1>2, <4>6 DEF OnPath
    <3>. QED
      BY <3>2, <3>3
  <2>. QED
    BY <2>1, <2>2
<1>. QED
  BY <1>1, <1>2 DEF Kept
\* Entries that stay as they are, less some.
LEMMA EntriesKept ==
    ASSUME PagingInv, EntriesCurrent, Kept, entries' = entries,
           \A g \in Harts : valid'[g] \subseteq valid[g]
    PROVE  EntriesCurrent'
<1> SUFFICES ASSUME NEW g \in Harts, NEW vpn \in Vpns, NEW i \in Row(vpn) \cap valid'[g],
                    entries[g][i].tag = Tag(vpn)
             PROVE  Known(dirty'[g], memory', entries[g][i].asid, vpn, entries[g][i].pte)
  BY DEF EntriesCurrent, Row, Tag, Known
<1>1. i \in Columns
  BY RowInTlb
<1>2. entries[g][i].asid \in Asids /\ entries[g][i].pte \in Pte
  BY <1>1 DEF PagingInv, TypeOK, Entry
<1>3. Known(dirty[g], memory, entries[g][i].asid, vpn, entries[g][i].pte)
  BY DEF EntriesCurrent
<1>. QED
  BY <1>2, <1>3 DEF Kept, Known

\* A translation that is known is inserted.
LEMMA InsertKnown ==
    ASSUME PagingInv, EntriesCurrent, Kept, NoAliases, NEW h \in Harts,
           NEW page \in Vpns, NEW pte \in Pte, Insert(h, page, pte),
           Known(dirty'[h], memory', satp[h].asid, page, pte)
    PROVE  EntriesCurrent'
<1> DEFINE free == Row(page) \ valid[h]
           victim == (page % NumRows) * NumColumns + next_column[h]
           slot == IF free # {} THEN First(free) ELSE victim
           entry == [tag |-> Tag(page), asid |-> satp[h].asid, pte |-> pte]
<1>1. free # {} => slot \in Columns
  <2>1. free \in SUBSET Nat /\ free \subseteq Columns
    BY RowInTlb DEF Columns
  <2> HIDE DEF free
  <2>. QED
    BY <2>1, FirstBelongs
<1>2. entry.tag = Tag(page) /\ entry.asid = satp[h].asid /\ entry.pte = pte
  OBVIOUS
<1> HIDE DEF slot, entry, free, victim
<1>3. /\ IF slot \in Columns THEN entries' = [entries EXCEPT ![h][slot] = entry]
         ELSE UNCHANGED entries
      /\ IF free # {} THEN valid' = [valid EXCEPT ![h] = @ \cup {slot}] ELSE UNCHANGED valid
  BY DEF Insert, slot, entry, free, victim
<1>4. entries \in [Harts -> [Columns -> Entry]] /\ valid \in [Harts -> SUBSET Columns]
  BY DEF PagingInv, TypeOK
<1>5. \A g \in Harts, i \in Columns :
         \/ g = h /\ i = slot /\ entries'[g][i] = entry
         \/ entries'[g][i] = entries[g][i] /\ (i \in valid'[g] => i \in valid[g])
  <2> TAKE g \in Harts, i \in Columns
  <2>1. CASE g # h
    <3>1. entries'[g] = entries[g] /\ valid'[g] = valid[g]
      BY <1>3, <1>4, <2>1
    <3>. QED
      BY <3>1
  <2>2. CASE g = h /\ i # slot
    <3>1. entries'[h][i] = entries[h][i]
      BY <1>3, <1>4, <2>2
    <3>2. valid'[h] \subseteq valid[h] \cup {slot}
      BY <1>3, <1>4
    <3>. QED
      BY <2>2, <3>1, <3>2
  <2>3. CASE g = h /\ i = slot
    <3>1. entries'[h][slot] = entry
      BY <1>3, <1>4, <2>3
    <3>. QED
      BY <2>3, <3>1
  <2>. QED
    BY <2>1, <2>2, <2>3
<1>6. ASSUME NEW g \in Harts, NEW vpn \in Vpns, NEW i \in Row(vpn) \cap valid'[g],
             entries'[g][i].tag = Tag(vpn)
      PROVE  Known(dirty'[g], memory', entries'[g][i].asid, vpn, entries'[g][i].pte)
  <2>1. i \in Columns
    BY RowInTlb
  <2>2. CASE g = h /\ entries'[g][i] = entry
    <3>1. vpn = page
      BY <1>2, <1>6, <2>2, PagingAssumption DEF NoAliases, Tag
    <3>. QED
      BY <1>2, <2>2, <3>1 DEF Known
  <2>3. CASE entries'[g][i] = entries[g][i] /\ i \in valid[g]
    <3>1. entries[g][i].asid \in Asids /\ entries[g][i].pte \in Pte
      BY <1>4, <2>1 DEF Entry
    <3>2. Known(dirty[g], memory, entries[g][i].asid, vpn, entries[g][i].pte)
      BY <1>6, <2>3 DEF EntriesCurrent
    <3>. QED
      BY <2>3, <3>1, <3>2 DEF Kept, Known
  <2>. QED
    BY <1>5, <2>1, <2>2, <2>3
<1>. QED
  BY <1>6 DEF EntriesCurrent, Row, Tag, Known

LEMMA WalksKept ==
    ASSUME PagingInv, WalksCurrent, Kept,
           \A g \in Harts : walk'[g] # Idle => walk'[g] = walk[g] /\ satp'[g] = satp[g]
    PROVE  WalksCurrent'
<1> SUFFICES ASSUME NEW g \in Harts, walk'[g] # Idle
             PROVE  OnPath(dirty'[g], memory', satp'[g].asid, walk'[g])
  BY DEF WalksCurrent, OnPath
<1>1. walk'[g] = walk[g] /\ satp'[g] = satp[g] /\ walk[g] \in Lookup
  BY DEF PagingInv, TypeOK
<1>2. OnPath(dirty[g], memory, satp[g].asid, walk[g])
  BY <1>1 DEF WalksCurrent
<1>. QED
  BY <1>1, <1>2 DEF Kept, OnPath

\* One hart's walk begins or goes on.
LEMMA WalkOnPath ==
    ASSUME PagingInv, WalksCurrent, Kept, NEW h \in Harts, NEW w \in Lookup,
           walk' = [walk EXCEPT ![h] = w], UNCHANGED satp,
           OnPath(dirty'[h], memory', satp'[h].asid, w)
    PROVE  WalksCurrent'
<1> SUFFICES ASSUME NEW g \in Harts, walk'[g] # Idle
             PROVE  OnPath(dirty'[g], memory', satp'[g].asid, walk'[g])
  BY DEF WalksCurrent, OnPath
<1>1. CASE g = h
  <2>1. walk'[g] = w
    BY <1>1 DEF PagingInv, TypeOK
  <2>. QED
    BY <1>1, <2>1 DEF OnPath
<1>2. CASE g # h
  <2>1. walk'[g] = walk[g] /\ walk[g] \in Lookup
    BY <1>2 DEF PagingInv, TypeOK
  <2>2. OnPath(dirty[g], memory, satp[g].asid, walk[g])
    BY <2>1 DEF WalksCurrent
  <2>. QED
    BY <2>1, <2>2 DEF Kept, OnPath
<1>. QED
  BY <1>1, <1>2

LEMMA ResultsKept ==
    ASSUME PagingInv, TranslationCurrent, Kept,
           \A g \in Harts : \/ result'[g] = result[g] \/ result'[g] = NoResult
                           \/ result'[g].outcome # "ok"
    PROVE  TranslationCurrent'
<1> SUFFICES ASSUME NEW g \in Harts, result'[g] # NoResult, result'[g].outcome = "ok"
             PROVE  \E asid \in Asids :
                      /\ asid = result'[g].asid \/ "G" \in result'[g].pte.bits
                      /\ \/ <<asid, result'[g].vpn>> \in dirty'[g]
                         \/ Current(result'[g].pte, memory', asid, result'[g].vpn)
  BY DEF TranslationCurrent
<1>1. result'[g] = result[g]
  OBVIOUS
<1>2. PICK asid \in Asids :
         /\ asid = result[g].asid \/ "G" \in result[g].pte.bits
         /\ Known(dirty[g], memory, asid, result[g].vpn, result[g].pte)
  BY <1>1 DEF TranslationCurrent, Known
<1>3. result[g].vpn \in Vpns /\ result[g].pte \in Pte
  BY <1>1 DEF PagingInv, TypeOK, Result
<1>. QED
  BY <1>1, <1>2, <1>3 DEF Kept, Known

\* A lookup succeeds with what the hart may hold.
LEMMA AnswerKnown ==
    ASSUME PagingInv, TranslationCurrent, Kept, NEW h \in Harts, NEW vpn \in Vpns,
           NEW mode, NEW agent, NEW pte, NEW asid \in Asids,
           Answer(h, "ok", vpn, mode, agent, pte),
           asid = satp[h].asid \/ "G" \in pte.bits, Known(dirty'[h], memory', asid, vpn, pte)
    PROVE  TranslationCurrent'
<1> SUFFICES ASSUME NEW g \in Harts, result'[g] # NoResult, result'[g].outcome = "ok"
             PROVE  \E a \in Asids :
                      /\ a = result'[g].asid \/ "G" \in result'[g].pte.bits
                      /\ \/ <<a, result'[g].vpn>> \in dirty'[g]
                         \/ Current(result'[g].pte, memory', a, result'[g].vpn)
  BY DEF TranslationCurrent
<1>1. CASE g = h
  <2>1. result'[g].asid = satp[h].asid /\ result'[g].vpn = vpn /\ result'[g].pte = pte
    BY <1>1 DEF Answer, PagingInv, TypeOK
  <2>. QED
    BY <1>1, <2>1 DEF Known
<1>2. CASE g # h
  <2>1. result'[g] = result[g]
    BY <1>2 DEF Answer, PagingInv, TypeOK
  <2>2. PICK a \in Asids :
           /\ a = result[g].asid \/ "G" \in result[g].pte.bits
           /\ Known(dirty[g], memory, a, result[g].vpn, result[g].pte)
    BY <2>1 DEF TranslationCurrent, Known
  <2>3. result[g].vpn \in Vpns /\ result[g].pte \in Pte
    BY <2>1 DEF PagingInv, TypeOK, Result
  <2>. QED
    BY <2>1, <2>2, <2>3 DEF Kept, Known
<1>. QED
  BY <1>1, <1>2
LEMMA HitCurrent ==
    ASSUME PagingInv, CurrentInv, NoAliases, NEW h \in Harts, NEW vpn \in Vpns, NEW mode,
           NEW agent, TlbHit(h, vpn, mode, agent)
    PROVE  CurrentInv'
<1> DEFINE i == First(Holding(h, vpn))
<1>1. i \in Holding(h, vpn)
  <2>1. Holding(h, vpn) \subseteq Columns /\ Columns \subseteq Nat
    BY RowInTlb DEF Holding, Columns
  <2>. QED
    BY <2>1, FirstBelongs DEF TlbHit
<1> HIDE DEF i
<1>2. /\ Answer(h, "ok", vpn, mode, agent, entries[h][i].pte)
      /\ UNCHANGED <<memory, satp, entries, valid, walk, dirty>>
  BY DEF TlbHit, i, tlb
<1>3. /\ i \in Row(vpn) \cap valid[h] /\ entries[h][i].tag = Tag(vpn)
      /\ entries[h][i].asid = satp[h].asid \/ "G" \in entries[h][i].pte.bits
  BY <1>1 DEF Holding
<1>4. entries[h][i].asid \in Asids
  BY <1>3, RowInTlb DEF PagingInv, TypeOK, Entry
<1>5. Known(dirty'[h], memory', entries[h][i].asid, vpn, entries[h][i].pte)
  BY <1>2, <1>3 DEF CurrentInv, EntriesCurrent
<1>6. Kept
  BY <1>2, KeptIfUnchanged
<1>7. TranslationCurrent'
  BY <1>2, <1>3, <1>4, <1>5, <1>6, AnswerKnown DEF CurrentInv
<1>. QED
  BY <1>2, <1>6, <1>7, EntriesKept, WalksKept DEF CurrentInv

LEMMA MissCurrent ==
    ASSUME PagingInv, PagingInv', CurrentInv, NEW h \in Harts, NEW vpn \in Vpns, NEW mode,
           NEW agent, TlbMiss(h, vpn, mode, agent)
    PROVE  CurrentInv'
<1> DEFINE w == [at |-> "read", vpn |-> vpn, mode |-> mode, agent |-> agent,
                 level |-> TopLevel, table |-> Root[satp[h].asid], pte |-> NoPte]
<1>1. walk' = [walk EXCEPT ![h] = w]
      /\ result' = [result EXCEPT ![h] = NoResult]
      /\ UNCHANGED <<memory, satp, entries, dirty>>
  BY DEF TlbMiss
<1>2. w \in Lookup
  <2>1. walk'[h] = w /\ walk'[h] \in Lookup \cup {Idle}
    BY <1>1 DEF PagingInv, TypeOK
  <2>2. w.vpn = vpn /\ w # Idle
    BY DEF Idle
  <2> HIDE DEF w
  <2>. QED
    BY <2>1, <2>2
<1>3. w.level = TopLevel /\ w.table = Root[satp[h].asid]
  OBVIOUS
<1> HIDE DEF w
<1>4. OnPath(dirty'[h], memory', satp'[h].asid, w)
  BY <1>1, <1>3 DEF OnPath, Reaches
<1>5. Kept
  BY <1>1, KeptIfUnchanged
<1>6. \A g \in Harts : valid'[g] \subseteq valid[g]
  <2>1. PICK j : valid' = valid \/ valid' = [valid EXCEPT ![h] = valid[h] \ {j}]
    BY DEF TlbMiss
  <2>. QED
    BY <2>1, ZenonT(60) DEF PagingInv, TypeOK
<1>7. EntriesCurrent' /\ WalksCurrent'
  BY <1>1, <1>2, <1>4, <1>5, <1>6, EntriesKept, WalkOnPath DEF CurrentInv
<1>8. \A g \in Harts : result'[g] = result[g] \/ result'[g] = NoResult
  BY <1>1 DEF PagingInv, TypeOK
<1>. QED
  BY <1>5, <1>7, <1>8, ResultsKept DEF CurrentInv

\* While a walk is on its path, it reads what the page tables say.
LEMMA OnPathMeets ==
    ASSUME NEW m, NEW asid, NEW w \in Lookup, Reaches(m, asid, w.vpn, w.level, w.table)
    PROVE  Path(m, asid, w.vpn)[w.level] = m[Slot(w)]
  BY ReachesMeets DEF Lookup, Slot

LEMMA DescendCurrent ==
    ASSUME PagingInv, PagingInv', CurrentInv, NEW h \in Harts, Descend(h)
    PROVE  CurrentInv'
<1> DEFINE old == walk[h]
           w == [walk[h] EXCEPT !.level = @ - 1, !.table = memory[Slot(walk[h])].ppn]
<1>1. old # Idle /\ old.level > 0 /\ IsPointer(memory[Slot(old)])
      /\ UNCHANGED <<memory, satp, entries, valid, result, dirty>>
  BY DEF Descend, Reading, tlb
<1>2. old \in Lookup /\ old.level \in Levels
  BY <1>1, WalkParts
<1>3. walk' = [walk EXCEPT ![h] = w] /\ walk'[h] = w
  BY DEF Descend, PagingInv, TypeOK
<1>4. w.vpn = old.vpn /\ w.level = old.level - 1 /\ w.table = memory[Slot(old)].ppn
      /\ w.at = old.at
  BY <1>2 DEF Lookup
<1> HIDE DEF w, old
<1>5. w \in Lookup
  <2>1. w \in Lookup \cup {Idle}
    BY <1>3 DEF PagingInv, TypeOK
  <2>2. w.at = "read"
    BY <1>4 DEF Descend, Reading, old
  <2>. QED
    BY <2>1, <2>2 DEF Idle
<1>6. OnPath(dirty[h], memory, satp[h].asid, old)
  BY <1>1 DEF CurrentInv, WalksCurrent, old
<1>7. OnPath(dirty'[h], memory', satp'[h].asid, w)
  <2>1. CASE <<satp[h].asid, old.vpn>> \in dirty[h]
    BY <1>1, <1>4, <2>1 DEF OnPath
  <2>2. CASE Reaches(memory, satp[h].asid, old.vpn, old.level, old.table)
    <3>1. Path(memory, satp[h].asid, old.vpn)[old.level] = memory[Slot(old)]
      BY <1>2, <2>2, OnPathMeets
    <3>2. w.level # TopLevel /\ w.level + 1 = old.level
      BY <1>1, <1>2, <1>4, PagingAssumption DEF Levels
    <3>. QED
      BY <1>1, <1>4, <3>1, <3>2 DEF OnPath, Reaches
  <2>. QED
    BY <1>6, <2>1, <2>2 DEF OnPath
<1>8. Kept
  BY <1>1, KeptIfUnchanged
<1>. QED
  BY <1>1, <1>3, <1>5, <1>7, <1>8, EntriesKept, WalkOnPath, ResultsKept DEF CurrentInv

\* A PTE is itself, with no bits in addition.
LEMMA SameRefl ==
    ASSUME NEW pte
    PROVE  SameButFlags(pte, pte)
  BY DEF SameButFlags

LEMMA FaultCurrent ==
    ASSUME PagingInv, CurrentInv, NEW h \in Harts, PageFault(h) \/ AccessFault(h)
    PROVE  CurrentInv'
<1>1. /\ EndWalk(h, "fault", NoPte)
      /\ UNCHANGED <<memory, satp, entries, valid, dirty>>
  BY DEF PageFault, AccessFault, tlb
<1>2. Kept
  BY <1>1, KeptIfUnchanged
<1>3. \A g \in Harts : result'[g] = result[g] \/ result'[g].outcome # "ok"
  BY <1>1 DEF EndWalk, Answer, PagingInv, TypeOK
<1>4. \A g \in Harts : walk'[g] # Idle => walk'[g] = walk[g] /\ satp'[g] = satp[g]
  BY <1>1 DEF EndWalk, PagingInv, TypeOK
<1>. QED
  BY <1>1, <1>2, <1>3, <1>4, EntriesKept, WalksKept, ResultsKept DEF CurrentInv

\* A walk that was on its path ends with the leaf it has read, or stored.
LEMMA FinishCurrent ==
    ASSUME PagingInv, CurrentInv, Kept, NoAliases, NEW h \in Harts, walk[h] # Idle,
           NEW pte \in Pte, IsLeaf(pte), Finish(h, pte), UNCHANGED satp,
           \/ <<satp[h].asid, walk[h].vpn>> \in dirty'[h]
           \/ Path(memory', satp[h].asid, walk[h].vpn)[walk[h].level] = pte
    PROVE  CurrentInv'
<1> DEFINE leaf == Cached(pte, walk[h].vpn, walk[h].level)
<1>1. walk[h].vpn \in Vpns /\ walk[h].level \in Levels /\ satp[h].asid \in Asids
  BY WalkParts DEF PagingInv, TypeOK
<1>2. leaf \in Pte
  BY <1>1, CachedIsPte
<1>3. Known(dirty'[h], memory', satp[h].asid, walk[h].vpn, leaf)
  <2>1. SameButFlags(leaf, leaf)
    BY SameRefl
  <2>. QED
    BY <1>1, <2>1 DEF Known, Current
<1> HIDE DEF leaf
<1>4. /\ Insert(h, walk[h].vpn, leaf)
      /\ Answer(h, "ok", walk[h].vpn, walk[h].mode, walk[h].agent, leaf)
      /\ walk' = [walk EXCEPT ![h] = Idle]
  BY DEF Finish, EndWalk, leaf
<1>5. EntriesCurrent'
  BY <1>1, <1>2, <1>3, <1>4, InsertKnown DEF CurrentInv
<1>6. \A g \in Harts : walk'[g] # Idle => walk'[g] = walk[g] /\ satp'[g] = satp[g]
  BY <1>4 DEF PagingInv, TypeOK
<1>7. WalksCurrent'
  BY <1>6, WalksKept DEF CurrentInv
<1>8. TranslationCurrent'
  BY <1>1, <1>3, <1>4, AnswerKnown DEF CurrentInv
<1>. QED
  BY <1>5, <1>7, <1>8 DEF CurrentInv

LEMMA ReadLeafCurrent ==
    ASSUME PagingInv, CurrentInv, NoAliases, NEW h \in Harts, ReadLeaf(h)
    PROVE  CurrentInv'
<1>1. /\ walk[h] # Idle /\ IsLeaf(memory[Slot(walk[h])])
      /\ Finish(h, memory[Slot(walk[h])])
      /\ UNCHANGED <<memory, satp, dirty>>
  BY DEF ReadLeaf, Reading, Granted
<1>2. walk[h] \in Lookup /\ memory[Slot(walk[h])] \in Pte
  BY <1>1, WalkParts
<1>3. OnPath(dirty[h], memory, satp[h].asid, walk[h])
  BY <1>1 DEF CurrentInv, WalksCurrent
<1>4. \/ <<satp[h].asid, walk[h].vpn>> \in dirty'[h]
      \/ Path(memory', satp[h].asid, walk[h].vpn)[walk[h].level] = memory[Slot(walk[h])]
  BY <1>1, <1>2, <1>3, OnPathMeets DEF OnPath
<1>5. Kept
  BY <1>1, KeptIfUnchanged
<1>. QED
  BY <1>1, <1>2, <1>4, <1>5, FinishCurrent

LEMMA ReadLeafToUpdateCurrent ==
    ASSUME PagingInv, PagingInv', CurrentInv, NEW h \in Harts, ReadLeafToUpdate(h)
    PROVE  CurrentInv'
<1> DEFINE pte == [memory[Slot(walk[h])] EXCEPT !.bits = @ \cup SetFlags(walk[h].mode)]
           w == [walk[h] EXCEPT !.at = "update", !.pte = pte]
<1>1. walk[h] # Idle /\ UNCHANGED <<memory, satp, entries, valid, result, dirty>>
  BY DEF ReadLeafToUpdate, Reading, tlb
<1>2. walk' = [walk EXCEPT ![h] = w] /\ walk'[h] = w
  BY DEF ReadLeafToUpdate, PagingInv, TypeOK
<1> HIDE DEF pte
<1>3. w.vpn = walk[h].vpn /\ w.level = walk[h].level /\ w.table = walk[h].table
      /\ w.at = "update"
  BY <1>1, WalkParts DEF Lookup
<1> HIDE DEF w
<1>4. w \in Lookup
  BY <1>2, <1>3 DEF PagingInv, TypeOK, Idle
<1>5. OnPath(dirty'[h], memory', satp'[h].asid, w)
  BY <1>1, <1>3 DEF CurrentInv, WalksCurrent, OnPath
<1>6. Kept
  BY <1>1, KeptIfUnchanged
<1>. QED
  BY <1>1, <1>2, <1>4, <1>5, <1>6, EntriesKept, WalkOnPath, ResultsKept DEF CurrentInv

LEMMA UpdateCurrentTables ==
    ASSUME PagingInv, PagingInv', CurrentInv, NoAliases, NEW h \in Harts, UpdatePte(h)
    PROVE  CurrentInv'
<1>1. /\ walk[h] # Idle /\ walk[h].at = "update"
      /\ memory' = [memory EXCEPT ![Slot(walk[h])] = walk[h].pte]
      /\ Finish(h, walk[h].pte) /\ NoteChanges /\ UNCHANGED satp
  BY DEF UpdatePte
<1>2. IsLeaf(walk[h].pte)
  BY <1>1 DEF PagingInv, Walking
<1>3. walk[h] \in Lookup /\ walk[h].pte \in Pte /\ Slot(walk[h]) \in Slots
  BY <1>1, WalkParts
<1>4. Kept
  BY <1>1, KeptIfNoted
<1>5. OnPath(dirty'[h], memory', satp[h].asid, walk[h])
  BY <1>1, <1>3, <1>4 DEF CurrentInv, WalksCurrent, Kept
<1>6. memory'[Slot(walk[h])] = walk[h].pte
  BY <1>1, <1>3 DEF PagingInv, TypeOK
<1>7. \/ <<satp[h].asid, walk[h].vpn>> \in dirty'[h]
      \/ Path(memory', satp[h].asid, walk[h].vpn)[walk[h].level] = walk[h].pte
  <2>1. CASE Reaches(memory', satp[h].asid, walk[h].vpn, walk[h].level, walk[h].table)
    <3>1. Path(memory', satp[h].asid, walk[h].vpn)[walk[h].level] = memory'[Slot(walk[h])]
      BY <1>3, <2>1, OnPathMeets
    <3>. QED
      BY <1>6, <3>1
  <2>. QED
    BY <1>5, <2>1 DEF OnPath
<1>. QED
  BY <1>1, <1>2, <1>3, <1>4, <1>7, FinishCurrent

\* A fence forgets the pages it names, and with them every entry that holds one.
LEMMA SfenceCurrent ==
    ASSUME PagingInv, CurrentInv, NoAliases, NEW h \in Harts, NEW vpn \in Vpns \cup {X0},
           NEW asid \in Asids \cup {X0}, Sfence(h, vpn, asid)
    PROVE  CurrentInv'
<1>1. /\ walk[h] = Idle /\ result' = [result EXCEPT ![h] = NoResult]
      /\ UNCHANGED <<memory, satp, entries, walk>>
      /\ IF vpn # X0 /\ ~satp[h].on THEN UNCHANGED valid
         ELSE valid' = [valid EXCEPT ![h] = @ \ Fenced(h, vpn, asid)]
  BY DEF Sfence, Ready
<1>2. dirty'[h] = {p \in dirty[h] : ~(vpn \in {X0, p[2]} /\ asid \in {X0, p[1]})}
      /\ \A g \in Harts : g # h => dirty'[g] = dirty[g]
  BY DEF Sfence, PagingInv, TypeOK
<1>3. EntriesCurrent'
  <2> SUFFICES ASSUME NEW g \in Harts, NEW v \in Vpns, NEW i \in Row(v) \cap valid'[g],
                      entries[g][i].tag = Tag(v)
               PROVE  Known(dirty'[g], memory', entries[g][i].asid, v, entries[g][i].pte)
    BY <1>1 DEF EntriesCurrent, Row, Tag
  <2>1. i \in valid[g] /\ i \in Columns
    BY <1>1, RowInTlb, ZenonT(60) DEF PagingInv, TypeOK
  <2>2. Known(dirty[g], memory, entries[g][i].asid, v, entries[g][i].pte)
    BY <2>1 DEF CurrentInv, EntriesCurrent
  <2>3. CASE g # h
    BY <1>1, <1>2, <2>2, <2>3 DEF Known
  <2>4. CASE g = h
    <3>1. satp[h].on
      BY <2>1, <2>4 DEF PagingInv, DisabledIsEmpty
    <3>2. i \notin Fenced(h, vpn, asid)
      BY <1>1, <2>4, <3>1 DEF PagingInv, TypeOK
    <3>3. ~(vpn \in {X0, v} /\ asid \in {X0, entries[h][i].asid})
      BY <2>1, <2>4, <3>2 DEF Fenced
    <3>4. <<entries[h][i].asid, v>> \in dirty[h] => <<entries[h][i].asid, v>> \in dirty'[h]
      BY <1>2, <3>3
    <3>. QED
      BY <1>1, <2>2, <2>4, <3>4 DEF Known
  <2>. QED
    BY <2>3, <2>4
<1>4. WalksCurrent'
  <2> SUFFICES ASSUME NEW g \in Harts, walk'[g] # Idle
               PROVE  OnPath(dirty'[g], memory', satp'[g].asid, walk'[g])
    BY DEF WalksCurrent
  <2>1. g # h /\ walk[g] # Idle
    BY <1>1
  <2>. QED
    BY <1>1, <1>2, <2>1 DEF CurrentInv, WalksCurrent
<1>5. TranslationCurrent'
  <2> SUFFICES ASSUME NEW g \in Harts, result'[g] # NoResult, result'[g].outcome = "ok"
               PROVE  \E a \in Asids :
                        /\ a = result'[g].asid \/ "G" \in result'[g].pte.bits
                        /\ \/ <<a, result'[g].vpn>> \in dirty'[g]
                           \/ Current(result'[g].pte, memory', a, result'[g].vpn)
    BY DEF TranslationCurrent
  <2>1. g # h /\ result'[g] = result[g]
    BY <1>1 DEF PagingInv, TypeOK
  <2>. QED
    BY <1>1, <1>2, <2>1 DEF CurrentInv, TranslationCurrent
<1>. QED
  BY <1>3, <1>4, <1>5 DEF CurrentInv

LEMMA WriteSatpCurrent ==
    ASSUME PagingInv, CurrentInv, NEW h \in Harts, NEW on, NEW asid, WriteSatp(h, on, asid)
    PROVE  CurrentInv'
<1>1. /\ walk[h] = Idle /\ result' = [result EXCEPT ![h] = NoResult]
      /\ satp' = [satp EXCEPT ![h] = [on |-> on, asid |-> asid]]
      /\ valid' = IF on THEN valid ELSE [valid EXCEPT ![h] = {}]
      /\ UNCHANGED <<memory, entries, walk, dirty>>
  BY DEF WriteSatp, Ready
<1>2. Kept
  BY <1>1, KeptIfUnchanged
<1>3. \A g \in Harts : valid'[g] \subseteq valid[g]
  BY <1>1 DEF PagingInv, TypeOK
<1>4. \A g \in Harts : walk'[g] # Idle => walk'[g] = walk[g] /\ satp'[g] = satp[g]
  BY <1>1 DEF PagingInv, TypeOK
<1>5. \A g \in Harts : result'[g] = result[g] \/ result'[g] = NoResult
  BY <1>1 DEF PagingInv, TypeOK
<1>. QED
  BY <1>1, <1>2, <1>3, <1>4, <1>5, EntriesKept, WalksKept, ResultsKept DEF CurrentInv

LEMMA WritePteCurrent ==
    ASSUME PagingInv, PagingInv', CurrentInv, NEW h \in Harts, NEW slot, NEW pte,
           WritePte(h, slot, pte)
    PROVE  CurrentInv'
<1>1. NoteChanges /\ result' = [result EXCEPT ![h] = NoResult]
      /\ UNCHANGED <<satp, entries, valid, walk>>
  BY DEF WritePte, tlb
<1>2. Kept
  BY <1>1, KeptIfNoted
<1>3. \A g \in Harts : result'[g] = result[g] \/ result'[g] = NoResult
  BY <1>1 DEF PagingInv, TypeOK
<1>. QED
  BY <1>1, <1>2, <1>3, EntriesKept, WalksKept, ResultsKept DEF CurrentInv

LEMMA CurrentStep ==
    ASSUME PagingInv, PagingInv', CurrentInv, NoAliases, [Next]_vars
    PROVE  CurrentInv'
<1>1. CASE UNCHANGED vars
  <2>1. UNCHANGED <<memory, dirty, satp, entries, valid, walk, result>>
    BY <1>1 DEF vars, tlb
  <2>. QED
    BY <2>1, KeptIfUnchanged, EntriesKept, WalksKept, ResultsKept DEF CurrentInv
<1>2. ASSUME NEW h \in Harts, Lookups(h) PROVE CurrentInv'
  BY <1>2, HitCurrent, MissCurrent, DescendCurrent, FaultCurrent, ReadLeafCurrent,
     ReadLeafToUpdateCurrent, UpdateCurrentTables DEF Lookups
<1>3. ASSUME NEW h \in Harts, Software(h) PROVE CurrentInv'
  BY <1>3, SfenceCurrent, WriteSatpCurrent, WritePteCurrent DEF Software
<1>. QED
  BY <1>1, <1>2, <1>3 DEF Next

\* The TLB never answers with a translation that the page tables do not hold, unless the
\* hart still has to execute SFENCE.VMA for the page: for every number of harts, levels,
\* tables, rows and columns, whatever stores and fences interleave with the walks, as long
\* as no two pages in use differ only in the bit that RV_TLB_VPN_MASK drops.
THEOREM TranslationsCurrent ==
    ASSUME NoAliases
    PROVE  Spec => []TranslationCurrent
<1>1. Init => CurrentInv
  BY DEF Init, CurrentInv, EntriesCurrent, WalksCurrent, TranslationCurrent
<1>2. PagingInv /\ CurrentInv /\ [Next]_vars => CurrentInv'
  BY PagingInvStep, CurrentStep
<1>3. CurrentInv => TranslationCurrent
  BY DEF CurrentInv
<1>. QED
  BY <1>1, <1>2, <1>3, PagingInductive, PTL DEF Spec
=============================================================================
