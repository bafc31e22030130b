------------------------------- MODULE Paging -------------------------------
(***************************************************************************)
(* Sv39 translation (emulator/src/cpu/rv_paging.c): the walk of the page   *)
(* tables in memory and each hart's TLB.                                   *)
(*                                                                         *)
(* The TLB is private to its hart.  The page tables are shared: a walk     *)
(* reads one PTE per step and may write back the last one to set its A and *)
(* D bits, and other harts store PTEs in between.  Each address space (ASID) *)
(* has a root table of its own.                                            *)
(***************************************************************************)
EXTENDS Integers

CONSTANTS
    Harts,
    Asids,
    Tables,          \* the physical pages that hold page tables
    Root,            \* Root[asid]: its root page table
    TopLevel,        \* 2 in Sv39
    Fanout,          \* 2^9: the PTEs of a table
    TagLimit,        \* 2^26: RV_TLB_VPN_MASK keeps this many page numbers apart
    NumRows,         \* RV_TLB_ROWS
    NumColumns,      \* RV_TLB_COLUMNS
    CounterLimit,    \* 2^8: the values of next_column
    Vpns,            \* the virtual pages that software uses
    InitialTables,   \* the PTEs at the start
    PteWrites,       \* the stores <<slot, PTE>> software makes to page tables
    MaxWrites,       \* and how many
    Accesses         \* the accesses <<mode, agent>> that are translated

VARIABLES
    memory,          \* the PTEs, by table and index
    satp,            \* satp.MODE # 0 and satp.ASID, per hart
    entries, valid, next_column,   \* tlb, per hart
    walk,            \* the lookup in progress, per hart
    result,          \* what the last lookup returned, per hart
    overrun,         \* the harts that have written past tlb.entries
    writes,          \* PTE stores so far
    dirty            \* history: the pages <<asid, vpn>> whose PTEs have changed
                     \* since the hart's last fence of them

tlb == <<entries, valid, next_column>>
vars == <<memory, satp, tlb, walk, result, overrun, writes, dirty>>

Levels == 0..TopLevel
Slots == Tables \X (0..(Fanout - 1))
Permissions == {"R", "W", "X", "U", "G"}
Columns == 0..(NumRows * NumColumns - 1)
Agents == {"user", "supervisor", "supervisor_sum"}
Modes == {"fetch", "load", "store", "amo"}

\* V, the flag bits and the PPN.
Pte == [v : BOOLEAN, bits : SUBSET (Permissions \cup {"A", "D"}), ppn : Nat]
NoPte == [v |-> FALSE, bits |-> {}, ppn |-> 0]

\* RV_PTE_RWX_MASK also has the U bit.
IsLeaf(pte) == pte.v /\ pte.bits \cap {"R", "W", "X", "U"} # {}
IsPointer(pte) == pte.v /\ ~IsLeaf(pte)

\* A pointer leads to one of the tables modelled.
PointsToTable(pte) == IsPointer(pte) => pte.ppn \in Tables

\* The pages of a leaf at a level.
Span(level) == Fanout ^ level

ASSUME PagingAssumption ==
    /\ \A asid \in Asids : Root[asid] \in Tables
    /\ {TopLevel, Fanout, TagLimit, NumRows, NumColumns, CounterLimit} \subseteq Nat
    /\ 0 \notin {Fanout, TagLimit, NumRows, NumColumns, CounterLimit}
    /\ Tables \subseteq Nat
    /\ Vpns \subseteq Nat
    /\ InitialTables \in [Slots -> Pte]
    /\ PteWrites \subseteq Slots \X Pte
    /\ \A slot \in Slots : PointsToTable(InitialTables[slot])
    /\ \A write \in PteWrites : PointsToTable(write[2])
    /\ Accesses \subseteq Modes \X Agents
    /\ MaxWrites \in Nat /\ Asids # {}
    /\ \A level \in Levels : Span(level) \in Nat \ {0}

-----------------------------------------------------------------------------
(* Page tables.                                                            *)

\* The place of a page's PTE in the table of a level.
Index(vpn, level) == (vpn \div Span(level)) % Fanout
Aligned(pte, level) == pte.ppn % Span(level) = 0

\* The leaf as it is cached: a superpage is cached page by page.
Cached(pte, vpn, level) == [pte EXCEPT !.ppn = @ + (vpn % Span(level))]

\* The bits an access of this mode needs set.
SetFlags(mode) == IF mode \in {"store", "amo"} THEN {"A", "D"} ELSE {"A"}

Needed(mode) ==
    CASE mode = "fetch" -> "X" [] mode = "load" -> "R" [] OTHER -> "W"

CheckAccess(pte, mode, agent) ==
    /\ agent = "user" => "U" \in pte.bits
    /\ agent = "supervisor" => "U" \notin pte.bits
    /\ Needed(mode) \in pte.bits

-----------------------------------------------------------------------------
(* What the page tables say, for the properties.                           *)

\* The PTE that a walk meets at a level, from those it has met above.
Met(m, asid, vpn, pte, level) ==
    IF level = TopLevel THEN m[<<Root[asid], Index(vpn, level)>>]
    ELSE IF IsPointer(pte[level + 1])
    THEN m[<<pte[level + 1].ppn, Index(vpn, level)>>]
    ELSE NoPte

\* The PTEs that a walk of m for a page meets, by level; NoPte below the leaf.
Path(m, asid, vpn) ==
    LET pte[level \in Levels] == Met(m, asid, vpn, pte, level) IN pte

\* q is p, but for A and D bits it has in addition.
SameButFlags(p, q) ==
    /\ [p EXCEPT !.bits = @ \ {"A", "D"}] = [q EXCEPT !.bits = @ \ {"A", "D"}]
    /\ p.bits \subseteq q.bits

\* The page tables hold this translation.
Current(pte, m, asid, vpn) ==
    \E level \in Levels :
      LET p == Path(m, asid, vpn)[level] IN
      IsLeaf(p) /\ SameButFlags(pte, Cached(p, vpn, level))

Pages == Asids \X Vpns

\* Every hart has to fence the pages that this step changes.
NoteChanges ==
    dirty' = [h \in Harts |-> dirty[h] \cup
               {p \in Pages : \E level \in Levels :
                  ~SameButFlags(Path(memory, p[1], p[2])[level],
                                Path(memory', p[1], p[2])[level])}]

-----------------------------------------------------------------------------
NoResult == [outcome |-> "none"]
Idle == [at |-> "idle"]
Lookup == [at : {"read", "update"}, vpn : Vpns, mode : Modes, agent : Agents,
           level : Levels, table : Tables, pte : Pte]
Result == [outcome : {"ok", "fault"}, asid : Asids, vpn : Vpns,
           mode : Modes, agent : Agents, pte : Pte]
Entry == [tag : 0..(TagLimit - 1), asid : Asids, pte : Pte]
NoEntry == [tag |-> 0, asid |-> CHOOSE asid \in Asids : TRUE, pte |-> NoPte]

TypeOK ==
    /\ memory \in [Slots -> Pte]
    /\ satp \in [Harts -> [on : BOOLEAN, asid : Asids]]
    /\ entries \in [Harts -> [Columns -> Entry]]
    /\ valid \in [Harts -> SUBSET Columns]
    /\ next_column \in [Harts -> 0..(CounterLimit - 1)]
    /\ walk \in [Harts -> Lookup \cup {Idle}]
    /\ result \in [Harts -> Result \cup {NoResult}]
    /\ overrun \subseteq Harts
    /\ writes \in 0..MaxWrites
    /\ dirty \in [Harts -> SUBSET Pages]

Init ==
    /\ memory = InitialTables
    /\ satp \in [Harts -> [on : {FALSE}, asid : {NoEntry.asid}]]
    /\ entries = [h \in Harts |-> [i \in Columns |-> NoEntry]]
    /\ valid = [h \in Harts |-> {}]
    /\ next_column = [h \in Harts |-> 0]
    /\ walk = [h \in Harts |-> Idle]
    /\ result = [h \in Harts |-> NoResult]
    /\ overrun = {}
    /\ writes = 0
    /\ dirty = [h \in Harts |-> {}]

-----------------------------------------------------------------------------
(* Lookups.                                                                *)

\* What is past an overrun of the TLB is not modelled.
Ready(h) == walk[h] = Idle /\ h \notin overrun

Tag(vpn) == vpn % TagLimit
Row(vpn) == {(vpn % NumRows) * NumColumns + col : col \in 0..(NumColumns - 1)}
First(set) == CHOOSE i \in set : \A j \in set : i <= j

\* The entries that hold a page: of this address space, or global.
Holding(h, vpn) ==
    {i \in Row(vpn) \cap valid[h] :
       /\ entries[h][i].tag = Tag(vpn)
       /\ "G" \in entries[h][i].pte.bits \/ entries[h][i].asid = satp[h].asid}

Answer(h, outcome, vpn, mode, agent, pte) ==
    result' = [result EXCEPT ![h] =
                [outcome |-> outcome, asid |-> satp[h].asid, vpn |-> vpn,
                 mode |-> mode, agent |-> agent, pte |-> pte]]

\* An entry without the D bit serves a store.
TlbHit_AnyFlags(h, vpn, mode, agent) ==
    /\ Ready(h) /\ satp[h].on
    /\ Holding(h, vpn) # {}
    /\ Answer(h, "ok", vpn, mode, agent, entries[h][First(Holding(h, vpn))].pte)
    /\ UNCHANGED <<memory, satp, tlb, walk, overrun, writes, dirty>>

\* The first entry that holds the page has the bits the access sets.
TlbHit(h, vpn, mode, agent) ==
    /\ Ready(h) /\ satp[h].on
    /\ Holding(h, vpn) # {}
    /\ LET entry == entries[h][First(Holding(h, vpn))] IN
       /\ SetFlags(mode) \subseteq entry.pte.bits
       /\ Answer(h, "ok", vpn, mode, agent, entry.pte)
    /\ UNCHANGED <<memory, satp, tlb, walk, overrun, writes, dirty>>

\* No entry holds it, or the first one lacks a bit and is dropped: a walk starts.
TlbMiss(h, vpn, mode, agent) ==
    /\ Ready(h) /\ satp[h].on
    /\ \/ /\ Holding(h, vpn) = {}
          /\ UNCHANGED valid
       \/ /\ Holding(h, vpn) # {}
          /\ LET i == First(Holding(h, vpn)) IN
             /\ ~(SetFlags(mode) \subseteq entries[h][i].pte.bits)
             /\ valid' = [valid EXCEPT ![h] = @ \ {i}]
    /\ walk' = [walk EXCEPT ![h] =
                 [at |-> "read", vpn |-> vpn, mode |-> mode, agent |-> agent,
                  level |-> TopLevel, table |-> Root[satp[h].asid], pte |-> NoPte]]
    /\ result' = [result EXCEPT ![h] = NoResult]
    /\ UNCHANGED <<memory, satp, entries, next_column, overrun, writes, dirty>>

\* The PTE that the walk w is at.
Slot(w) == <<w.table, Index(w.vpn, w.level)>>

Reading(h) == walk[h] # Idle /\ walk[h].at = "read"

\* The walk goes on below the last level.
Descend_PastLastLevel(h) ==
    /\ Reading(h)
    /\ IsPointer(memory[Slot(walk[h])])
    /\ walk' = [walk EXCEPT ![h].level = @ - 1,
                            ![h].table = memory[Slot(walk[h])].ppn]
    /\ UNCHANGED <<memory, satp, tlb, result, overrun, writes, dirty>>

\* A pointer leads to the table of the level below.
Descend(h) ==
    /\ Reading(h)
    /\ IsPointer(memory[Slot(walk[h])])
    /\ walk[h].level > 0
    /\ walk' = [walk EXCEPT ![h].level = @ - 1,
                            ![h].table = memory[Slot(walk[h])].ppn]
    /\ UNCHANGED <<memory, satp, tlb, result, overrun, writes, dirty>>

EndWalk(h, outcome, pte) ==
    /\ Answer(h, outcome, walk[h].vpn, walk[h].mode, walk[h].agent, pte)
    /\ walk' = [walk EXCEPT ![h] = Idle]

\* Nothing is mapped, the leaf is misaligned, or it denies the access.
PageFault(h) ==
    /\ Reading(h)
    /\ LET pte == memory[Slot(walk[h])] IN
       \/ ~pte.v
       \/ IsPointer(pte) /\ walk[h].level = 0
       \/ /\ IsLeaf(pte)
          /\ \/ ~Aligned(pte, walk[h].level)
             \/ ~CheckAccess(Cached(pte, walk[h].vpn, walk[h].level),
                             walk[h].mode, walk[h].agent)
    /\ EndWalk(h, "fault", NoPte)
    /\ UNCHANGED <<memory, satp, tlb, overrun, writes, dirty>>

\* A PMP entry or a missing device denies reading or writing the PTE.
AccessFault(h) ==
    /\ walk[h] # Idle
    /\ EndWalk(h, "fault", NoPte)
    /\ UNCHANGED <<memory, satp, tlb, overrun, writes, dirty>>

\* The translation is put in a free column of its row, or else replaces the
\* entry that next_column says, counted from the start of the row.
Insert(h, vpn, pte) ==
    LET free == Row(vpn) \ valid[h]
        victim == (vpn % NumRows) * NumColumns + next_column[h]
        i == IF free # {} THEN First(free) ELSE victim
        entry == [tag |-> Tag(vpn), asid |-> satp[h].asid, pte |-> pte]
    IN /\ IF i \in Columns
          THEN /\ entries' = [entries EXCEPT ![h][i] = entry]
               /\ UNCHANGED overrun
          ELSE /\ overrun' = overrun \cup {h}
               /\ UNCHANGED entries
       /\ IF free # {}
          THEN /\ valid' = [valid EXCEPT ![h] = @ \cup {i}]
               /\ UNCHANGED next_column
          ELSE /\ next_column' = [next_column EXCEPT ![h] = (@ + 1) % CounterLimit]
               /\ UNCHANGED valid

\* The leaf of the walk grants the access.
Granted(h) ==
    LET pte == memory[Slot(walk[h])] IN
    /\ IsLeaf(pte)
    /\ Aligned(pte, walk[h].level)
    /\ CheckAccess(pte, walk[h].mode, walk[h].agent)

\* The translation, once its A and D bits are set.
Finish(h, pte) ==
    LET leaf == Cached(pte, walk[h].vpn, walk[h].level) IN
    /\ Insert(h, walk[h].vpn, leaf)
    /\ EndWalk(h, "ok", leaf)

ReadLeaf(h) ==
    /\ Reading(h)
    /\ Granted(h)
    /\ SetFlags(walk[h].mode) \subseteq memory[Slot(walk[h])].bits
    /\ Finish(h, memory[Slot(walk[h])])
    /\ UNCHANGED <<memory, satp, writes, dirty>>

\* The bits are missing: the PTE with them is in a local variable.
ReadLeafToUpdate(h) ==
    /\ Reading(h)
    /\ Granted(h)
    /\ LET pte == memory[Slot(walk[h])] IN
       /\ ~(SetFlags(walk[h].mode) \subseteq pte.bits)
       /\ walk' = [walk EXCEPT ![h].at = "update",
                               ![h].pte = [pte EXCEPT !.bits =
                                            @ \cup SetFlags(walk[h].mode)]]
    /\ UNCHANGED <<memory, satp, tlb, result, overrun, writes, dirty>>

\* What is stored is the entry for the TLB, offset in the superpage included.
UpdatePte_StoresEntry(h) ==
    /\ walk[h] # Idle /\ walk[h].at = "update"
    /\ memory' = [memory EXCEPT ![Slot(walk[h])] =
                    Cached(walk[h].pte, walk[h].vpn, walk[h].level)]
    /\ Finish(h, walk[h].pte)
    /\ NoteChanges
    /\ UNCHANGED <<satp, writes>>

\* The whole PTE is stored.
UpdatePte(h) ==
    /\ walk[h] # Idle /\ walk[h].at = "update"
    /\ memory' = [memory EXCEPT ![Slot(walk[h])] = walk[h].pte]
    /\ Finish(h, walk[h].pte)
    /\ NoteChanges
    /\ UNCHANGED <<satp, writes>>

-----------------------------------------------------------------------------
(* Fences, address spaces and page tables.                                 *)

X0 == -1   \* the zero register, as an operand

\* The entries that SFENCE.VMA invalidates: those of a page, or of all of them if
\* rs1 is X0, in one address space, or in all of them if rs2 is X0.
Fenced_SkipsGlobal(h, vpn, asid) ==
    {i \in IF vpn = X0 THEN Columns ELSE Row(vpn) :
       /\ vpn # X0 => /\ entries[h][i].tag = Tag(vpn)
                       /\ "G" \notin entries[h][i].pte.bits
       /\ asid # X0 => entries[h][i].asid = asid}

Fenced(h, vpn, asid) ==
    {i \in IF vpn = X0 THEN Columns ELSE Row(vpn) :
       /\ vpn # X0 => entries[h][i].tag = Tag(vpn)
       /\ asid # X0 => entries[h][i].asid = asid}

\* While translation is off, a page has nothing to invalidate.
Sfence(h, vpn, asid) ==
    /\ Ready(h)
    /\ IF vpn # X0 /\ ~satp[h].on
       THEN UNCHANGED valid
       ELSE valid' = [valid EXCEPT ![h] = @ \ Fenced(h, vpn, asid)]
    /\ dirty' = [dirty EXCEPT ![h] =
                  {p \in @ : ~(vpn \in {X0, p[2]} /\ asid \in {X0, p[1]})}]
    /\ result' = [result EXCEPT ![h] = NoResult]
    /\ UNCHANGED <<memory, satp, entries, next_column, walk, overrun, writes>>

\* Translation is turned off without a flush.
WriteSatp_KeepsTlb(h, on, asid) ==
    /\ Ready(h)
    /\ satp' = [satp EXCEPT ![h] = [on |-> on, asid |-> asid]]
    /\ result' = [result EXCEPT ![h] = NoResult]
    /\ UNCHANGED <<memory, tlb, walk, overrun, writes, dirty>>

WriteSatp(h, on, asid) ==
    /\ Ready(h)
    /\ satp' = [satp EXCEPT ![h] = [on |-> on, asid |-> asid]]
    /\ valid' = IF on THEN valid ELSE [valid EXCEPT ![h] = {}]
    /\ result' = [result EXCEPT ![h] = NoResult]
    /\ UNCHANGED <<memory, entries, next_column, walk, overrun, writes, dirty>>

\* A store of the hart's program reaches a page table.
WritePte(h, slot, pte) ==
    /\ Ready(h)
    /\ writes < MaxWrites
    /\ writes' = writes + 1
    /\ memory' = [memory EXCEPT ![slot] = pte]
    /\ NoteChanges
    /\ result' = [result EXCEPT ![h] = NoResult]
    /\ UNCHANGED <<satp, tlb, walk, overrun>>

-----------------------------------------------------------------------------
Lookups(h) ==
    \/ \E vpn \in Vpns, acc \in Accesses :
         TlbHit(h, vpn, acc[1], acc[2]) \/ TlbMiss(h, vpn, acc[1], acc[2])
    \/ Descend(h) \/ PageFault(h) \/ AccessFault(h)
    \/ ReadLeaf(h) \/ ReadLeafToUpdate(h) \/ UpdatePte(h)

Software(h) ==
    \/ \E vpn \in Vpns \cup {X0}, asid \in Asids \cup {X0} : Sfence(h, vpn, asid)
    \/ \E on \in BOOLEAN, asid \in Asids : WriteSatp(h, on, asid)
    \/ \E write \in PteWrites : WritePte(h, write[1], write[2])

Next == \E h \in Harts : Lookups(h) \/ Software(h)

Spec == Init /\ [][Next]_vars

-----------------------------------------------------------------------------
(* Properties.                                                             *)

\* Pages that the TLB does not confuse: bit 38 of the address, which
\* RV_TLB_VPN_MASK drops, is the same in all of them.
NoAliases == \A vpn \in Vpns : vpn < TagLimit

\* A lookup that succeeds returns what the page tables of the address space (of
\* some address space, if the page is global) say, unless their PTEs have changed
\* and the hart has not executed SFENCE.VMA for the page since.
TranslationCurrent ==
    \A h \in Harts :
      (result[h] # NoResult /\ result[h].outcome = "ok") =>
        \E asid \in Asids :
          /\ asid = result[h].asid \/ "G" \in result[h].pte.bits
          /\ \/ <<asid, result[h].vpn>> \in dirty[h]
             \/ Current(result[h].pte, memory, asid, result[h].vpn)

\* A translation used for an access has the A bit set, and for a store the D bit,
\* so by TranslationCurrent the PTE in memory has them too: software never takes a
\* page that was written for a clean one.
AccessRecorded ==
    \A h \in Harts :
      (result[h] # NoResult /\ result[h].outcome = "ok") =>
        SetFlags(result[h].mode) \subseteq result[h].pte.bits

\* "Either paging is disabled and the TLB is already empty" (rv_inval_tlb).
DisabledIsEmpty == \A h \in Harts : ~satp[h].on => valid[h] = {}

\* Writing back A and D bits changes nothing else of a PTE.
PteWritesSurvive ==
    [][\A h \in Harts : walk[h] # Idle /\ walk[h].at = "update" /\ walk'[h] = Idle
         => \A slot \in Slots : SameButFlags(memory[slot], memory'[slot])]_vars

\* A lookup succeeds only for an access that the PTE grants.
AccessPermitted ==
    \A h \in Harts :
      (result[h] # NoResult /\ result[h].outcome = "ok") =>
        CheckAccess(result[h].pte, result[h].mode, result[h].agent)

\* The entry to replace is one of the TLB's.
NeverOverrun == overrun = {}
=============================================================================
