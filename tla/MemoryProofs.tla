---------------------------- MODULE MemoryProofs -----------------------------
(***************************************************************************)
(* Proofs about the accesses to physical memory (PhysMem: each byte once,  *)
(* and nothing of what reaches a hole), and about those that the harts     *)
(* make to the same words at the same time (Atomics: its types, and that   *)
(* LR, SC and the AMOs are indivisible where plain stores do not touch the *)
(* words they use).                                                        *)
(***************************************************************************)
EXTENDS PhysMem, Atomics, FiniteSetTheorems, TLAPS

\* No access but those to the RAM reaches the end of the address space, and
\* those to it end there at the latest.
NoAccessWraps ==
    /\ \A p \in Wholes : p[1] + p[2] <= AddressLimit
    /\ \A pair \in Pairs : pair[1][1] + pair[1][2] <= AddressLimit
                        /\ pair[2][1] + pair[2][2] <= AddressLimit

\* The parts of an access to two pages have no byte in common: one is at the end
\* of a page, the other at the beginning of one (rv_access_virt_pageboundary).
PiecesApart ==
    \A pair \in Pairs :
      Bytes(pair[1][1], pair[1][2]) \cap Bytes(pair[2][1], pair[2][2]) = {}

-----------------------------------------------------------------------------
(* The inductive invariant.                                                *)

\* The pieces of a request.
Requests == {<<p>> : p \in Wholes} \cup Pairs

\* What an access in progress is about.
RequestIsOne == Running => request.pieces \in Requests

\* Where it is in its piece.
Position ==
    /\ access \in [at : {"idle", "check", "commit"}, piece : Nat, addr : Nat, size : Nat]
    /\ Running =>
         /\ access.piece \in 1..Len(request.pieces)
         /\ access.size <= Piece[2]
         /\ access.size > 0 => access.addr + access.size = Piece[1] + Piece[2]

\* Bytes that this access has moved: those of the piece before, and those that
\* the committing pass has behind it.
Behind ==
    IF access.piece = 2 THEN Bytes(request.pieces[1][1], request.pieces[1][2]) ELSE {}
Passed ==
    IF access.at # "commit" THEN {}
    ELSE IF access.size = 0 THEN Bytes(Piece[1], Piece[2])
    ELSE Bytes(Piece[1], access.addr - Piece[1])

\* No byte has been moved twice, and none that is still to come.
Moved ==
    /\ touched \in [Mapped -> 0..1]
    /\ Running => \A a \in Mapped : touched[a] = 1 => a \in Behind \cup Passed

OnceInductive == RequestIsOne /\ Position /\ Moved

-----------------------------------------------------------------------------
(* Lemmas.                                                                 *)

\* A request has one piece or two; they fit and are apart.
LEMMA RequestShape ==
    ASSUME NoAccessWraps, PiecesApart, NEW r \in Requests
    PROVE  /\ Len(r) \in 1..2
           /\ \A i \in 1..Len(r) :
                /\ r[i][1] \in Nat /\ r[i][2] \in Nat
                /\ r[i][1] + r[i][2] <= AddressLimit
           /\ Len(r) = 2 => Bytes(r[1][1], r[1][2]) \cap Bytes(r[2][1], r[2][2]) = {}
<1>1. CASE r \in Pairs
  <2>1. r \in (Nat \X Nat) \X (Nat \X Nat)
    BY <1>1, PhysMemAssumption
  <2>2. Len(r) = 2
    BY <2>1
  <2>3. r[1] \in Nat \X Nat /\ r[2] \in Nat \X Nat
    BY <2>1
  <2>. QED
    BY <1>1, <2>2, <2>3 DEF NoAccessWraps, PiecesApart
<1>2. CASE r \in {<<p>> : p \in Wholes}
  <2>1. PICK p \in Wholes : r = <<p>>
    BY <1>2
  <2>2. p \in Nat \X Nat
    BY PhysMemAssumption
  <2>3. Len(r) = 1 /\ r[1] = p
    BY <2>1
  <2>. QED
    BY <2>2, <2>3 DEF NoAccessWraps
<1>. QED
  BY <1>1, <1>2 DEF Requests

\* A set of natural numbers has a least element: the sets of the elements below each of
\* its elements are finite, and strict inclusion among finite sets is well-founded.
LEMMA MinExists ==
    ASSUME NEW S \in SUBSET Nat, S # {}
    PROVE  \E x \in S : \A y \in S : x <= y
<1> DEFINE Below(x) == {y \in S : y < x}
           T == {Below(x) : x \in S}
<1>1. T \subseteq FiniteSubsetsOf(S)
  <2> SUFFICES ASSUME NEW x \in S PROVE Below(x) \in SUBSET S /\ IsFiniteSet(Below(x))
    BY DEF FiniteSubsetsOf
  <2>1. x \in Nat
    OBVIOUS
  <2>2. \A y \in Below(x) : y \in Nat /\ y <= x
    OBVIOUS
  <2>3. Below(x) \in SUBSET Nat
    BY <2>2
  <2>. QED
    BY <2>1, <2>2, <2>3, FS_BoundedSetOfNaturals
<1>2. T # {}
  OBVIOUS
<1>3. IsWellFoundedOn(StrictSubsetOrdering(S), FiniteSubsetsOf(S))
  BY FS_StrictSubsetOrderingWellFounded
<1>4. PICK t \in T : \A u \in T : <<u, t>> \notin StrictSubsetOrdering(S)
  <2> HIDE DEF T
  <2>. QED
    BY <1>1, <1>2, <1>3, WFMin
<1>5. PICK x \in S : t = Below(x)
  BY <1>4
<1>6. ASSUME NEW y \in S, y < x PROVE FALSE
  <2>0. x \in Nat /\ y \in Nat
    OBVIOUS
  <2>1. /\ \A z \in S : z < y => z < x
        /\ ~(y < y)
    BY <1>6, <2>0
  <2>3. y \in Below(x) /\ y \notin Below(y)
    BY <1>6, <2>1
  <2>4. Below(y) \subseteq Below(x)
    BY <2>1
  <2>2. <<Below(y), Below(x)>> \in StrictSubsetOrdering(S)
    BY <2>3, <2>4 DEF StrictSubsetOrdering
  <2>. QED
    BY <1>4, <1>5, <2>2
<1>. QED
  BY <1>6

\* The first of the regions at an address is one of them.
LEMMA FirstRegion ==
    ASSUME NEW S \in SUBSET Nat, S # {}
    PROVE  Min(S) \in S
BY MinExists DEF Min

LEMMA RegionShape ==
    ASSUME NEW i \in DOMAIN Regions
    PROVE  Regions[i].base \in Nat /\ Regions[i].size \in Nat
<1> DEFINE Places == [base : Nat, size : Nat]
<1>1. Regions \in Seq(Places)
  BY PhysMemAssumption
<1>. HIDE DEF Places
<1>2. Regions[i] \in Places
  BY <1>1
<1>. QED
  BY <1>2 DEF Places

\* What is mapped: what the loop looks for.
LEMMA MappedHere == Unmapped <=> access.addr \notin Mapped
BY DEF Unmapped, AtRam, RegionsHere, Mapped

\* The RAM or the region at an address reaches from there to the end.
LEMMA EndHere ==
    ASSUME access.addr \in Nat, ~Unmapped
    PROVE  /\ End \in Nat /\ access.addr < End
           /\ Bytes(access.addr, End - access.addr) \subseteq Mapped
<1>1. CASE AtRam
  BY <1>1, PhysMemAssumption DEF AtRam, End, Ram, Bytes, Mapped
<1>2. CASE ~AtRam
  <2>1. RegionsHere # {} /\ RegionsHere \in SUBSET Nat
    BY <1>2, PhysMemAssumption DEF Unmapped, RegionsHere
  <2>2. Min(RegionsHere) \in RegionsHere
    BY <2>1, FirstRegion
  <2>3. PICK i \in DOMAIN Regions : i = Min(RegionsHere) /\ access.addr \in RegionOf(i)
    BY <2>2 DEF RegionsHere
  <2>4. Regions[i].base \in Nat /\ Regions[i].size \in Nat
    BY RegionShape
  <2>5. End = Regions[i].base + Regions[i].size
    BY <1>2, <2>3 DEF End
  <2>6. End \in Nat /\ Regions[i].base <= access.addr /\ access.addr < End
    BY <2>3, <2>4, <2>5 DEF RegionOf
  <2>7. Bytes(access.addr, End - access.addr) \subseteq RegionOf(i)
    BY <2>4, <2>5, <2>6 DEF RegionOf, Bytes
  <2>8. RegionOf(i) \subseteq Mapped
    BY DEF Mapped
  <2>. QED
    BY <2>6, <2>7, <2>8
<1>. QED
  BY <1>1, <1>2

\* An iteration takes some of what is left, and no more.
LEMMA PartFits ==
    ASSUME RequestIsOne, Position, Left, ~Unmapped
    PROVE  Part \in Nat /\ Part <= access.size
<1>1. access.addr \in Nat /\ access.size \in Nat
  BY DEF Position
<1>. QED
  BY <1>1, EndHere DEF Part

\* An access that has returned.
LEMMA Ended ==
    ASSUME access' = Idle, touched' \in [Mapped -> 0..1]
    PROVE  OnceInductive'
BY DEF OnceInductive, RequestIsOne, Position, Moved, Running, Idle

\* An access that begins its first pass.
LEMMA Begun ==
    ASSUME NoAccessWraps, PiecesApart, NEW r \in Requests,
           request'.pieces = r, BeginPass(FirstPass, 1, r[1]), touched' = Nowhere
    PROVE  OnceInductive'
<1>1. access' = [at |-> "check", piece |-> 1, addr |-> r[1][1], size |-> r[1][2]]
  BY DEF BeginPass, FirstPass
<1>2. /\ Len(r) \in 1..2
      /\ r[1][1] \in Nat /\ r[1][2] \in Nat
  BY RequestShape
<1>3. RequestIsOne'
  BY DEF RequestIsOne
<1>4. Piece' = r[1]
  BY <1>1 DEF Piece
<1>5. Position'
  BY <1>1, <1>2, <1>4 DEF Position
<1>6. Moved'
  BY DEF Moved, Nowhere
<1>. QED
  BY <1>3, <1>5, <1>6 DEF OnceInductive

\* An iteration stays in its piece.
LEMMA AdvanceInPiece ==
    ASSUME NoAccessWraps, PiecesApart, RequestIsOne, Position,
           Left, ~Unmapped, Advance, UNCHANGED request
    PROVE  /\ RequestIsOne' /\ Position'
           /\ access'.at = access.at /\ access'.piece = access.piece
           /\ access'.size = access.size - Part
           /\ access'.size > 0 => access'.addr = access.addr + Part
<1>1. Part \in Nat /\ Part <= access.size
  BY PartFits
<1>2. access \in [at : {"idle", "check", "commit"}, piece : Nat, addr : Nat, size : Nat]
  BY DEF Position
<1>3. /\ access'.at = access.at /\ access'.piece = access.piece
      /\ access'.size = access.size - Part
      /\ access'.addr = (access.addr + Part) % AddressLimit
  BY <1>2 DEF Advance, Wrap
<1>4. /\ access.addr + access.size = Piece[1] + Piece[2]
      /\ Piece[1] \in Nat /\ Piece[2] \in Nat /\ Piece[1] + Piece[2] <= AddressLimit
      /\ access.size <= Piece[2] /\ access.size > 0
      /\ access.piece \in 1..Len(request.pieces) /\ request.pieces \in Requests
  <2>1. Running /\ access.size > 0
    BY DEF Left
  <2>2. request.pieces \in Requests /\ access.piece \in 1..Len(request.pieces)
    BY <2>1 DEF RequestIsOne, Position
  <2>. QED
    BY <2>1, <2>2, RequestShape DEF Position, Piece
<1>5. access'.addr \in Nat /\ (access'.size > 0 => access'.addr = access.addr + Part)
  <2> DEFINE next == access.addr + Part
  <2>1. next \in Nat /\ AddressLimit \in Nat \ {0}
    BY <1>1, <1>2, PhysMemAssumption
  <2>2. access'.size > 0 => next < AddressLimit
    BY <1>1, <1>2, <1>3, <1>4, PhysMemAssumption
  <2>3. access'.addr = next % AddressLimit
    BY <1>3
  <2>. HIDE DEF next
  <2>4. next % AddressLimit \in Nat /\ (next < AddressLimit => next % AddressLimit = next)
    BY <2>1
  <2>5. access'.addr \in Nat /\ (access'.size > 0 => access'.addr = next)
    BY <2>2, <2>3, <2>4
  <2>. QED
    BY <2>5 DEF next
<1>6. access' \in [at : {"idle", "check", "commit"}, piece : Nat, addr : Nat, size : Nat]
  <2>1. access' = [access EXCEPT !.addr = access'.addr, !.size = access'.size]
    BY <1>2 DEF Advance
  <2>2. access'.size \in Nat /\ access'.addr \in Nat
    BY <1>1, <1>2, <1>3, <1>5
  <2>. QED
    BY <1>2, <2>1, <2>2
<1>7. Piece' = Piece
  BY <1>3 DEF Piece
<1>8. RequestIsOne'
  BY <1>4 DEF RequestIsOne
<1>9. Position'
  BY <1>1, <1>2, <1>3, <1>4, <1>5, <1>6, <1>7 DEF Position
<1>. QED
  BY <1>3, <1>5, <1>8, <1>9

\* The bytes of an iteration of the second pass are new.
LEMMA CommitMoves ==
    ASSUME NoAccessWraps, PiecesApart, RequestIsOne, Position, Moved, access.at = "commit",
           Left, ~Unmapped, Advance, UNCHANGED request, Touch(touched, access.addr, Part)
    PROVE  Moved'
<1>1. /\ Part \in Nat /\ Part <= access.size
      /\ access'.at = "commit" /\ access'.piece = access.piece
      /\ access'.size = access.size - Part
      /\ access'.size > 0 => access'.addr = access.addr + Part
  BY PartFits, AdvanceInPiece
<1>2. access.addr \in Nat /\ access.size \in Nat /\ access.size > 0 /\ Running
  BY DEF Position, Left
<1>3. request.pieces \in Requests /\ access.piece \in 1..Len(request.pieces)
  BY <1>2 DEF RequestIsOne, Position
<1>4. /\ access.addr + access.size = Piece[1] + Piece[2] /\ access.size <= Piece[2]
      /\ Piece[1] \in Nat /\ Piece[2] \in Nat
  BY <1>2, <1>3, RequestShape DEF Position, Piece
<1>5. Piece' = Piece /\ Behind' = Behind
  BY <1>1 DEF Piece, Behind
<1>6. Behind \cap Bytes(Piece[1], Piece[2]) = {}
  <2> DEFINE n == Len(request.pieces)
             k == access.piece
  <2>1. n \in 1..2 /\ k \in 1..n
    BY <1>3, RequestShape
  <2>2. k = 2 => n = 2
    <3>. HIDE DEF n, k
    <3>. QED
      BY <2>1
  <2>3. k = 2 => Bytes(request.pieces[1][1], request.pieces[1][2]) \cap Bytes(Piece[1], Piece[2]) = {}
    BY <1>3, <2>2, RequestShape DEF Piece
  <2>. QED
    BY <2>3 DEF Behind
<1> DEFINE Now == Bytes(access.addr, Part)
<1>7. Now \subseteq Bytes(Piece[1], Piece[2])
  BY <1>1, <1>2, <1>4 DEF Bytes
<1>8. Now \cap Passed = {}
  BY <1>1, <1>2, <1>4 DEF Bytes, Passed
<1>9. Passed \cup Now \subseteq Passed'
  BY <1>1, <1>2, <1>4, <1>5 DEF Bytes, Passed
<1>10. \A a \in Mapped : a \in Now => touched[a] = 0
  BY <1>2, <1>6, <1>7, <1>8 DEF Moved
<1>11. touched' \in [Mapped -> 0..1]
  BY <1>10 DEF Touch, Moved
<1>12. \A a \in Mapped : touched'[a] = 1 => a \in Now \/ touched[a] = 1
  BY DEF Touch, Moved
<1>. QED
  BY <1>2, <1>5, <1>9, <1>11, <1>12 DEF Moved

-----------------------------------------------------------------------------
(* The steps.                                                              *)

\* Every action keeps the invariant.
LEMMA OnceStep ==
    ASSUME NoAccessWraps, PiecesApart, OnceInductive, [PhysMemNext]_physMemVars
    PROVE  OnceInductive'
<1>. USE DEF OnceInductive
<1>1. CASE Begin
  <2>1. ASSUME NEW mode \in {"load", "store"}, NEW p \in Wholes,
               Denied(mode, p) \/ DirectRam(mode, p) \/ AlignedMmio(mode, p)
        PROVE  OnceInductive'
    <3>1. access' = Idle
      BY <2>1 DEF Denied, DirectRam, AlignedMmio, MoveAll, Return
    <3>2. touched' = Nowhere \/ Touch(Nowhere, p[1], p[2])
      BY <2>1 DEF Denied, DirectRam, AlignedMmio, MoveAll, MoveNone
    <3>3. touched' \in [Mapped -> 0..1]
      BY <3>2 DEF Nowhere, Touch
    <3>. QED
      BY <3>1, <3>3, Ended
  <2>2. ASSUME NEW mode \in {"load", "store"}, NEW p \in Wholes, Misaligned(mode, p)
        PROVE  OnceInductive'
    <3>1. /\ <<p>> \in Requests
          /\ request'.pieces = <<p>>
          /\ BeginPass(FirstPass, 1, <<p>>[1])
          /\ touched' = Nowhere
      BY <2>2 DEF Misaligned, Call, MoveNone, Requests
    <3>. QED
      BY <3>1, Begun
  <2>3. ASSUME NEW mode \in {"load", "store"}, NEW pair \in Pairs, TwoPages(mode, pair)
        PROVE  OnceInductive'
    <3>1. /\ pair \in Requests
          /\ request'.pieces = pair
          /\ BeginPass(FirstPass, 1, pair[1])
          /\ touched' = Nowhere
      BY <2>3 DEF TwoPages, Call, MoveNone, Requests
    <3>. QED
      BY <3>1, Begun
  <2>. QED
    BY <1>1, <2>1, <2>2, <2>3 DEF Begin
<1>2. CASE Continue
  <2>. USE <1>2
  <2>0. UNCHANGED request
    BY DEF Continue
  <2>1. CASE NothingHere \/ RefusedPart \/ Complete
    <3>1. access' = Idle /\ UNCHANGED touched
      BY <2>1 DEF NothingHere, RefusedPart, Complete, Return, Untouched
    <3>. QED
      BY <3>1, Ended DEF Moved
  <2>2. CASE CheckPart
    <3>1. access.at = "check" /\ Left /\ ~Unmapped /\ Advance /\ UNCHANGED touched
      BY <2>2 DEF CheckPart, Untouched
    <3>2. RequestIsOne' /\ Position'
      BY <2>0, <3>1, AdvanceInPiece
    <3>3. Moved'
      BY <2>0, <3>1, AdvanceInPiece DEF Moved, Behind, Passed, Running, Piece, Left
    <3>. QED
      BY <3>2, <3>3
  <2>3. CASE CommitPart
    <3>1. /\ access.at = "commit" /\ Left /\ ~Unmapped /\ Advance
          /\ Touch(touched, access.addr, Part)
      BY <2>3 DEF CommitPart
    <3>2. RequestIsOne' /\ Position'
      BY <2>0, <3>1, AdvanceInPiece
    <3>3. Moved'
      BY <2>0, <3>1, CommitMoves
    <3>. QED
      BY <3>2, <3>3
  <2>4. CASE SecondPass
    <3>1. /\ access' = [at |-> "commit", piece |-> access.piece,
                         addr |-> Piece[1], size |-> Piece[2]]
          /\ Running /\ access.at = "check" /\ UNCHANGED touched
      BY <2>4 DEF SecondPass, BeginPass, Untouched, Running
    <3>2. request.pieces \in Requests /\ access.piece \in 1..Len(request.pieces)
      BY <3>1 DEF RequestIsOne, Position
    <3>3. Piece[1] \in Nat /\ Piece[2] \in Nat /\ access.piece \in Nat
      BY <3>2, RequestShape DEF Piece, Position
    <3>4. Piece' = Piece /\ Behind' = Behind
      BY <2>0, <3>1 DEF Piece, Behind
    <3>5. RequestIsOne'
      BY <2>0, <3>2 DEF RequestIsOne
    <3>6. Position'
      BY <2>0, <3>1, <3>2, <3>3, <3>4 DEF Position
    <3>7. Moved'
      BY <3>1, <3>4 DEF Moved, Passed
    <3>. QED
      BY <3>5, <3>6, <3>7
  <2>5. CASE NextPiece
    <3> DEFINE next == request.pieces[2]
    <3>1. /\ access.at = "commit" /\ Running /\ access.size = 0 /\ UNCHANGED touched
          /\ access.piece < Len(request.pieces)
      BY <2>5 DEF NextPiece, Untouched, Running
    <3>2. request.pieces \in Requests /\ access.piece \in 1..Len(request.pieces)
      BY <3>1 DEF RequestIsOne, Position
    <3>3. /\ access.piece = 1 /\ Len(request.pieces) = 2
          /\ next[1] \in Nat /\ next[2] \in Nat
      <4> DEFINE n == Len(request.pieces)
                 k == access.piece
      <4>1. n \in 1..2 /\ k \in 1..n /\ k < n
        BY <3>1, <3>2, RequestShape
      <4>2. k = 1 /\ n = 2
        <5>. HIDE DEF n, k
        <5>. QED
          BY <4>1
      <4>. QED
        BY <3>2, <4>2, RequestShape
    <3>4. access' = [at |-> "check", piece |-> 2, addr |-> next[1], size |-> next[2]]
      BY <2>5, <3>3 DEF NextPiece, BeginPass, FirstPass
    <3>5. Piece' = next /\ Behind' = Passed /\ Behind = {}
      BY <2>0, <3>1, <3>3, <3>4 DEF Piece, Behind, Passed
    <3>6. RequestIsOne'
      BY <2>0, <3>2 DEF RequestIsOne
    <3>7. Position'
      BY <2>0, <3>3, <3>4, <3>5 DEF Position
    <3>8. Moved'
      BY <3>1, <3>5 DEF Moved
    <3>. QED
      BY <3>6, <3>7, <3>8
  <2>. QED
    BY <2>1, <2>2, <2>3, <2>4, <2>5 DEF Continue
<1>3. CASE UNCHANGED physMemVars
  BY <1>3 DEF physMemVars, RequestIsOne, Position, Moved, Behind, Passed, Running, Piece
<1>. QED
  BY <1>1, <1>2, <1>3 DEF PhysMemNext

THEOREM OnceInvariant ==
    ASSUME NoAccessWraps, PiecesApart
    PROVE  PhysMemSpec => []OnceInductive
<1>1. PhysMemInit => OnceInductive
  BY DEF PhysMemInit, OnceInductive, RequestIsOne, Position, Moved, Running, Idle
<1>. QED
  BY <1>1, OnceStep, PTL DEF PhysMemSpec

\* A device register is read or written once for an access, in one of the two
\* passes over one of its parts, however they are cut (misaligned_access), for every
\* map of devices.
THEOREM MovedOnce ==
    ASSUME NoAccessWraps, PiecesApart
    PROVE  PhysMemSpec => []EachByteOnce
<1>1. OnceInductive => EachByteOnce
  BY DEF OnceInductive, Moved, EachByteOnce
<1>. QED
  BY <1>1, OnceInvariant, PTL

-----------------------------------------------------------------------------
(* What reaches a hole.                                                    *)

OnePage == Len(request.pieces) = 1
Reaches(p) == Bytes(p[1], p[2])

\* What the first pass has looked at.
Seen ==
    IF access.at = "check" /\ access.size > 0 THEN Bytes(Piece[1], access.addr - Piece[1])
    ELSE Reaches(Piece)

\* Nothing is moved in the first pass, and what it has behind it is mapped.
Looked ==
    Running /\ OnePage =>
      /\ Seen \subseteq Mapped
      /\ access.at = "check" => memory = before /\ touched = Nowhere

HolesInductive == Looked /\ HolesUntouched

\* Calls that return at once.
LEMMA AtOnce ==
    ASSUME NEW mode, NEW p \in Wholes,
           Denied(mode, p) \/ DirectRam(mode, p) \/ AlignedMmio(mode, p)
    PROVE  HolesInductive'
<1>1. access' = Idle /\ before' = memory /\ request'.pieces = <<p>>
  BY DEF Denied, DirectRam, AlignedMmio, MoveAll, Return, Call
<1>2. \/ Reaches(p) \subseteq Mapped
      \/ /\ memory' = memory /\ touched' = Nowhere
         /\ outcome' \in {"fault", "outside"}
  <2>1. CASE Denied(mode, p)
    BY <2>1 DEF Denied, MoveNone, Return
  <2>2. CASE DirectRam(mode, p)
    <3>1. Ram \subseteq Mapped
      BY DEF Mapped
    <3>. QED
      BY <2>2, <3>1 DEF DirectRam, MoveNone, Return, Reaches
  <2>3. CASE AlignedMmio(mode, p)
    <3>1. \A i \in DOMAIN Regions : RegionOf(i) \subseteq Mapped
      BY DEF Mapped
    <3>2. CASE \E i \in DOMAIN Regions : Bytes(p[1], p[2]) \subseteq RegionOf(i)
      BY <3>1, <3>2 DEF Reaches
    <3>3. CASE ~ \E i \in DOMAIN Regions : Bytes(p[1], p[2]) \subseteq RegionOf(i)
      BY <2>3, <3>3 DEF AlignedMmio, MoveNone, Return
    <3>. QED
      BY <3>2, <3>3
  <2>. QED
    BY <2>1, <2>2, <2>3
<1>3. Looked'
  BY <1>1 DEF Looked, Running, Idle
<1>4. HolesUntouched'
  BY <1>1, <1>2 DEF HolesUntouched, Reaches, Nowhere
<1>. QED
  BY <1>3, <1>4 DEF HolesInductive

\* Calls that begin a first pass.
LEMMA LooksFirst ==
    ASSUME NoAccessWraps, PiecesApart, NEW mode, NEW r \in Requests,
           Call(mode, r), BeginPass(FirstPass, 1, r[1]), MoveNone(mode), outcome' = "none"
    PROVE  HolesInductive'
<1>1. /\ access' = [at |-> "check", piece |-> 1, addr |-> r[1][1], size |-> r[1][2]]
      /\ request'.pieces = r /\ before' = memory
      /\ memory' = memory /\ touched' = Nowhere /\ outcome' = "none"
  BY DEF Call, BeginPass, FirstPass, MoveNone
<1>2. Len(r) \in 1..2 /\ r[1][1] \in Nat /\ r[1][2] \in Nat
  BY RequestShape
<1>3. Piece' = r[1]
  BY <1>1 DEF Piece
<1>4. Seen' = {}
  BY <1>1, <1>2, <1>3 DEF Seen, Reaches, Bytes
<1>5. Looked'
  BY <1>1, <1>4 DEF Looked, Nowhere
<1>6. HolesUntouched'
  BY <1>1 DEF HolesUntouched, Nowhere
<1>. QED
  BY <1>5, <1>6 DEF HolesInductive

\* Every action keeps it: one that moves bytes comes after all were looked at.
LEMMA HolesStep ==
    ASSUME NoAccessWraps, PiecesApart, OnceInductive, HolesInductive,
           [PhysMemNext]_physMemVars
    PROVE  HolesInductive'
<1>1. CASE Begin
  <2>1. ASSUME NEW mode, NEW p \in Wholes, Misaligned(mode, p)
        PROVE  HolesInductive'
    <3>1. <<p>> \in Requests /\ <<p>>[1] = p
      BY DEF Requests
    <3>. QED
      BY <2>1, <3>1, LooksFirst DEF Misaligned
  <2>2. ASSUME NEW mode, NEW pair \in Pairs, TwoPages(mode, pair)
        PROVE  HolesInductive'
    <3>1. pair \in Requests
      BY DEF Requests
    <3>. QED
      BY <2>2, <3>1, LooksFirst DEF TwoPages
  <2>. QED
    BY <1>1, <2>1, <2>2, AtOnce DEF Begin
<1>2. CASE Continue
  <2>1. UNCHANGED <<request, before>> /\ OnePage' = OnePage
    BY <1>2 DEF Continue, OnePage
  <2>2. CASE ~OnePage
    BY <2>1, <2>2 DEF HolesInductive, Looked, HolesUntouched, OnePage
  <2>3. CASE OnePage
    <3>1. Running
      BY <1>2 DEF Continue, NothingHere, CheckPart, CommitPart, RefusedPart, SecondPass,
                  NextPiece, Complete, Left, Running
    <3>2. /\ access.piece = 1 /\ Piece = request.pieces[1] /\ request.pieces \in Requests
          /\ access.at \in {"check", "commit"}
      BY <2>3, <3>1 DEF OnceInductive, RequestIsOne, Position, Piece, OnePage, Running
    <3>3. /\ Seen \subseteq Mapped
          /\ access.at = "check" => memory = before /\ touched = Nowhere
      BY <2>3, <3>1 DEF HolesInductive, Looked
    <3>4. CASE access.at = "commit"
      <4>1. Reaches(Piece) \subseteq Mapped
        BY <3>3, <3>4 DEF Seen
      <4>2. HolesUntouched'
        BY <2>1, <3>2, <4>1 DEF HolesUntouched, Reaches
      <4>3. Running' => access'.at = "commit" /\ access'.piece = 1
        <5>1. CASE CommitPart
          BY <3>2, <3>4, <5>1 DEF CommitPart, Advance, OnceInductive, Position
        <5>2. CASE NothingHere \/ RefusedPart \/ Complete
          BY <5>2 DEF NothingHere, RefusedPart, Complete, Return, Running, Idle
        <5>3. ~NextPiece
          BY <2>3, <3>2 DEF NextPiece, OnePage
        <5>. QED
          BY <1>2, <3>4, <5>1, <5>2, <5>3 DEF Continue, CheckPart, SecondPass
      <4>4. Looked'
        BY <2>1, <3>2, <4>1, <4>3 DEF Looked, Seen, Reaches, Piece
      <4>. QED
        BY <4>2, <4>4 DEF HolesInductive
    <3>5. CASE access.at = "check" /\ access.size = 0
      <4>1. SecondPass
        BY <1>2, <3>5 DEF Continue, NothingHere, CheckPart, CommitPart, RefusedPart,
                          NextPiece, Complete, Left
      <4>2. Reaches(Piece) \subseteq Mapped
        BY <3>3, <3>5 DEF Seen
      <4>3. access'.at = "commit" /\ access'.piece = 1
        BY <3>2, <4>1 DEF SecondPass, BeginPass
      <4>4. Looked'
        BY <2>1, <3>2, <4>2, <4>3 DEF Looked, Seen, Reaches, Piece
      <4>5. HolesUntouched'
        BY <2>1, <3>2, <4>2 DEF HolesUntouched, Reaches
      <4>. QED
        BY <4>4, <4>5 DEF HolesInductive
    <3>6. CASE access.at = "check" /\ access.size > 0
      <4>1. CASE NothingHere
        <5>1. /\ access' = Idle /\ outcome' = "fault"
              /\ memory' = before' /\ touched' = Nowhere
          BY <2>1, <3>3, <3>6, <4>1 DEF NothingHere, Return, Untouched
        <5>2. Looked' /\ HolesUntouched'
          BY <5>1 DEF Looked, HolesUntouched, Running, Idle, Nowhere
        <5>. QED
          BY <5>2 DEF HolesInductive
      <4>2. CASE CheckPart
        <5>1. /\ Left /\ ~Unmapped /\ Advance
              /\ UNCHANGED <<memory, touched, outcome>>
          BY <4>2 DEF CheckPart, Untouched
        <5>2. /\ Part \in Nat /\ Part <= access.size
              /\ access'.at = "check" /\ access'.piece = 1
              /\ access'.size = access.size - Part
              /\ access'.size > 0 => access'.addr = access.addr + Part
              /\ Position'
          BY <2>1, <3>2, <3>6, <5>1, PartFits, AdvanceInPiece DEF OnceInductive
        <5>3. /\ access.addr \in Nat /\ access.size \in Nat
              /\ access.addr + access.size = Piece[1] + Piece[2] /\ access.size <= Piece[2]
              /\ Piece[1] \in Nat /\ Piece[2] \in Nat
          BY <3>1, <3>2, <3>6, RequestShape DEF OnceInductive, Position, Piece
        <5>4. Piece' = Piece
          BY <2>1, <3>2, <5>2 DEF Piece
        <5>5. Bytes(access.addr, Part) \subseteq Mapped
          <6>1. End \in Nat /\ Bytes(access.addr, End - access.addr) \subseteq Mapped
            BY <5>1, <5>3, EndHere
          <6>2. Part <= End - access.addr
            BY <5>3, <6>1 DEF Part
          <6>3. Bytes(access.addr, Part) \subseteq Bytes(access.addr, End - access.addr)
            BY <5>2, <5>3, <6>1, <6>2 DEF Bytes
          <6>. QED
            BY <6>1, <6>3
        <5>6. Bytes(Piece[1], access.addr - Piece[1]) \subseteq Mapped
          BY <3>3, <3>6 DEF Seen
        <5>7. Seen' \subseteq
                Bytes(Piece[1], access.addr - Piece[1]) \cup Bytes(access.addr, Part)
          <6> DEFINE done == access.addr - Piece[1]
          <6>1. /\ done \in Nat
                /\ access.addr = Piece[1] + done
                /\ access'.size = 0 => done + Part = Piece[2]
            BY <5>2, <5>3
          <6>2. Seen' = Bytes(Piece[1], done + Part)
            <7>1. CASE access'.size > 0
              <8>1. access'.addr - Piece[1] = done + Part
                BY <5>2, <5>3, <7>1
              <8>2. Seen' = Bytes(Piece[1], access'.addr - Piece[1])
                BY <5>2, <5>4, <7>1 DEF Seen, Bytes
              <8>. QED
                BY <8>1, <8>2
            <7>2. CASE access'.size = 0
              <8>1. Seen' = Bytes(Piece[1], Piece[2])
                BY <5>4, <7>2 DEF Seen, Reaches, Bytes
              <8>. QED
                BY <6>1, <7>2, <8>1
            <7>. QED
              BY <5>2, <5>3, <7>1, <7>2
          <6>. HIDE DEF done
          <6>3. Bytes(Piece[1], done + Part)
                  = Bytes(Piece[1], done) \cup Bytes(access.addr, Part)
            BY <5>2, <5>3, <6>1 DEF Bytes
          <6>. QED
            BY <6>2, <6>3 DEF done
        <5>8. Looked'
          BY <2>1, <3>3, <3>6, <5>1, <5>5, <5>6, <5>7 DEF Looked, Nowhere
        <5>9. HolesUntouched'
          BY <2>1, <5>1 DEF HolesInductive, HolesUntouched, Nowhere
        <5>. QED
          BY <5>8, <5>9 DEF HolesInductive
      <4>. QED
        BY <1>2, <3>6, <4>1, <4>2
           DEF Continue, CommitPart, RefusedPart, SecondPass, NextPiece, Complete
    <3>7. access.size \in Nat
      BY DEF OnceInductive, Position
    <3>. QED
      BY <3>2, <3>4, <3>5, <3>6, <3>7
  <2>. QED
    BY <2>2, <2>3
<1>3. CASE UNCHANGED physMemVars
  BY <1>3 DEF physMemVars, HolesInductive, Looked, HolesUntouched, Seen, Reaches, Running,
              OnePage, Piece, Nowhere
<1>. QED
  BY <1>1, <1>2, <1>3 DEF PhysMemNext

\* An access to one page that reaches a hole fails and moves nothing, wherever RAM,
\* devices and holes are, whether or not they meet or hide each other, and whatever
\* the devices refuse: the second pass of misaligned_access never finds a hole that
\* the first did not.
THEOREM FaultsAreClean ==
    ASSUME NoAccessWraps, PiecesApart
    PROVE  PhysMemSpec => []HolesUntouched
<1>1. PhysMemInit => HolesInductive
  BY DEF PhysMemInit, HolesInductive, Looked, HolesUntouched, Running, Idle
<1>2. HolesInductive => HolesUntouched
  BY DEF HolesInductive
<1>. QED
  BY <1>1, <1>2, HolesStep, OnceInvariant, PTL DEF PhysMemSpec

-----------------------------------------------------------------------------
(* Atomic accesses *)

USE AtomicsAssumption

\* An access the machine makes atomically.
IsAccess(acc) ==
    /\ acc \in M!Addresses \X BOOLEAN
    /\ acc[2] => acc[1] + 1 \in M!Addresses

-----------------------------------------------------------------------------
(* The values of accesses.                                                 *)

LEMMA Constants ==
    /\ Base \in Nat
    /\ Base > 1
    /\ Base * Base \in Nat
    /\ Base * Base >= Base
<1>1. Base \in Nat /\ Base > 1
  BY DEF M!MemoryAssumption
<1>2. \A n \in Nat : n > 0 => n * n \in Nat /\ n * n >= n
  OBVIOUS
<1> QED BY <1>1, <1>2

\* A pair of words is a value of twice the width.
LEMMA PairBelow ==
    ASSUME NEW lo \in M!Words, NEW hi \in M!Words
    PROVE  lo + Base * hi \in M!DoubleWords
<1>1. lo \in Int /\ hi \in Int /\ 0 <= lo /\ lo <= Base - 1 /\ 0 <= hi /\ hi <= Base - 1
  BY Constants DEF M!Words
<1>2. \A b, l, k \in Int : /\ b > 0
                           /\ 0 <= l /\ l <= b - 1
                           /\ 0 <= k /\ k <= b - 1
                           => /\ l + b * k \in Int
                              /\ 0 <= l + b * k
                              /\ l + b * k <= b * b - 1
  <2> SUFFICES ASSUME NEW b \in Int, NEW l \in Int, NEW k \in Int,
                      b > 0, 0 <= l, l <= b - 1, 0 <= k, k <= b - 1
               PROVE  /\ l + b * k \in Int
                      /\ 0 <= l + b * k
                      /\ l + b * k <= b * b - 1
    OBVIOUS
  <2>1. b * k \in Int /\ b * b \in Int
    OBVIOUS
  <2>2. b * k >= 0
    OBVIOUS
  <2>3. b * (b - 1 - k) >= 0
    OBVIOUS
  <2>4. b * (b - 1 - k) = b * b - b - b * k
    OBVIOUS
  <2> QED BY <2>1, <2>2, <2>3, <2>4
<1> QED BY <1>1, <1>2, Constants DEF M!DoubleWords

LEMMA ReadInRange ==
    ASSUME NEW m \in [M!Addresses -> M!Words],
           NEW a, NEW w, IsAccess(<<a, w>>)
    PROVE  /\ M!Read(m, a, w) \in M!DoubleWords
           /\ w = FALSE => M!Read(m, a, w) \in M!Words
<1>1. m[a] \in M!Words /\ w \in BOOLEAN
  BY DEF IsAccess
<1>2. CASE w
  <2>1. m[a + 1] \in M!Words
    BY <1>2 DEF IsAccess
  <2> QED BY <1>1, <1>2, <2>1, PairBelow DEF M!Read
<1>3. CASE w = FALSE
  BY <1>1, <1>3, Constants DEF M!Read, M!Words, M!DoubleWords
<1> QED BY <1>1, <1>2, <1>3

\* What LR and an AMO return fits in a register.
LEMMA ExtendInRange ==
    ASSUME NEW v \in M!DoubleWords, NEW w \in BOOLEAN,
           w = FALSE => v \in M!Words
    PROVE  M!Extend(v, w) \in M!DoubleWords
<1>1. CASE w
  BY <1>1, Constants DEF M!Extend, M!Limit, M!DoubleWords
<1>2. CASE w = FALSE
  <2>1. v \in Int /\ 0 <= v /\ v <= Base - 1
    BY <1>2, Constants DEF M!Words
  <2>2. v + Base * Base - Base \in Int /\ v <= Base * Base - 1
        /\ 0 <= v + Base * Base - Base /\ v + Base * Base - Base <= Base * Base - 1
    BY <2>1, Constants
  <2>3. M!Extend(v, w) \in {v, v + Base * Base - Base}
    BY <1>2 DEF M!Extend, M!Limit
  <2> QED BY <2>1, <2>2, <2>3, Constants DEF M!DoubleWords
<1> QED BY <1>1, <1>2

LEMMA RemainderInRange ==
    ASSUME NEW v \in Int
    PROVE  /\ v % Base \in M!Words
           /\ (v \div Base) % Base \in M!Words
<1>1. \A x \in Int : x % Base \in 0..(Base - 1)
  BY Constants
<1>2. v \div Base \in Int
  BY Constants
<1> QED BY <1>1, <1>2 DEF M!Words

LEMMA WriteInRange ==
    ASSUME NEW m \in [M!Addresses -> M!Words],
           NEW a, NEW w, IsAccess(<<a, w>>), NEW v \in Int
    PROVE  M!Write(m, a, w, v) \in [M!Addresses -> M!Words]
<1>1. v % Base \in M!Words /\ (v \div Base) % Base \in M!Words
  BY RemainderInRange
<1> QED BY <1>1 DEF M!Write, IsAccess

LEMMA ApplyIsInteger ==
    ASSUME NEW o \in M!AmoOps, NEW v \in M!DoubleWords,
           NEW r \in M!DoubleWords, NEW w \in BOOLEAN
    PROVE  M!Apply(o, v, r, w) \in Int
<1>1. M!Limit(w) \in Int /\ M!Limit(w) > 0
  BY Constants DEF M!Limit
<1>2. v \in Int /\ r \in Int
  BY Constants DEF M!DoubleWords
<1>3. r % M!Limit(w) \in Int /\ (v + (r % M!Limit(w))) % M!Limit(w) \in Int
  BY <1>1, <1>2
<1>4. M!Signed(v, w) \in Int /\ M!Signed(r % M!Limit(w), w) \in Int
  BY <1>1, <1>2, <1>3 DEF M!Signed
<1>5. M!Apply(o, v, r, w) \in {v, r % M!Limit(w), (v + (r % M!Limit(w))) % M!Limit(w)}
  <2>1. CASE o = "swap"
    BY <2>1 DEF M!Apply
  <2>2. CASE o = "add"
    BY <2>2 DEF M!Apply
  <2>3. CASE o = "min"
    BY <1>2, <1>3, <1>4, <2>3 DEF M!Apply
  <2>4. CASE o = "max"
    BY <1>2, <1>3, <1>4, <2>4 DEF M!Apply
  <2>5. CASE o = "minu"
    BY <1>2, <1>3, <1>4, <2>5 DEF M!Apply
  <2>6. CASE o = "maxu"
    BY <1>2, <1>3, <1>4, <2>6 DEF M!Apply
  <2> QED BY <2>1, <2>2, <2>3, <2>4, <2>5, <2>6 DEF M!AmoOps
<1> QED BY <1>2, <1>3, <1>5

\* A write leaves what accesses of other words read.
LEMMA WriteElsewhere ==
    ASSUME NEW m \in [M!Addresses -> M!Words], NEW v \in Int,
           NEW s, IsAccess(s), NEW a, IsAccess(a), ~M!Overlap(s, a)
    PROVE  M!Read(M!Write(m, s[1], s[2], v), a[1], a[2]) = M!Read(m, a[1], a[2])
<1> DEFINE n == M!Write(m, s[1], s[2], v)
<1>1. \A x \in M!Addresses : x \notin M!Span(s[1], s[2]) => n[x] = m[x]
  BY DEF M!Write, M!Span, IsAccess
<1>2. \A x \in M!Span(a[1], a[2]) : x \in M!Addresses /\ x \notin M!Span(s[1], s[2])
  BY DEF M!Overlap, M!Span, IsAccess
<1>3. M!Read(n, a[1], a[2]) = M!Read(m, a[1], a[2])
  <2> HIDE DEF n
  <2>1. n[a[1]] = m[a[1]]
    BY <1>1, <1>2 DEF M!Span
  <2>2. a[2] => n[a[1] + 1] = m[a[1] + 1]
    BY <1>1, <1>2 DEF M!Span
  <2> QED BY <2>1, <2>2 DEF M!Read
<1> QED BY <1>3

-----------------------------------------------------------------------------
(* Types.                                                                  *)

\* Who is inside an atomic instruction holds the lock; what it works on is one of the
\* accesses, and a word that it loaded is a word.
InOperationHolds ==
    \A h \in Harts : running[h] # NotRunning =>
        /\ atomic_lock = h
        /\ <<running[h].addr, running[h].wide>> \in AtomicAccesses
        /\ running[h].wide = FALSE => running[h].old \in M!Words

TypeInv == TypeOK /\ InOperationHolds

LEMMA AccessesAreAccesses ==
    \A acc \in AtomicAccesses \cup StoreAccesses : IsAccess(acc)
BY DEF IsAccess, M!MemoryAssumption

LEMMA OperandsAreIntegers ==
    /\ \A v \in Operands : v \in Int /\ v \in M!DoubleWords
    /\ 0 \in M!DoubleWords /\ 0 \in M!Words
    /\ 1 \in M!DoubleWords
BY Constants DEF M!MemoryAssumption, M!DoubleWords, M!Words

Reservation == [addr : M!Addresses \cup {0}, valid : BOOLEAN]

\* Memory, rd and the reservations, which the abstract operations change
SharedTypes ==
    /\ mem \in [M!Addresses -> M!Words]
    /\ reservations \in [Harts -> Reservation]
    /\ rd \in [Harts -> M!DoubleWords]

LEMMA InitTypes == Init => TypeInv
<1> SUFFICES ASSUME Init PROVE TypeInv
  OBVIOUS
<1>1. mem \in [M!Addresses -> M!Words] /\ rd \in [Harts -> M!DoubleWords]
  BY OperandsAreIntegers DEF Init, M!Init
<1>2. reservations \in [Harts -> [addr : M!Addresses \cup {0}, valid : BOOLEAN]]
  BY DEF Init, M!Init, M!Unreserved
<1>3. running \in [Harts -> InOperation \cup {NotRunning}]
  BY DEF Init
<1>4. InOperationHolds
  BY DEF Init, InOperationHolds
<1> QED BY <1>1, <1>2, <1>3, <1>4 DEF Init, TypeInv, TypeOK

\* The hart inside an operation has the lock, and no other hart is inside one.
LEMMA HolderIs ==
    ASSUME TypeInv, NEW h \in Harts, running[h].op \in Ops
    PROVE  /\ running[h] \in InOperation /\ running[h] # NotRunning
           /\ atomic_lock = h
           /\ IsAccess(<<running[h].addr, running[h].wide>>)
           /\ <<running[h].addr, running[h].wide>> \in AtomicAccesses
           /\ running[h].rs2val \in Operands
           /\ running[h].old \in M!DoubleWords
           /\ running[h].wide = FALSE => running[h].old \in M!Words
           /\ \A g \in Harts : g # h => running[g] = NotRunning
<1>1. running[h] # NotRunning
  BY DEF Ops, AmoOps, M!AmoOps, NotRunning
<1>2. running[h] \in InOperation
  BY <1>1 DEF TypeInv, TypeOK
<1>3. running[h].rs2val \in Operands /\ running[h].old \in M!DoubleWords
  BY <1>2 DEF InOperation
<1>4. /\ atomic_lock = h
      /\ <<running[h].addr, running[h].wide>> \in AtomicAccesses
      /\ running[h].wide = FALSE => running[h].old \in M!Words
  BY <1>1 DEF TypeInv, InOperationHolds
<1>5. \A g \in Harts : running[g] # NotRunning => atomic_lock = g
  BY DEF TypeInv, InOperationHolds
<1> QED BY <1>1, <1>2, <1>3, <1>4, <1>5, AccessesAreAccesses

\* Once it has unlocked, nobody is inside an operation.
LEMMA Unlocked ==
    ASSUME TypeInv, NEW h \in Harts, running[h].op \in Ops, Unlock(h)
    PROVE  /\ running' \in [Harts -> InOperation \cup {NotRunning}]
           /\ \A g \in Harts : running'[g] = NotRunning
           /\ atomic_lock' = NoHart
<1>1. \A g \in Harts : g # h => running[g] = NotRunning
  BY HolderIs
<1>2. running \in [Harts -> InOperation \cup {NotRunning}]
  BY DEF TypeInv, TypeOK
<1>3. running' = [running EXCEPT ![h] = NotRunning] /\ atomic_lock' = NoHart
  BY DEF Unlock
<1> QED BY <1>1, <1>2, <1>3

LEMMA UnlockTypes ==
    ASSUME TypeInv, NEW h \in Harts, running[h].op \in Ops, Unlock(h), SharedTypes'
    PROVE  TypeInv'
BY Unlocked DEF TypeInv, TypeOK, InOperationHolds, SharedTypes, Reservation

LEMMA SharedIs == TypeInv => SharedTypes
BY DEF TypeInv, TypeOK, SharedTypes, Reservation

LEMMA LockTypes ==
    ASSUME TypeInv, NEW h \in Harts, NEW o \in Ops, NEW acc \in AtomicAccesses,
           NEW v \in Operands, Lock(h, o, acc[1], acc[2], v)
    PROVE  TypeInv'
<1> DEFINE d == [op |-> o, addr |-> acc[1], wide |-> acc[2], rs2val |-> v,
                 loaded |-> FALSE, old |-> 0]
<1>1. IsAccess(acc) /\ acc = <<acc[1], acc[2]>>
  BY AccessesAreAccesses DEF IsAccess
<1>2. d \in InOperation
  BY <1>1, OperandsAreIntegers DEF InOperation, IsAccess
<1>3. <<d.addr, d.wide>> \in AtomicAccesses /\ d.old \in M!Words
  BY <1>1, OperandsAreIntegers
<1> HIDE DEF d
<1>4. atomic_lock = NoHart /\ atomic_lock' = h /\ running' = [running EXCEPT ![h] = d]
      /\ UNCHANGED <<mem, reservations, rd>>
  BY DEF Lock, d
<1>5. \A g \in Harts : running[g] = NotRunning
  BY <1>4 DEF TypeInv, InOperationHolds
<1>6. running' \in [Harts -> InOperation \cup {NotRunning}] /\ running'[h] = d
      /\ \A g \in Harts : g # h => running'[g] = NotRunning
  BY <1>2, <1>4, <1>5 DEF TypeInv, TypeOK
<1>7. InOperationHolds'
  BY <1>3, <1>4, <1>6 DEF InOperationHolds
<1>8. TypeOK'
  BY <1>4, <1>6 DEF TypeInv, TypeOK
<1> QED BY <1>7, <1>8 DEF TypeInv

\* Every exit that changes nothing, whichever access or operation failed
LEMMA TrapTypes ==
    ASSUME TypeInv, NEW h \in Harts, running[h].op \in Ops, Trap(h)
    PROVE  TypeInv'
<1>1. SharedTypes'
  BY SharedIs DEF Trap, SharedTypes
<1> QED BY <1>1, UnlockTypes DEF Trap

LEMMA LoadReservedTypes ==
    ASSUME TypeInv, NEW h \in Harts, LoadReserved(h)
    PROVE  TypeInv'
<1> DEFINE a == running[h].addr
           w == running[h].wide
<1>1. running[h].op \in Ops
  BY DEF LoadReserved, BeforeLoad, Ops
<1>2. IsAccess(<<a, w>>)
  BY <1>1, HolderIs
<1>3. M!Extend(M!Read(mem, a, w), w) \in M!DoubleWords
  BY <1>2, ReadInRange, ExtendInRange DEF IsAccess, TypeInv, TypeOK
<1>4. w \in BOOLEAN /\ a \in M!Addresses
  BY <1>2 DEF IsAccess
<1> HIDE DEF a, w
<1>5. rd' \in [Harts -> M!DoubleWords]
  BY <1>3, SharedIs DEF LoadReserved, M!LoadReserved, M!Return, SharedTypes, a, w
<1>6. reservations' \in [Harts -> Reservation]
  <2>1. [addr |-> a, valid |-> TRUE] \in Reservation
    BY <1>4 DEF Reservation
  <2> QED BY <2>1, SharedIs DEF LoadReserved, M!LoadReserved, SharedTypes, a
<1>7. mem' = mem /\ Unlock(h)
  BY DEF LoadReserved, M!LoadReserved
<1>8. SharedTypes'
  BY <1>5, <1>6, <1>7, SharedIs DEF SharedTypes
<1> QED BY <1>1, <1>7, <1>8, UnlockTypes

\* A reservation that ends is still a reservation.
LEMMA EndedReservation ==
    ASSUME NEW r \in Reservation
    PROVE  [r EXCEPT !.valid = FALSE] \in Reservation
BY DEF Reservation

LEMMA StoreConditionalTypes ==
    ASSUME TypeInv, NEW h \in Harts, StoreConditional(h)
    PROVE  TypeInv'
<1> DEFINE d == running[h]
<1>1. running[h].op \in Ops
  BY DEF StoreConditional, BeforeLoad, Ops
<1>2. IsAccess(<<d.addr, d.wide>>) /\ d.rs2val \in Int
  BY <1>1, HolderIs, OperandsAreIntegers
<1>3. M!StoreConditional(h, d.addr, d.wide, d.rs2val) /\ Unlock(h)
  BY DEF StoreConditional
<1> HIDE DEF d
<1>4. mem' \in [M!Addresses -> M!Words]
  BY <1>2, <1>3, WriteInRange, SharedIs DEF M!StoreConditional, SharedTypes
<1>5. rd' \in [Harts -> M!DoubleWords]
  BY <1>3, OperandsAreIntegers, SharedIs DEF M!StoreConditional, M!Return, SharedTypes
<1>6. reservations' \in [Harts -> Reservation]
  <2>1. reservations \in [Harts -> Reservation]
    BY SharedIs DEF SharedTypes
  <2>2. [reservations[h] EXCEPT !.valid = FALSE] \in Reservation
    BY <2>1, EndedReservation
  <2>3. \/ reservations' = [reservations EXCEPT ![h] = [reservations[h] EXCEPT !.valid = FALSE]]
        \/ reservations' = reservations
    BY <1>3 DEF M!StoreConditional
  <2> QED BY <2>1, <2>2, <2>3
<1>7. SharedTypes'
  BY <1>4, <1>5, <1>6 DEF SharedTypes
<1> QED BY <1>1, <1>3, <1>7, UnlockTypes

LEMMA AmoLoadTypes ==
    ASSUME TypeInv, NEW h \in Harts, AmoLoad(h)
    PROVE  TypeInv'
<1> DEFINE a == running[h].addr
           w == running[h].wide
           v == M!Read(mem, a, w)
           d == [running[h] EXCEPT !.loaded = TRUE, !.old = v]
<1>1. running[h].op \in Ops
  BY DEF AmoLoad, BeforeLoad, Ops
<1>2. IsAccess(<<a, w>>) /\ running[h] \in InOperation /\ atomic_lock = h
      /\ <<a, w>> \in AtomicAccesses
      /\ \A g \in Harts : g # h => running[g] = NotRunning
  BY <1>1, HolderIs
<1>3. v \in M!DoubleWords /\ (w = FALSE => v \in M!Words)
  BY <1>2, ReadInRange DEF TypeInv, TypeOK
<1>4. running' = [running EXCEPT ![h] = d]
      /\ UNCHANGED <<mem, reservations, rd, atomic_lock>>
  BY DEF AmoLoad, TypeInv, TypeOK
<1> HIDE DEF v
<1>5. d \in InOperation /\ d.addr = a /\ d.wide = w /\ d.old = v
  BY <1>2, <1>3 DEF InOperation
<1> HIDE DEF d, a, w
<1>6. running' \in [Harts -> InOperation \cup {NotRunning}] /\ running'[h] = d
      /\ \A g \in Harts : g # h => running'[g] = NotRunning
  BY <1>2, <1>4, <1>5 DEF TypeInv, TypeOK
<1>7. InOperationHolds'
  BY <1>2, <1>3, <1>4, <1>5, <1>6 DEF InOperationHolds
<1>8. TypeOK'
  BY <1>4, <1>6 DEF TypeInv, TypeOK
<1> QED BY <1>7, <1>8 DEF TypeInv

LEMMA AmoStoreTypes ==
    ASSUME TypeInv, NEW h \in Harts, AmoStore(h)
    PROVE  TypeInv'
<1> DEFINE d == running[h]
<1>1. d.op \in M!AmoOps /\ d.op \in Ops
  BY DEF AmoStore, AfterLoad, Ops, AmoOps
<1>2. /\ IsAccess(<<d.addr, d.wide>>) /\ d.wide \in BOOLEAN
      /\ d.rs2val \in M!DoubleWords /\ d.old \in M!DoubleWords
      /\ d.wide = FALSE => d.old \in M!Words
  BY <1>1, HolderIs, OperandsAreIntegers DEF IsAccess
<1>3. /\ mem' = M!Write(mem, d.addr, d.wide, M!Apply(d.op, d.old, d.rs2val, d.wide))
      /\ M!EndReservations(d.addr)
      /\ M!Return(h, M!Extend(d.old, d.wide))
      /\ Unlock(h)
  BY DEF AmoStore
<1> HIDE DEF d
<1>4. M!Apply(d.op, d.old, d.rs2val, d.wide) \in Int
  BY <1>1, <1>2, ApplyIsInteger
<1>5. mem' \in [M!Addresses -> M!Words]
  BY <1>2, <1>3, <1>4, WriteInRange, SharedIs DEF SharedTypes
<1>6. rd' \in [Harts -> M!DoubleWords]
  BY <1>2, <1>3, ExtendInRange, SharedIs DEF M!Return, SharedTypes
<1>7. reservations' \in [Harts -> Reservation]
  <2>1. reservations \in [Harts -> Reservation]
    BY SharedIs DEF SharedTypes
  <2>2. \A g \in Harts : [reservations[g] EXCEPT !.valid = FALSE] \in Reservation
    BY <2>1, EndedReservation
  <2> QED BY <1>3, <2>1, <2>2 DEF M!EndReservations
<1>8. SharedTypes'
  BY <1>5, <1>6, <1>7 DEF SharedTypes
<1> QED BY <1>1, <1>3, <1>8, UnlockTypes DEF d

LEMMA StoreTypes ==
    ASSUME TypeInv, NEW acc \in StoreAccesses, NEW v \in Operands,
           Store(acc[1], acc[2], v)
    PROVE  TypeInv'
<1>1. IsAccess(<<acc[1], acc[2]>>)
  BY AccessesAreAccesses DEF IsAccess
<1>2. mem' \in [M!Addresses -> M!Words]
  BY <1>1, OperandsAreIntegers, WriteInRange DEF Store, M!Store, TypeInv, TypeOK
<1> QED BY <1>2 DEF Store, M!Store, TypeInv, TypeOK, InOperationHolds

\* A step under the lock is an access, or one of the exits.
LEMMA StepIs ==
    ASSUME NEW h \in Harts, Step(h)
    PROVE  \/ LoadReserved(h) \/ StoreConditional(h) \/ AmoLoad(h) \/ AmoStore(h)
           \/ running[h].op \in Ops /\ Trap(h)
BY DEF Step, LrLoadFaults, ScStoreFaults, AmoLoadFaults, AmoStoreFaults, AmoUndefined,
       BeforeLoad, AfterLoad, Ops, AmoOps

LEMMA TypesStep ==
    ASSUME TypeInv, [Next]_vars
    PROVE  TypeInv'
<1>1. CASE Next
  BY <1>1, StepIs, LockTypes, LoadReservedTypes, StoreConditionalTypes, AmoLoadTypes,
     AmoStoreTypes, TrapTypes, StoreTypes DEF Next
<1>2. CASE UNCHANGED vars
  BY <1>2 DEF vars, TypeInv, TypeOK, InOperationHolds
<1> QED BY <1>1, <1>2

\* Memory, the reservations, rd and the locals stay in their types: whatever the
\* operands, an operation stores words and returns what fits in a register.
THEOREM TypeCorrect == Spec => []TypeOK
<1>1. TypeInv /\ [Next]_vars => TypeInv'
  BY TypesStep
<1>2. TypeInv => TypeOK
  BY DEF TypeInv
<1> QED BY <1>1, <1>2, InitTypes, PTL DEF Spec

-----------------------------------------------------------------------------
(* Indivisibility.                                                         *)

\* Under the lock, memory still holds what the AMO loaded.
OldIsCurrent ==
    \A h \in Harts : running[h] # NotRunning /\ running[h].loaded
        => running[h].old = M!Read(mem, running[h].addr, running[h].wide)

LEMMA CurrentStep ==
    ASSUME NoMixing, TypeInv, OldIsCurrent, [Next]_vars
    PROVE  OldIsCurrent'
<1>1. ASSUME NEW h \in Harts, running[h].op \in Ops, Unlock(h)
      PROVE  OldIsCurrent'
  BY <1>1, Unlocked DEF OldIsCurrent
<1>2. ASSUME NEW h \in Harts, NEW o \in Ops, NEW acc \in AtomicAccesses,
             NEW v \in Operands, Lock(h, o, acc[1], acc[2], v)
      PROVE  OldIsCurrent'
  <2>1. \A g \in Harts : running'[g] = NotRunning \/ ~running'[g].loaded
    <3>1. \A g \in Harts : running[g] = NotRunning
      BY <1>2 DEF Lock, TypeInv, InOperationHolds
    <3>2. running \in [Harts -> InOperation \cup {NotRunning}]
      BY DEF TypeInv, TypeOK
    <3> QED BY <1>2, <3>1, <3>2 DEF Lock
  <2> QED BY <2>1 DEF OldIsCurrent
<1>3. ASSUME NEW h \in Harts, AmoLoad(h)
      PROVE  OldIsCurrent'
  <2> DEFINE v == M!Read(mem, running[h].addr, running[h].wide)
             d == [running[h] EXCEPT !.loaded = TRUE, !.old = v]
  <2>1. running[h].op \in Ops
    BY <1>3 DEF AmoLoad, BeforeLoad, Ops
  <2>2. \A g \in Harts : g # h => running[g] = NotRunning
    BY <2>1, HolderIs
  <2>3. running' = [running EXCEPT ![h] = d] /\ mem' = mem
    BY <1>3 DEF AmoLoad, TypeInv, TypeOK
  <2>4. d.old = v /\ d.addr = running[h].addr /\ d.wide = running[h].wide
    BY <2>1, HolderIs DEF InOperation
  <2> HIDE DEF d
  <2>5. running'[h] = d /\ \A g \in Harts : g # h => running'[g] = NotRunning
    BY <2>2, <2>3 DEF TypeInv, TypeOK
  <2> QED BY <2>3, <2>4, <2>5 DEF OldIsCurrent, M!Read
<1>4. ASSUME NEW acc \in StoreAccesses, NEW v \in Operands, Store(acc[1], acc[2], v)
      PROVE  OldIsCurrent'
  <2>1. running' = running /\ mem' = M!Write(mem, acc[1], acc[2], v)
    BY <1>4 DEF Store, M!Store
  <2>2. ASSUME NEW h \in Harts, running[h] # NotRunning
        PROVE  M!Read(mem', running[h].addr, running[h].wide)
                 = M!Read(mem, running[h].addr, running[h].wide)
    <3> DEFINE a == <<running[h].addr, running[h].wide>>
    <3>1. a \in AtomicAccesses
      BY <2>2 DEF TypeInv, InOperationHolds
    <3>2. ~M!Overlap(acc, a) /\ IsAccess(acc) /\ IsAccess(a)
      BY <3>1, AccessesAreAccesses DEF NoMixing
    <3>3. a[1] = running[h].addr /\ a[2] = running[h].wide
      OBVIOUS
    <3> HIDE DEF a
    <3> QED BY <2>1, <3>2, <3>3, WriteElsewhere, OperandsAreIntegers DEF TypeInv, TypeOK
  <2> QED BY <2>1, <2>2 DEF OldIsCurrent, M!Read
<1>5. CASE UNCHANGED vars
  BY <1>5 DEF vars, OldIsCurrent, M!Read
<1>6. ASSUME NEW h \in Harts, Step(h)
      PROVE  OldIsCurrent'
  <2>1. CASE AmoLoad(h)
    BY <1>3, <2>1
  <2>2. CASE ~AmoLoad(h)
    <3>1. running[h].op \in Ops /\ Unlock(h)
      BY <1>6, <2>2, StepIs DEF LoadReserved, StoreConditional, AmoStore, Trap, BeforeLoad,
         AfterLoad, Ops, AmoOps
    <3> QED BY <1>1, <3>1
  <2> QED BY <2>1, <2>2
<1> QED BY <1>2, <1>4, <1>5, <1>6 DEF Next

\* Each step is a step of the abstract memory, or changes nothing it has.
LEMMA StepIsIndivisible ==
    ASSUME TypeInv, OldIsCurrent, [Next]_vars
    PROVE  [M!Next]_(M!vars)
<1>1. ASSUME NEW h \in Harts, running[h].op \in Ops
      PROVE  \E acc \in AtomicAccesses :
               /\ acc[1] = running[h].addr /\ acc[2] = running[h].wide
               /\ running[h].rs2val \in Operands
  <2>1. /\ <<running[h].addr, running[h].wide>> \in AtomicAccesses
        /\ running[h].rs2val \in Operands
    BY <1>1, HolderIs
  <2> QED BY <2>1
<1>2. ASSUME NEW h \in Harts, LoadReserved(h)
      PROVE  M!Next
  <2>1. running[h].op \in Ops
    BY <1>2 DEF LoadReserved, BeforeLoad, Ops
  <2>2. PICK acc \in AtomicAccesses : acc[1] = running[h].addr /\ acc[2] = running[h].wide
    BY <1>1, <2>1
  <2>3. M!LoadReserved(h, acc[1], acc[2])
    BY <1>2, <2>2 DEF LoadReserved
  <2> QED BY <2>3 DEF M!Next
<1>3. ASSUME NEW h \in Harts, StoreConditional(h)
      PROVE  M!Next
  <2>1. running[h].op \in Ops
    BY <1>3 DEF StoreConditional, BeforeLoad, Ops
  <2>2. PICK acc \in AtomicAccesses : /\ acc[1] = running[h].addr /\ acc[2] = running[h].wide
                                      /\ running[h].rs2val \in Operands
    BY <1>1, <2>1
  <2>3. M!StoreConditional(h, acc[1], acc[2], running[h].rs2val)
    BY <1>3, <2>2 DEF StoreConditional
  <2> QED BY <2>2, <2>3 DEF M!Next
<1>4. ASSUME NEW h \in Harts, AmoStore(h)
      PROVE  M!Next
  <2>1. running[h].op \in M!AmoOps /\ running[h].op \in Ops /\ running[h].loaded
    BY <1>4 DEF AmoStore, AfterLoad, Ops, AmoOps
  <2>2. running[h].old = M!Read(mem, running[h].addr, running[h].wide)
    BY <2>1, HolderIs DEF OldIsCurrent
  <2>3. PICK acc \in AtomicAccesses : /\ acc[1] = running[h].addr /\ acc[2] = running[h].wide
                                      /\ running[h].rs2val \in Operands
    BY <1>1, <2>1
  <2>4. M!Amo(h, running[h].op, running[h].addr, running[h].wide, running[h].rs2val)
    BY <1>4, <2>2 DEF AmoStore, M!Amo
  <2>5. M!Amo(h, running[h].op, acc[1], acc[2], running[h].rs2val)
    BY <2>3, <2>4
  <2> QED BY <2>1, <2>3, <2>5 DEF M!Next
<1>5. ASSUME NEW h \in Harts, Step(h)
      PROVE  [M!Next]_(M!vars)
  <2>1. CASE AmoLoad(h) \/ Trap(h)
    BY <2>1 DEF AmoLoad, Trap, M!vars
  <2> QED BY <1>2, <1>3, <1>4, <1>5, <2>1, StepIs
<1>6. ASSUME NEW h \in Harts, NEW o \in Ops, NEW acc \in AtomicAccesses,
             NEW v \in Operands, Lock(h, o, acc[1], acc[2], v)
      PROVE  UNCHANGED M!vars
  BY <1>6 DEF Lock, M!vars
<1>7. ASSUME NEW acc \in StoreAccesses, NEW v \in Operands, Store(acc[1], acc[2], v)
      PROVE  M!Next
  BY <1>7 DEF Store, M!Next
<1>8. CASE UNCHANGED vars
  BY <1>8 DEF vars, M!vars
<1> QED BY <1>5, <1>6, <1>7, <1>8 DEF Next

\* Where plain stores keep off the words of LR, SC and the AMOs, those are
\* indivisible, although an AMO accesses memory twice: atomic_lock suffices.
THEOREM LockMakesIndivisible ==
    ASSUME NoMixing
    PROVE  Spec => Indivisible
<1>1. Init => TypeInv /\ OldIsCurrent
  BY InitTypes DEF Init, OldIsCurrent
<1>2. TypeInv /\ OldIsCurrent /\ [Next]_vars => (TypeInv /\ OldIsCurrent)'
  BY TypesStep, CurrentStep
<1>3. Init => M!Init
  BY DEF Init
<1>4. TypeInv /\ OldIsCurrent /\ [Next]_vars => [M!Next]_(M!vars)
  BY StepIsIndivisible
<1> QED BY <1>1, <1>2, <1>3, <1>4, PTL DEF Spec, Indivisible, M!Spec
=============================================================================
