------------------------------ MODULE PhysMem ------------------------------
(* Physical memory accesses (emu_machine.c): RAM, the regions of MMIO devices,*)
(* and the loop that splits an access which neither holds entirely.        *)
(*                                                                         *)
(* One hart accesses memory at a time here; what harts see of each other's *)
(* accesses is the matter of Atomics. A loop iteration is a step. An       *)
(* AMO's load is a "load".                                                 *)
EXTENDS Integers, Sequences, FiniteSetsExt

CONSTANTS
    AddressLimit,   \* 2^64 in the code
    RamStart, RamEnd,
    Regions,        \* sequence of [base, size]: machine->mmio
    Refused,        \* set of <<address, size>>: the accesses devices refuse
    Wholes,         \* set of <<address, size>> that rv_access_phys is called with
    Pairs,          \* set of pairs of those: the parts of an access to two pages
    MaxSize,        \* bytes of the widest access
    MaxStores       \* bound: number of stores

ASSUME PhysMemAssumption ==
    /\ AddressLimit \in Nat /\ RamStart \in Nat /\ RamEnd \in Nat /\ MaxSize \in Nat
    /\ RamStart < RamEnd /\ MaxSize <= RamEnd /\ RamEnd <= AddressLimit
    /\ Regions \in Seq([base : Nat, size : Nat])
    /\ \A i \in DOMAIN Regions : Regions[i].base + Regions[i].size <= AddressLimit
    /\ Wholes \subseteq Nat \X Nat
    /\ \A p \in Wholes : p[1] < AddressLimit /\ p[2] \in 1..MaxSize
    /\ Pairs \subseteq (Nat \X Nat) \X (Nat \X Nat)
    /\ \A p \in Pairs : p[1][2] + p[2][2] \in 1..MaxSize
    /\ MaxStores \in Nat

VARIABLES
    memory,    \* bytes of RAM and of the devices' registers, by address
    request,   \* the access in progress, or the last one: mode and parts
    data,      \* the caller's buffer
    access,    \* where the access is: locals of misaligned_access
    outcome,   \* rv_mem_result of the access, "none" until it returns
    touched,   \* per address, how often this access has reached it (history)
    before,    \* the memory when this access began (history)
    stores     \* number of stores so far

physMemVars == <<memory, request, data, access, outcome, touched, before, stores>>

Ram == RamStart..(RamEnd - 1)
RegionOf(i) == Regions[i].base..(Regions[i].base + Regions[i].size - 1)
Mapped == Ram \cup UNION {RegionOf(i) : i \in DOMAIN Regions}
Wrap(a) == a % AddressLimit
Bytes(addr, size) == addr..(addr + size - 1)
Idle == [at |-> "idle", piece |-> 1, addr |-> 0, size |-> 0]

Running == access.at # "idle"
Piece == request.pieces[access.piece]

\* The second piece, too, is moved from data on, not from data + size0.
Offset_Beginning(piece) == 0

\* How far into the caller's buffer a piece begins.
Offset(piece) == IF piece = 1 THEN 0 ELSE request.pieces[1][2]

StoreData == [k \in 0..(MaxSize - 1) |-> AddressLimit + k]
EmptyData == [k \in 0..(MaxSize - 1) |-> 0]

PhysMemTypeOK ==
    /\ memory \in [Mapped -> Nat]
    /\ data \in [0..(MaxSize - 1) -> Nat]
    /\ request.mode \in {"load", "store"}
    /\ Len(request.pieces) \in 0..2
    /\ access \in [at : {"idle", "check", "commit"}, piece : 1..2,
                   addr : 0..(AddressLimit - 1), size : 0..MaxSize]
    /\ outcome \in {"none", "ok", "fault", "outside"}
    /\ touched \in [Mapped -> Nat]
    /\ stores \in 0..MaxStores

PhysMemInit ==
    /\ memory = [a \in Mapped |-> a]
    /\ request = [mode |-> "load", pieces |-> <<>>]
    /\ data = EmptyData
    /\ access = Idle
    /\ outcome = "none"
    /\ touched = [a \in Mapped |-> 0]
    /\ before = memory
    /\ stores = 0

-----------------------------------------------------------------------------
(* Moving bytes.                                                           *)

\* size bytes at addr to or from the buffer at offset: memcpy, a host load or
\* store, or a device callback (register files, as the tests' mock_device).
Transfer(mode, addr, size, offset, buffer) ==
    IF mode = "store"
    THEN /\ memory' = [a \in Mapped |-> IF a \in Bytes(addr, size)
                         THEN buffer[offset + a - addr] ELSE memory[a]]
         /\ data' = buffer
    ELSE /\ data' = [k \in DOMAIN buffer |-> IF k \in Bytes(offset, size)
                       THEN memory[addr + k - offset] ELSE buffer[k]]
         /\ UNCHANGED memory

Touch(count, addr, size) ==
    touched' = [a \in Mapped |-> count[a] + IF a \in Bytes(addr, size) THEN 1 ELSE 0]

\* The access returns.
Return(result) == outcome' = result /\ access' = Idle
Untouched == UNCHANGED <<memory, data, touched>>

-----------------------------------------------------------------------------
(* rv_access_phys.                                                         *)

\* The arguments of a call.
Call(mode, pieces) ==
    /\ ~Running
    /\ mode = "store" => stores < MaxStores
    /\ stores' = stores + IF mode = "store" THEN 1 ELSE 0
    /\ request' = [mode |-> mode, pieces |-> pieces]
    /\ before' = memory

Buffer(mode) == IF mode = "store" THEN StoreData ELSE EmptyData
Nowhere == [a \in Mapped |-> 0]

\* The call moves all of its bytes at once, or none yet.
MoveAll(mode, p) ==
    /\ Transfer(mode, p[1], p[2], 0, Buffer(mode))
    /\ Touch(Nowhere, p[1], p[2])
    /\ Return("ok")
MoveNone(mode) == data' = Buffer(mode) /\ touched' = Nowhere /\ UNCHANGED memory

\* rv_pmp_check grants no permission.
Denied(mode, p) == Call(mode, <<p>>) /\ MoveNone(mode) /\ Return("fault")

\* addr >= machine->ram_start && addr + size <= machine->ram_end
InRam(p) == p[1] >= RamStart /\ Wrap(p[1] + p[2]) <= RamEnd

\* The host's load or store at machine->ram + addr - machine->ram_start.
DirectRam(mode, p) ==
    /\ InRam(p)
    /\ Call(mode, <<p>>)
    /\ IF Bytes(p[1], p[2]) \subseteq Ram
       THEN MoveAll(mode, p) ELSE MoveNone(mode) /\ Return("outside")

\* A device is called only if its region holds the whole of an aligned access.
AlignedMmio(mode, p) ==
    /\ ~InRam(p) /\ p[1] % p[2] = 0
    /\ Call(mode, <<p>>)
    /\ IF /\ p \notin Refused
          /\ \E i \in DOMAIN Regions : Bytes(p[1], p[2]) \subseteq RegionOf(i)
       THEN MoveAll(mode, p) ELSE MoveNone(mode) /\ Return("fault")

\* Straight to the pass that commits.
FirstPass_Skipped == "commit"

\* misaligned_access is called twice, first without the buffer.
FirstPass == "check"

BeginPass(pass, index, p) ==
    access' = [at |-> pass, piece |-> index, addr |-> p[1], size |-> p[2]]

Misaligned(mode, p) ==
    /\ ~InRam(p) /\ p[1] % p[2] # 0
    /\ Call(mode, <<p>>)
    /\ BeginPass(FirstPass, 1, p)
    /\ MoveNone(mode) /\ outcome' = "none"

\* rv_access_virt_pageboundary: rv_access_phys_partial for each page's part.
TwoPages(mode, pair) ==
    /\ Call(mode, pair)
    /\ BeginPass(FirstPass, 1, pair[1])
    /\ MoveNone(mode) /\ outcome' = "none"

-----------------------------------------------------------------------------
(* misaligned_access.                                                      *)

\* (addr + 1 does not wrap here: by MaxSize <= RamEnd, such accesses are DirectRam.)
AtRam == access.addr \in Ram
RegionsHere == {i \in DOMAIN Regions : access.addr \in RegionOf(i)}
Unmapped == ~AtRam /\ RegionsHere = {}

\* End of the RAM or of the first region at this address.
End == IF AtRam THEN RamEnd
       ELSE LET r == Regions[Min(RegionsHere)] IN r.base + r.size

\* All that is left of the RAM or of the region.
Part_ToTheEnd == End - access.addr

\* Bytes that this iteration takes.
Part == IF access.addr + access.size > End THEN End - access.addr ELSE access.size

Left == Running /\ access.size > 0
Advance == access' = [access EXCEPT !.addr = Wrap(@ + Part), !.size = @ - Part]

NothingHere ==
    /\ Left /\ Unmapped
    /\ Return("fault")
    /\ Untouched

\* An iteration of the first pass that does call the device.
CheckPart_CallsDevice ==
    /\ Left /\ access.at = "check" /\ ~Unmapped
    /\ Advance
    /\ IF AtRam THEN UNCHANGED touched ELSE Touch(touched, access.addr, Part)
    /\ UNCHANGED <<memory, data, outcome>>

\* An iteration without a buffer: the device is not called.
CheckPart ==
    /\ Left /\ access.at = "check" /\ ~Unmapped
    /\ Advance
    /\ Untouched /\ UNCHANGED outcome

\* Every iteration copies to or from the buffer's beginning: data is not advanced.
CommitPart ==
    /\ Left /\ access.at = "commit" /\ ~Unmapped
    /\ AtRam \/ <<access.addr, Part>> \notin Refused
    /\ Transfer(request.mode, access.addr, Part, Offset(access.piece), data)
    /\ Touch(touched, access.addr, Part)
    /\ Advance
    /\ UNCHANGED outcome

RefusedPart ==
    /\ Left /\ access.at = "commit" /\ ~Unmapped
    /\ ~AtRam /\ <<access.addr, Part>> \in Refused
    /\ Return("fault")
    /\ Untouched

\* The first pass has found nothing unmapped.
SecondPass ==
    /\ access.at = "check" /\ access.size = 0
    /\ BeginPass("commit", access.piece, Piece)
    /\ Untouched /\ UNCHANGED outcome

NextPiece ==
    /\ access.at = "commit" /\ access.size = 0 /\ access.piece < Len(request.pieces)
    /\ BeginPass(FirstPass, access.piece + 1, request.pieces[access.piece + 1])
    /\ Untouched /\ UNCHANGED outcome

Complete ==
    /\ access.at = "commit" /\ access.size = 0 /\ access.piece = Len(request.pieces)
    /\ Return("ok")
    /\ Untouched

-----------------------------------------------------------------------------
Begin ==
    \E mode \in {"load", "store"} :
       \/ \E p \in Wholes : Denied(mode, p) \/ DirectRam(mode, p)
                              \/ AlignedMmio(mode, p) \/ Misaligned(mode, p)
       \/ \E pair \in Pairs : TwoPages(mode, pair)

Continue ==
    /\ NothingHere \/ CheckPart \/ CommitPart \/ RefusedPart
         \/ SecondPass \/ NextPiece \/ Complete
    /\ UNCHANGED <<request, before, stores>>

PhysMemNext == Begin \/ Continue

PhysMemSpec == PhysMemInit /\ [][PhysMemNext]_physMemVars

-----------------------------------------------------------------------------
(* Properties.                                                             *)

\* The address of the k-th byte of an access.
Target(k) ==
    LET first == request.pieces[1] IN
    IF k < first[2] THEN first[1] + k ELSE request.pieces[2][1] + k - first[2]
Size == IF Len(request.pieces) = 1 THEN request.pieces[1][2]
        ELSE request.pieces[1][2] + request.pieces[2][2]

\* The buffer and the memory are as the access should leave them.
Exact ==
    /\ \A k \in 0..(Size - 1) : data[k] = memory[Target(k)]
    /\ \A a \in Mapped : memory[a] # before[a] =>
         \E k \in 0..(Size - 1) : request.mode = "store" /\ Target(k) = a

\* The RAM, or the first region at its first byte, holds the whole of a piece.
InOnePart(p) ==
    \/ Bytes(p[1], p[2]) \subseteq Ram
    \/ \E i \in DOMAIN Regions :
         /\ Bytes(p[1], p[2]) \subseteq RegionOf(i) \ Ram
         /\ \A j \in 1..(i - 1) : p[1] \notin RegionOf(j)

\* An access that succeeds has stored its bytes, the first at its address, and
\* changed no other, or has loaded them, with both of its pages if it crosses two
\* (misaligned_access, rv_access_virt_pageboundary), as long as no page's piece of it
\* is cut: see EveryTransferExact.
TransferIsExact ==
    outcome = "ok" /\ (\A n \in DOMAIN request.pieces : InOnePart(request.pieces[n]))
      => Exact

\* The same of every access.  (Violated: the parts of a piece that crosses from one
\* device to the next, or from RAM, all use the first bytes of the buffer.)
EveryTransferExact == outcome = "ok" => Exact

\* "The first pass checks permissions, the second commits" (rv_access_phys): an
\* access that faults has changed no memory and has not called a device that
\* went along with it, not even to read: a read may claim an interrupt.  (Violated:
\* the first pass does not ask the devices, and the second of two pages is looked at
\* when the first is done.)
FaultTouchesNothing ==
    outcome = "fault" => memory = before /\ touched = Nowhere

\* A byte is never moved twice: a device sees one access, not one for every pass.
EachByteOnce == \A a \in Mapped : touched[a] <= 1

\* An access to one page that reaches an unmapped byte does not succeed, and has
\* moved none of the bytes before or behind it, whatever the parts it was cut in: the
\* first pass of misaligned_access looks at every part before the second moves one.
HolesUntouched ==
    /\ Len(request.pieces) = 1
    /\ ~(Bytes(request.pieces[1][1], request.pieces[1][2]) \subseteq Mapped)
    /\ outcome # "outside"
    => memory = before /\ touched = Nowhere /\ outcome # "ok"

\* "RAM bounds; anything outside is either a hole or MMIO" (emu_machine.h).
RamBoundsHold == outcome # "outside"
=============================================================================
