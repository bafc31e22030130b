---------------------------- MODULE AtomicMemory ----------------------------
(***************************************************************************)
(* What the harts of a machine expect of LR, SC, the AMOs and plain stores: *)
(* each is one indivisible step on memory and on the reservations, and the *)
(* value it returns is the one memory held at that step.                   *)
(*                                                                         *)
(* Memory is made of 32-bit words, each holding a value below Base (2^32); *)
(* an access is of one word, or of the two words at an even address.  This *)
(* module also defines the values of such accesses.                        *)
(***************************************************************************)
EXTENDS Integers

CONSTANTS
    Harts,
    NumWords,         \* the size of memory, in words
    Base,             \* 2^32: the number of values of a word
    AtomicAccesses,   \* the accesses <<address, wide>> of LR, SC and AMOs
    StoreAccesses,    \* those of plain stores
    Operands          \* the values in rs2

Addresses == 0..(NumWords - 1)
Words == 0..(Base - 1)
DoubleWords == 0..(Base * Base - 1)
AmoOps == {"swap", "add", "min", "max", "minu", "maxu"}

\* Atomics assumes this of the constants.
MemoryAssumption ==
    /\ NumWords \in Nat
    /\ Base \in Nat \ {0, 1}
    /\ AtomicAccesses \subseteq Addresses \X BOOLEAN
    /\ StoreAccesses \subseteq Addresses \X BOOLEAN
    /\ \A acc \in AtomicAccesses \cup StoreAccesses :
         acc[2] => acc[1] + 1 \in Addresses
    /\ Operands \subseteq DoubleWords

VARIABLES mem, reservations, rd

vars == <<mem, reservations, rd>>

-----------------------------------------------------------------------------
\* The words an access touches.
Span(addr, wide) == IF wide THEN {addr, addr + 1} ELSE {addr}

Overlap(a, b) == Span(a[1], a[2]) \cap Span(b[1], b[2]) # {}

Read(m, addr, wide) == IF wide THEN m[addr] + Base * m[addr + 1] ELSE m[addr]

\* Storing a value whose high bits are not cut off.
Write_Untruncated(m, addr, wide, v) ==
    IF wide
    THEN [m EXCEPT ![addr] = v % Base, ![addr + 1] = v \div Base]
    ELSE [m EXCEPT ![addr] = v]

\* Storing the low bits of a value.
Write(m, addr, wide, v) ==
    IF wide
    THEN [m EXCEPT ![addr] = v % Base, ![addr + 1] = (v \div Base) % Base]
    ELSE [m EXCEPT ![addr] = v % Base]

\* A value of the access' width as a two's complement number.
Limit(wide) == IF wide THEN Base * Base ELSE Base
Signed(v, wide) == IF 2 * v >= Limit(wide) THEN v - Limit(wide) ELSE v

\* The switch of rv_atomic_op, without the bitwise operations.
Apply(op, old, operand, wide) ==
    LET rhs == operand % Limit(wide)
        smaller == Signed(old, wide) < Signed(rhs, wide)
        larger == Signed(old, wide) > Signed(rhs, wide)
    IN [swap |-> rhs,
        add  |-> (old + rhs) % Limit(wide),
        min  |-> IF smaller THEN old ELSE rhs,
        max  |-> IF larger THEN old ELSE rhs,
        minu |-> IF old < rhs THEN old ELSE rhs,
        maxu |-> IF old > rhs THEN old ELSE rhs][op]

Unreserved == [addr |-> 0, valid |-> FALSE]

\* A word is sign-extended into rd.
Extend(v, wide) == IF 2 * v >= Limit(wide) THEN v + Base * Base - Limit(wide) ELSE v

Return(h, v) == rd' = [rd EXCEPT ![h] = v]

-----------------------------------------------------------------------------
Init ==
    /\ mem = [a \in Addresses |-> 0]
    /\ reservations = [h \in Harts |-> Unreserved]
    /\ rd = [h \in Harts |-> 0]

LoadReserved(h, addr, wide) ==
    /\ Return(h, Extend(Read(mem, addr, wide), wide))
    /\ reservations' = [reservations EXCEPT ![h] = [addr |-> addr, valid |-> TRUE]]
    /\ UNCHANGED mem

Reserved(h, addr) == reservations[h] = [addr |-> addr, valid |-> TRUE]

StoreConditional(h, addr, wide, v) ==
    \/ /\ Reserved(h, addr)
       /\ mem' = Write(mem, addr, wide, v)
       /\ reservations' = [reservations EXCEPT ![h].valid = FALSE]
       /\ Return(h, 0)
    \/ /\ ~Reserved(h, addr)
       /\ Return(h, 1)
       /\ UNCHANGED <<mem, reservations>>

\* An AMO ends the reservations at its address.
EndReservations(addr) ==
    reservations' = [h \in Harts |->
                      IF reservations[h].addr = addr
                      THEN [reservations[h] EXCEPT !.valid = FALSE]
                      ELSE reservations[h]]

Amo(h, op, addr, wide, operand) ==
    LET old == Read(mem, addr, wide) IN
    /\ mem' = Write(mem, addr, wide, Apply(op, old, operand, wide))
    /\ EndReservations(addr)
    /\ Return(h, Extend(old, wide))

Store(addr, wide, v) ==
    /\ mem' = Write(mem, addr, wide, v)
    /\ UNCHANGED <<reservations, rd>>

Next ==
    \/ \E h \in Harts, acc \in AtomicAccesses :
         \/ LoadReserved(h, acc[1], acc[2])
         \/ \E v \in Operands : \/ StoreConditional(h, acc[1], acc[2], v)
                                \/ \E op \in AmoOps : Amo(h, op, acc[1], acc[2], v)
    \/ \E acc \in StoreAccesses, v \in Operands : Store(acc[1], acc[2], v)

Spec == Init /\ [][Next]_vars
=============================================================================
