------------------------------ MODULE MCPhysMem -----------------------------
(* Values of the constants of PhysMem for model checking: pages of four     *)
(* bytes, RAM in pages 1 and 2, devices from page 3 on.                   *)
EXTENDS PhysMem

Device(first, length) == [base |-> first, size |-> length]

\* One right behind the RAM, two that meet, and one that hides a part of another; holes
\* before the RAM, at 14 and 15, and behind the last.
Meeting == <<Device(12, 2), Device(16, 3), Device(19, 2), Device(20, 4)>>

Sizes == {1, 2, 4}
EverySize == (2..25) \X Sizes

\* Single accesses that devices refuse.
Refusals == {<<12, 1>>, <<13, 1>>, <<21, 2>>}

\* The parts of an access that crosses from the end of page p to page q.
Crossing(p, q) ==
    {<<<<4 * p + 4 - n, n>>, <<4 * q, size - n>>>> : n \in {1}, size \in {2, 4}}
    \cup {<<<<4 * p + 4 - n, n>>, <<4 * q, size - n>>>> : n \in {2, 3}, size \in {4}}
AnyPages == UNION {Crossing(p, q) : p \in {1, 2, 4}, q \in {2, 3, 5}}

\* The last addresses, from where addr + size wraps round.
Top == {60, 62, 63} \X Sizes
=============================================================================
