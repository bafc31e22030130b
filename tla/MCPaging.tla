------------------------------ MODULE MCPaging ------------------------------
(* Values of the constants of Paging for model checking: tables of two PTEs, *)
(* a root and a table below it for pages 0 and 1, data pages from 4 on.    *)
EXTENDS Paging, TLC

Pointer(ppn) == [v |-> TRUE, bits |-> {}, ppn |-> ppn]
Leaf(bits, ppn) == [v |-> TRUE, bits |-> bits, ppn |-> ppn]
RW == {"R", "W"}

\* Address space a has table a as its root.
RootIsAsid == [asid \in Asids |-> asid]

\* Space 0: page 0 through table 2, pages 2 and 3 a superpage.
\* Space 1: pages 0 and 1 a global superpage.
TwoSpaces ==
    (<<0, 0>> :> Pointer(2)) @@ (<<0, 1>> :> Leaf(RW, 4)) @@
    (<<1, 0>> :> Leaf({"R", "W", "G"}, 6)) @@ (<<1, 1>> :> NoPte) @@
    (<<2, 0>> :> Leaf(RW, 8)) @@ (<<2, 1>> :> NoPte)

\* Page 0 of space 0 is unmapped or moved, its table moved a level up or linked
\* below itself; page 2 gets a misaligned superpage; page 0 of space 1 moves.
Remappings ==
    {<<<<2, 0>>, NoPte>>, <<<<2, 0>>, Leaf(RW, 9)>>,
     <<<<0, 1>>, Pointer(2)>>, <<<<2, 0>>, Pointer(2)>>,
     <<<<0, 1>>, Leaf(RW, 5)>>, <<<<1, 0>>, Leaf(RW, 12)>>}

LoadsAndStores == {"load", "store"} \X {"supervisor"}
Loads == {"load"} \X {"supervisor"}
LoadsOfBoth == {"load"} \X {"supervisor", "user"}

\* One space of one table: pages 0 and 1.
OneTable == (<<0, 0>> :> Leaf({"R", "W", "G"}, 4)) @@ (<<0, 1>> :> Leaf({"R"}, 5))
FourPages == [slot \in Slots |-> Leaf(RW, 4 + slot[2])]
Remap == {<<<<0, 0>>, Leaf(RW, 6)>>, <<<<0, 0>>, NoPte>>}
=============================================================================
