-------------------------------- MODULE MCPmp -------------------------------
(* Values of the constants of Pmp for model checking: 64 bytes of memory in *)
(* pages of 32.                                                            *)
EXTENDS Pmp

\* 8 bytes at 0, 16 at 16, 32 at 32, everything.
SomeAddresses == {0, 5, 11, 15}

Mode(p, a, l) == [perm |-> p, a |-> a, l |-> l]
SomeCfgs ==
    {Mode({}, 0, FALSE), Mode({"R"}, 3, FALSE), Mode(All, 2, FALSE),
     Mode({}, 3, TRUE), Mode({"R"}, 2, TRUE), Mode(All, 1, TRUE)}

\* Accesses of the hart, inside, outside and across the edges of those regions.
HartAccesses == ({0, 5, 7, 15, 28, 31} \X {2, 8}) \cup {<<7, 1>>, <<16, 1>>, <<57, 4>>}

\* The check of a page whose translation is cached, and 8 bytes amid it.
PageAccesses == {<<0, 32>>, <<32, 32>>}
Amid == {2}
=============================================================================
