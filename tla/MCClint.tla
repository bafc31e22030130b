------------------------------- MODULE MCClint -------------------------------
(* Values of the constants of Clint for model checking.                    *)
EXTENDS Clint

Own == {<<h, h>> : h \in Harts}
All == Harts \X Harts
FromHart0 == {<<0, h>> : h \in Harts}
Hart0ToHart1 == {<<0, 1>>}
Nobody == {}

\* The largest value an mtimecmp register holds.
FarFuture == {0, Modulus - 1}
=============================================================================
