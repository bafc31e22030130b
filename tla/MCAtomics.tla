------------------------------ MODULE MCAtomics ------------------------------
(* Values of the constants of Atomics for model checking.                  *)
EXTENDS Atomics

\* Both words of a pair, alone and together.
Pair == {<<0, FALSE>>, <<1, FALSE>>, <<0, TRUE>>}
\* A word the atomic operations leave alone.
Elsewhere == {<<2, FALSE>>}
=============================================================================
