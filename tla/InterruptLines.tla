--------------------------- MODULE InterruptLines ---------------------------
(***************************************************************************)
(* What an interrupt controller promises the harts it is wired to: what its *)
(* registers ask for is changed at once, then the lines follow, each when   *)
(* its turn comes and never to another level than it is asked to have, and  *)
(* the registers are not changed again until all of them have.  Plic        *)
(* implements this module on bits that others write beside it               *)
(* (emulator/src/device/rv_plic.c 29-57).                                   *)
(***************************************************************************)
EXTENDS Integers

CONSTANT Lines

VARIABLES
    asked,          \* the lines that the registers ask to be high
    high,           \* the lines that are high
    settled         \* no change of the registers is being carried out

lineVars == <<asked, high, settled>>

LinesInit ==
    /\ asked = {}
    /\ high = {}
    /\ settled = TRUE

\* A register is written, a source raised or claimed.
Change ==
    /\ settled
    /\ settled' = FALSE
    /\ asked' \in SUBSET Lines
    /\ UNCHANGED high

Follow(l) ==
    /\ ~settled
    /\ high' = IF l \in asked THEN high \cup {l} ELSE high \ {l}
    /\ UNCHANGED <<asked, settled>>

Settle ==
    /\ ~settled
    /\ high = asked
    /\ settled' = TRUE
    /\ UNCHANGED <<asked, high>>

LinesNext == Change \/ Settle \/ \E l \in Lines : Follow(l)

LinesSpec == LinesInit /\ [][LinesNext]_lineVars
=============================================================================
