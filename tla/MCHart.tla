------------------------------- MODULE MCHart -------------------------------
(* Values of the constants of Hart for model checking.                     *)
EXTENDS Hart

\* Everything disabled, everything enabled, a return to supervisor mode with
\* MPRV set, and one to the privilege that does not exist (with a reserved bit).
Status == {{}, {SIE, MIE, MPIE, SPIE}, {MPP, SPP, MPRV},
           {MPP + 1, MPRV, TSR, 4}}
ReservedMpp == {{MPP + 1}}
\* Interrupts of each mode enabled before and after a return to supervisor mode.
Enabled == {{MIE, MPIE, SIE, SPIE, MPP, SPP}, {}}

Exceptions == {{"fetch", "illegal", "ecall_u"}}
ExternalOnly == {{"SEIP"}}
Nothing == {{}}
Everything == {{"MTIP", "SEIP"}}
TimerOnly == {{"MTIP"}}
=============================================================================
