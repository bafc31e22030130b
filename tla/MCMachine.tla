----------------------------- MODULE MCMachine ------------------------------
(* Values of the constants of Machine for model checking.                  *)
EXTENDS Machine

\* Interrupts of each mode enabled, before and after a return to supervisor mode.
Enabled == {{MIE, MPIE, SIE, SPIE, MPP, SPP}, {}}
Exceptions == {{"ecall_u"}}
ExternalOnly == {{"SEIP"}}
Both == {{"MTIP", "SEIP"}}
=============================================================================
