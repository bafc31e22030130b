------------------------------- MODULE MCPlic -------------------------------
(* Values of the constants of Plic for model checking.                     *)
EXTENDS Plic

OnOff == {{}, {1}}

\* mip writes: every bit of RV_SIP_WMASK is replaced.  STIP behaves like SSIP
\* and is left out to keep the state small.
MipWrites == CsrInsns \X {{"SSIP", "SEIP"}} \X {{"SSIP"}, {"SSIP", "SEIP"}}
\* csrs and csrc of SSIP alone.
MipSsip == {"csrrs", "csrrc"} \X {{"SSIP", "SEIP"}} \X {{"SSIP"}}
\* sip writes while mideleg delegates SSIP alone.
SipWrites == CsrInsns \X {{"SSIP"}} \X {{"SSIP"}}
=============================================================================
