------------------------------ MODULE MCFloat -------------------------------
(* Values of the constants of Float for model checking.                    *)
EXTENDS Float, TLC

Op(op, fmt, funct3, rd, rs1, rs2) ==
    [op |-> op, fmt |-> fmt, funct3 |-> funct3, rd |-> rd, rs1 |-> rs1, rs2 |-> rs2,
     rs3 |-> 1]

\* Modes: the four of the host, round to nearest away, a reserved one and frm.
FewInsns ==
    {Op(op, fmt, f3, 0, 0, 1) : op \in Arithmetic \cup FusedOps, fmt \in Formats,
                                f3 \in {0, 1, 2, 3, 4, 5, 7}}
      \cup {Op(op, fmt, f3, 0, 0, 1) : op \in {"EQ_LE_LT", "SGNJ", "MIN_MAX"},
                                       fmt \in Formats, f3 \in 0..3}
      \cup {Op(op, fmt, f3, 0, 0, sel) : op \in {"FCVT_FTOX", "FCVT_XTOF"},
                                         fmt \in Formats, f3 \in {0, 1, 2, 3, 7},
                                         sel \in 0..3}
      \cup {Op("FCVT_FTOF", fmt, f3, 0, 0, sel) : fmt \in Formats, f3 \in {0, 3, 7},
                                                  sel \in 0..1}
      \cup {Op("MVXF_CLASS", fmt, f3, 0, 0, 0) : fmt \in Formats, f3 \in {0, 1}}
      \cup {Op("MVFX", fmt, 0, 1, 0, 0) : fmt \in Formats}
      \cup {Op("NONE", "S", 2, 0, 0, 0)}
      \cup {Op(op, "H", 0, 0, 0, 1) : op \in {"ADD", "MADD"}}
      \cup {[op |-> "CSR", csr |-> "fcsr", flags |-> {"NV"}, frm |-> 3],
            [op |-> "CSR", csr |-> "fflags", flags |-> {}, frm |-> 0],
            [op |-> "CSR", csr |-> "frm", flags |-> {}, frm |-> 6]}

FewSingles ==
    {Canonical, Nan(TRUE, "other"), Nan(FALSE, "signalling"), Inf(TRUE), Inf(FALSE),
     Finite(TRUE, 0), Finite(FALSE, 0), Finite(FALSE, 4), Finite(TRUE, 12),
     Finite(FALSE, 20), Finite(FALSE, 48), Finite(TRUE, 64)}

FewDoubles ==
    {Nan(FALSE, "other"), Nan(TRUE, "signalling"), Inf(TRUE), Finite(TRUE, 0),
     Finite(FALSE, 0), Finite(TRUE, 2), Finite(FALSE, 6), Finite(FALSE, 20),
     Finite(TRUE, 22), Finite(FALSE, 40), Finite(TRUE, 80)}

FewRegisters == {Boxed(v) : v \in FewSingles} \cup {Unboxed(v) : v \in FewDoubles}

\* What one instruction can leave in the host, the guest having cleared fflags since
FewExcepts == {{}, {"NV"}, {"DZ"}, {"UF", "NX"}}

\* Every pair of registers for one instruction; for sequences, a few registers with
\* every rounding mode, with mstatus.FS on and off.
FewStarts ==
    {[fregs |-> f, x |-> [int |-> 2], frm |-> 2, fs |-> TRUE, excepts |-> {"OF", "NX"},
      insns |-> 1] : f \in [{0, 1} -> FewRegisters]}
      \cup
    {[fregs |-> f, x |-> [int |-> n], frm |-> m, fs |-> on, excepts |-> ex,
      insns |-> 1] :
        f \in [{0, 1} -> {Boxed(Finite(FALSE, 20))}], n \in Longs, m \in 0..7,
        on \in BOOLEAN, ex \in FewExcepts}
      \cup
    {[fregs |-> f, x |-> [int |-> 3], frm |-> m, fs |-> TRUE, excepts |-> {}, insns |-> 2] :
        f \in {(0 :> Boxed(Finite(FALSE, 20))) @@ (1 :> r) :
                    r \in {Boxed(Finite(FALSE, 12)), Unboxed(Finite(TRUE, 22))}},
        m \in {1, 5}}

FewNans == {Nan(TRUE, "default"), Nan(FALSE, "other")}
=============================================================================
