------------------------------- MODULE MCCsr --------------------------------
(* Values of the constants of Csr for model checking.                      *)
EXTENDS Csr

\* Values that matter to each register: its fields, fields it does not have, and for
\* satp a mode that is not supported.
Matter == [fflags |-> {{0, 5}}, frm |-> {{1, 3}}, fcsr |-> {{2, 6, 8}}, none |-> {{}},
           sstatus |-> {{1, 3, 20}}, sie |-> {{9}}, sip |-> {{1, 3, 9}},
           sscratch |-> {{0}}, satp |-> {{7, 63}, {60}},
           mstatus |-> {{13, 20, 23}, {3, 13}, {2, 4, 12}}, mie |-> {{9}},
           mip |-> {{1, 11}}, mideleg |-> {{9, 11}}, medeleg |-> {{8}},
           mscratch |-> {{0}}, mhartid |-> {{0}}]

Insn(r, op, imm, x0, toX0, v) ==
    [csr |-> r, op |-> op, imm |-> imm, rs1IsZero |-> x0, rdIsZero |-> toX0, value |-> v]

FewInsns ==
    UNION {{Insn(r, op, FALSE, FALSE, toX0, v) : op \in {"write", "set", "clear"},
                                               toX0 \in BOOLEAN, v \in Matter[r]} :
              r \in Indices}
      \cup {Insn("mip", op, imm, TRUE, FALSE, {}) : op \in {"set", "clear"},
                                                    imm \in BOOLEAN}
      \cup {Insn("mscratch", "none", TRUE, TRUE, TRUE, {})}

MeipAndSeip == {9, 11}
=============================================================================
