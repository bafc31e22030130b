------------------------------- MODULE MCCore -------------------------------
(* Values of the constants of Core for model checking: every compressed     *)
(* word with one pair of operands, and full instructions with boundary      *)
(* operands.                                                               *)
EXTENDS Core, Bitwise

BitwiseAnd(a, b) == a & b
BitwiseOr(a, b) == a | b
BitwiseXor(a, b) == a ^^ b

\* The halfwords that an instruction of the given fields is made of.
Code(i) ==
    <<3 + i.opcode * 4 + i.rd * 2^7 + i.funct3 * 2^12 + (i.rs1 % 2) * 2^15,
      i.rs1 \div 2 + i.rs2 * 2^4 + i.funct7 * 2^9>>

Rd5(f7, f3, op) == EncR(f7, 6, 5, f3, 7, op)

Operations ==
    {Rd5(f7, f3, op) : f7 \in {0, 32}, f3 \in 0..7, op \in {OP, OP_32}}
      \cup {Rd5(1, f3, op) : f3 \in 0..7, op \in {OP, OP_32}}
      \cup {EncI(imm, 5, f3, 7, op) : imm \in {-3, 5}, f3 \in {0, 2, 3, 4, 6, 7},
                                      op \in {OP_IMM, OP_IMM_32}}
      \cup {EncI(imm, 5, f3, 7, op) : imm \in {3, 32 * 32 + 3}, f3 \in {1, 5},
                                      op \in {OP_IMM, OP_IMM_32}}

Transfers ==
    {EncI(imm, 5, f3, 7, op) : imm \in {0, -2}, f3 \in 0..7, op \in {LOAD, LOAD_FP}}
      \cup {EncS(imm, 6, 5, f3, op) : imm \in {0, -2}, f3 \in 0..7,
                                      op \in {STORE, STORE_FP}}

Jumps ==
    {EncI(imm, 5, 0, rd, JALR) : imm \in {0, 7}, rd \in {0, 5, 7}}
      \cup {EncJ(imm, rd, JAL) : imm \in {-6, 2^11 + 16}, rd \in {0, 1}}
      \cup {EncB(imm, 6, 5, f3, BRANCH) : imm \in {-6, 2^11 + 16}, f3 \in 0..7}
      \cup {EncU(imm, 7, op) : imm \in {1, 2^20 - 2}, op \in {LUI, AUIPC}}

Others ==
    {EncI(0, 0, 0, 0, SYSTEM), EncI(1, 0, 0, 0, SYSTEM), EncI(0, 0, 0, 0, MISC_MEM),
     EncI(0, 0, 0, 0, 26)}

Boundary == {0, 1, 2, 7, 8, 15, 16, 126, 127, 128, 129, 240, 255}

From(codes, pcs, odds, evens, units) ==
    [codes |-> codes, pcs |-> pcs, odds |-> odds, evens |-> evens, units |-> units]

Codes(insns) == {Code(i) : i \in insns}
CompressedWords == {w \in 0..65535 : (w % 4) # 3}
CompressedFloats == {w \in CompressedWords : (w % 4) # 1 /\ Funct3(w) \in {1, 5}}
Alone(words) == {<<w, NoCode>> : w \in words}

\* At 252 and 254 the pc wraps.  The compressed floating-point loads and stores
\* also run while mstatus.FS is zero.
Samples ==
    {From(Codes(Operations), {252}, Boundary, Boundary, {TRUE}),
     From(Codes(Jumps), {2, 252}, {0, 15, 127, 128, 129}, {0, 15, 128, 129}, {TRUE}),
     From(Codes(Transfers), {0}, {0, 120, 122, 128, 129, 130, 135}, {0, 90, 165, 255},
          BOOLEAN),
     From(Codes(Others), {0}, {1}, {2}, {TRUE}),
     From(Alone({3}), {0, 254}, {1}, {2}, {TRUE}),
     From(Alone(CompressedWords), {126}, {253}, {14}, {TRUE}),
     From(Alone(CompressedFloats), {126}, {253}, {14}, {FALSE})}

Near == 120..136
Striped == [a \in Near |-> IF a \in {121, 124, 125, 127} THEN 1 ELSE 0]
=============================================================================
