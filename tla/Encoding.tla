------------------------------ MODULE Encoding ------------------------------
(***************************************************************************)
(* Instruction words (emulator/include/cpu/rv_insn.h) and the encoders of  *)
(* emulator/include/cpu/rv_decompress.h.  A 32-bit instruction is the      *)
(* record of the six fields that the R format cuts it into; every other    *)
(* format puts the bits of an immediate into some of them.                 *)
(***************************************************************************)
EXTENDS Integers

\* RV_INSN_BITFIELD: width bits of x from bit lo up.
Bits(x, lo, width) == (x \div 2^lo) % 2^width

\* The same bits, moved to position to.
At(x, lo, width, to) == Bits(x, lo, width) * 2^to

\* (x << (32 - width)) >> (32 - width) on an int32_t
SignExtend(x, width) ==
    LET low == Bits(x, 0, width)
    IN  IF low >= 2^(width - 1) THEN low - 2^width ELSE low

\* enum rv_op_maj
LOAD == 0
LOAD_FP == 1
MISC_MEM == 3
OP_IMM == 4
AUIPC == 5
OP_IMM_32 == 6
STORE == 8
STORE_FP == 9
AMO == 11
OP == 12
LUI == 13
OP_32 == 14
MADD == 16
MSUB == 17
NMSUB == 18
NMADD == 19
OP_FP == 20
BRANCH == 24
JALR == 25
JAL == 27
SYSTEM == 28

Insns == [opcode : 0..31, rd : 0..31, funct3 : 0..7, rs1 : 0..31, rs2 : 0..31,
          funct7 : 0..127]

-----------------------------------------------------------------------------
(* rv_enc_r and its companions.                                            *)

EncR(funct7, rs2, rs1, funct3, rd, opcode) ==
    [opcode |-> opcode, rd |-> rd, funct3 |-> funct3, rs1 |-> rs1, rs2 |-> rs2,
     funct7 |-> funct7]

EncI(imm, rs1, funct3, rd, opcode) ==
    EncR(Bits(imm, 5, 7), Bits(imm, 0, 5), rs1, funct3, rd, opcode)

EncS(imm, rs2, rs1, funct3, opcode) ==
    EncR(Bits(imm, 5, 7), rs2, rs1, funct3, Bits(imm, 0, 5), opcode)

EncU(imm, rd, opcode) ==
    EncR(Bits(imm, 13, 7), Bits(imm, 8, 5), Bits(imm, 3, 5), Bits(imm, 0, 3), rd,
         opcode)

EncB(imm, rs2, rs1, funct3, opcode) ==
    EncR(At(imm, 12, 1, 6) + Bits(imm, 5, 6), rs2, rs1, funct3,
         At(imm, 1, 4, 1) + Bits(imm, 11, 1), opcode)

EncJ(imm, rd, opcode) ==
    EncR(At(imm, 20, 1, 6) + Bits(imm, 5, 6),
         At(imm, 1, 4, 1) + Bits(imm, 11, 1),
         Bits(imm, 15, 5), Bits(imm, 12, 3), rd, opcode)

-----------------------------------------------------------------------------
(* The immediates as the instructions read them back.                      *)

\* RV_INSN_UIMM12, RV_INSN_IMM12 and RV_INSN_S_IMM12
UImm12(insn) == insn.funct7 * 32 + insn.rs2
Imm12(insn) == SignExtend(UImm12(insn), 12)
SImm12(insn) == SignExtend(insn.funct7 * 32 + insn.rd, 12)

\* rv_base_lui
UImm20(insn) ==
    insn.funct7 * 2^13 + insn.rs2 * 2^8 + insn.rs1 * 2^3 + insn.funct3

\* rv_base_branch
BImm(insn) ==
    SignExtend(At(insn.rd, 1, 4, 1) + At(insn.funct7, 0, 6, 5)
               + At(insn.rd, 0, 1, 11) + At(insn.funct7, 6, 1, 12), 13)

\* rv_base_jal
JImm(insn) ==
    SignExtend(insn.funct3 * 2^12 + insn.rs1 * 2^15 + At(insn.rs2, 0, 1, 11)
               + At(insn.rs2, 1, 4, 1) + At(insn.funct7, 0, 6, 5)
               + At(insn.funct7, 6, 1, 20), 21)

\* The two halfwords of an instruction put together.
Joined(hw, hw2) ==
    EncR(Bits(hw2, 9, 7), Bits(hw2, 4, 5), At(hw2, 0, 4, 1) + Bits(hw, 15, 1),
         Bits(hw, 12, 3), Bits(hw, 7, 5), Bits(hw, 2, 5))
=============================================================================
