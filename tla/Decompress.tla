----------------------------- MODULE Decompress -----------------------------
(***************************************************************************)
(* rv_decompress: the 32-bit instruction that a 16-bit one abbreviates      *)
(* (emulator/src/cpu/rv_decompress.c).  An expansion is a set of one        *)
(* instruction, or of none for a reserved or illegal word.                 *)
(***************************************************************************)
EXTENDS Encoding

\* The expansion insn, unless the word is reserved.
Unless(reserved, insn) == IF reserved THEN {} ELSE {insn}

\* CREG: the three-bit fields name x8 to x15.
Creg(in, lo) == 8 + Bits(in, lo, 3)
Rs1P(in) == Creg(in, 7)
RdP(in) == Creg(in, 2)
Rd(in) == Bits(in, 7, 5)
Rs2(in) == Bits(in, 2, 5)
Funct3(in) == Bits(in, 13, 3)

-----------------------------------------------------------------------------
(* Quadrant 0                                                              *)

CAddi4spn(in) ==
    LET nzuimm == At(in, 11, 2, 4) + At(in, 7, 4, 6) + At(in, 6, 1, 2) + At(in, 5, 1, 3)
    IN  Unless(nzuimm = 0, EncI(nzuimm, 2, 0, RdP(in), OP_IMM))

OffsetD(in) == At(in, 10, 3, 3) + At(in, 5, 2, 6)

\* The offset of C.LW has the bits of that of C.LD.
OffsetW_LikeD(in) == At(in, 10, 3, 3) + At(in, 5, 2, 6)

OffsetW(in) == At(in, 10, 3, 3) + At(in, 6, 1, 2) + At(in, 5, 1, 6)

\* funct3 is that of the compressed word.
CLoad_OwnFunct3(in, imm, funct3, opcode) ==
    {EncI(imm, Rs1P(in), Funct3(in), RdP(in), opcode)}

CLoad(in, imm, funct3, opcode) == {EncI(imm, Rs1P(in), funct3, RdP(in), opcode)}
CStore(in, imm, funct3, opcode) == {EncS(imm, RdP(in), Rs1P(in), funct3, opcode)}

Quadrant0(in) ==
    CASE Funct3(in) = 0 -> CAddi4spn(in)
      [] Funct3(in) = 1 -> CLoad(in, OffsetD(in), 3, LOAD_FP)
      [] Funct3(in) = 2 -> CLoad(in, OffsetW(in), 2, LOAD)
      [] Funct3(in) = 3 -> CLoad(in, OffsetD(in), 3, LOAD)
      [] Funct3(in) = 4 -> {}
      [] Funct3(in) = 5 -> CStore(in, OffsetD(in), 3, STORE_FP)
      [] Funct3(in) = 6 -> CStore(in, OffsetW(in), 2, STORE)
      [] Funct3(in) = 7 -> CStore(in, OffsetD(in), 3, STORE)

-----------------------------------------------------------------------------
(* Quadrant 1                                                              *)

Shamt(in) == At(in, 12, 1, 5) + Bits(in, 2, 5)
SImm6(in) == SignExtend(Shamt(in), 6)

CAddi16sp(in) ==
    LET nzimm == SignExtend(At(in, 12, 1, 9) + At(in, 6, 1, 4) + At(in, 5, 1, 6)
                            + At(in, 3, 2, 7) + At(in, 2, 1, 5), 10)
    IN  Unless(nzimm = 0, EncI(nzimm, 2, 0, 2, OP_IMM))

CLui(in) == Unless(SImm6(in) = 0 \/ Rd(in) = 0, EncU(SImm6(in), Rd(in), LUI))

CArith(in) ==
    LET rd == Rs1P(in)
        word == Bits(in, 12, 1) = 1
        op2 == Bits(in, 5, 2)
        Register(funct7, funct3, opcode) == EncR(funct7, RdP(in), rd, funct3, rd, opcode)
        opcode == IF word THEN OP_32 ELSE OP
    IN  CASE Bits(in, 10, 2) = 0 -> {EncI(Shamt(in), rd, 5, rd, OP_IMM)}
          [] Bits(in, 10, 2) = 1 -> {EncI(2^10 + Shamt(in), rd, 5, rd, OP_IMM)}
          [] Bits(in, 10, 2) = 2 -> {EncI(SImm6(in), rd, 7, rd, OP_IMM)}
          [] Bits(in, 10, 2) = 3 /\ op2 = 0 -> {Register(32, 0, opcode)}
          [] Bits(in, 10, 2) = 3 /\ op2 = 1 ->
                {Register(0, IF word THEN 0 ELSE 4, opcode)}
          [] Bits(in, 10, 2) = 3 /\ op2 > 1 ->
                Unless(word, Register(0, op2 + 4, opcode))

CJ(in) ==
    LET offset == SignExtend(At(in, 12, 1, 11) + At(in, 11, 1, 4) + At(in, 9, 2, 8)
                             + At(in, 8, 1, 10) + At(in, 7, 1, 6) + At(in, 6, 1, 7)
                             + At(in, 3, 3, 1) + At(in, 2, 1, 5), 12)
    IN  {EncJ(offset, 0, JAL)}

\* C.BEQZ and C.BNEZ
CBranch(in, funct3) ==
    LET offset == SignExtend(At(in, 12, 1, 8) + At(in, 10, 2, 3) + At(in, 5, 2, 6)
                             + At(in, 3, 2, 1) + At(in, 2, 1, 5), 9)
    IN  {EncB(offset, 0, Rs1P(in), funct3, BRANCH)}

Quadrant1(in) ==
    CASE Funct3(in) = 0 -> {EncI(SImm6(in), Rd(in), 0, Rd(in), OP_IMM)}
      [] Funct3(in) = 1 ->
            Unless(Rd(in) = 0, EncI(SImm6(in), Rd(in), 0, Rd(in), OP_IMM_32))
      [] Funct3(in) = 2 -> {EncI(SImm6(in), 0, 0, Rd(in), OP_IMM)}
      [] Funct3(in) = 3 -> IF Rd(in) = 2 THEN CAddi16sp(in) ELSE CLui(in)
      [] Funct3(in) = 4 -> CArith(in)
      [] Funct3(in) = 5 -> CJ(in)
      [] Funct3(in) \in {6, 7} -> CBranch(in, Funct3(in) - 6)

-----------------------------------------------------------------------------
(* Quadrant 2                                                              *)

OffsetDsp(in) == At(in, 12, 1, 5) + At(in, 5, 2, 3) + At(in, 2, 3, 6)
OffsetWsp(in) == At(in, 12, 1, 5) + At(in, 4, 3, 2) + At(in, 2, 2, 6)
StoreOffsetDsp(in) == At(in, 10, 3, 3) + At(in, 7, 3, 6)
StoreOffsetWsp(in) == At(in, 9, 4, 2) + At(in, 7, 2, 6)

\* C.JR, C.MV, C.EBREAK, C.JALR and C.ADD.  The last two link to x1.
CJumpOrMove(in) ==
    LET bit12 == Bits(in, 12, 1)
    IN  IF Rs2(in) # 0
        THEN {EncR(0, Rs2(in), IF bit12 = 1 THEN Rd(in) ELSE 0, 0, Rd(in), OP)}
        ELSE IF Rd(in) # 0 THEN {EncI(0, Rd(in), 0, bit12, JALR)}
        ELSE Unless(bit12 = 0, EncI(1, 0, 0, 0, SYSTEM))

Quadrant2(in) ==
    CASE Funct3(in) = 0 -> Unless(Rd(in) = 0, EncI(Shamt(in), Rd(in), 1, Rd(in), OP_IMM))
      [] Funct3(in) = 1 -> {EncI(OffsetDsp(in), 2, 3, Rd(in), LOAD_FP)}
      [] Funct3(in) = 2 -> Unless(Rd(in) = 0, EncI(OffsetWsp(in), 2, 2, Rd(in), LOAD))
      [] Funct3(in) = 3 -> Unless(Rd(in) = 0, EncI(OffsetDsp(in), 2, 3, Rd(in), LOAD))
      [] Funct3(in) = 4 -> CJumpOrMove(in)
      [] Funct3(in) = 5 -> {EncS(StoreOffsetDsp(in), Rs2(in), 2, 3, STORE_FP)}
      [] Funct3(in) = 6 -> {EncS(StoreOffsetWsp(in), Rs2(in), 2, 2, STORE)}
      [] Funct3(in) = 7 -> {EncS(StoreOffsetDsp(in), Rs2(in), 2, 3, STORE)}

DecompressWord(in) ==
    CASE Bits(in, 0, 2) = 0 -> Quadrant0(in)
      [] Bits(in, 0, 2) = 1 -> Quadrant1(in)
      [] Bits(in, 0, 2) = 2 -> Quadrant2(in)
      [] Bits(in, 0, 2) = 3 -> {}
=============================================================================
