----------------------------- MODULE Arithmetic -----------------------------
(***************************************************************************)
(* The integer operations: rv_base_op and rv_base_branch                   *)
(* (emulator/src/cpu/rv_impl/base.c) and rv_muldiv_op (muldiv.c).  XLEN is *)
(* 64 in the code.  An operation is computed on unbounded integers, and    *)
(* cut to a register as C does it.                                         *)
(***************************************************************************)
EXTENDS Encoding

CONSTANTS
    XLEN,
    BitAnd(_, _),   \* the operators &, | and ^ of C, on registers
    BitOr(_, _),
    BitXor(_, _)

HalfLen == XLEN \div 2
Words == 0..(2^XLEN - 1)

ASSUME ArithmeticAssumption ==
    /\ XLEN \in Nat \ {0} /\ XLEN % 8 = 0
    /\ \A a, b \in Words : {BitAnd(a, b), BitOr(a, b), BitXor(a, b)} \subseteq Words

\* (uint64_t)i and (int64_t)i; and (int64_t)(int32_t)i
Unsigned(i) == i % 2^XLEN
Signed(i) == SignExtend(i, XLEN)
SignedHalf(i) == SignExtend(i, HalfLen)

IsRegister(insn) == insn.opcode \in {OP, OP_32}
IsWord(insn) == insn.opcode \in {OP_32, OP_IMM_32}

\* The operands as unsigned and as signed numbers; *W instructions cut them.
Low(insn, v) == IF IsWord(insn) THEN v % 2^HalfLen ELSE v
Value(insn, v) == IF IsWord(insn) THEN SignedHalf(v) ELSE Signed(v)

\* The result as a register; *W instructions sign-extend it.
Result(insn, i) == Unsigned(IF IsWord(insn) THEN SignedHalf(i) ELSE i)

Truth(p) == IF p THEN 1 ELSE 0

-----------------------------------------------------------------------------
(* rv_base_op, on the operands a and b                                     *)

\* A right shift that does not cut the operand of a *W instruction first.
ShiftRight_Wide(insn, a, shamt) ==
    (IF Bits(insn.funct7, 5, 1) = 1 THEN Value(insn, a) ELSE a) \div 2^shamt

ShiftRight(insn, a, shamt) ==
    (IF Bits(insn.funct7, 5, 1) = 1 THEN Value(insn, a) ELSE Low(insn, a)) \div 2^shamt

BaseResult(insn, a, b) ==
    LET lhs == Low(insn, a)
        rhs == Low(insn, b)
        shamt == rhs % (IF IsWord(insn) THEN HalfLen ELSE XLEN)
    IN  Result(insn,
          CASE insn.funct3 = 0 ->
                 IF Bits(insn.funct7, 5, 1) = 1 /\ IsRegister(insn)
                 THEN lhs - rhs ELSE lhs + rhs
            [] insn.funct3 = 1 -> lhs * 2^shamt
            [] insn.funct3 = 2 -> Truth(Value(insn, a) < Value(insn, b))
            [] insn.funct3 = 3 -> Truth(lhs < rhs)
            [] insn.funct3 = 4 -> BitXor(lhs, rhs)
            [] insn.funct3 = 5 -> ShiftRight(insn, a, shamt)
            [] insn.funct3 = 6 -> BitOr(lhs, rhs)
            [] insn.funct3 = 7 -> BitAnd(lhs, rhs))

-----------------------------------------------------------------------------
(* rv_muldiv_op                                                            *)

\* The most negative number of the operands' width.
Lowest(insn) == -(2^((IF IsWord(insn) THEN HalfLen ELSE XLEN) - 1))

\* The division of C, which rounds towards zero, and its remainder.
Magnitude(i) == IF i < 0 THEN -i ELSE i
CQuotient(x, y) ==
    LET q == Magnitude(x) \div Magnitude(y)
    IN  IF (x < 0) = (y < 0) THEN q ELSE -q
CRemainder(x, y) == x - y * CQuotient(x, y)

Quotient(insn, a, b) ==
    LET x == Value(insn, a)
        y == Value(insn, b)
    IN  CASE y = 0 -> -1
          [] x = Lowest(insn) /\ y = -1 -> Lowest(insn)
          [] OTHER -> CQuotient(x, y)

\* A zero divisor is not told apart.
Remainder_ZeroIsZero(insn, a, b) ==
    LET x == Value(insn, a)
        y == Value(insn, b)
    IN  IF y \in {0, -1} THEN 0 ELSE CRemainder(x, y)

Remainder(insn, a, b) ==
    LET x == Value(insn, a)
        y == Value(insn, b)
    IN  CASE y = 0 -> x
          [] x = Lowest(insn) /\ y = -1 -> 0
          [] OTHER -> CRemainder(x, y)

\* MULHSU takes its operands the other way round.
HighProduct_Swapped(insn, a, b) ==
    (CASE insn.funct3 = 1 -> Signed(a) * Signed(b)
       [] insn.funct3 = 2 -> a * Signed(b)
       [] insn.funct3 = 3 -> a * b) \div 2^XLEN

\* The upper half of the product, of signed, mixed and unsigned operands.  The
\* mixed one multiplies two's complement numbers of twice the width.
HighProduct(insn, a, b) ==
    (CASE insn.funct3 = 1 -> Signed(a) * Signed(b)
       [] insn.funct3 = 2 -> Signed(a) * b
       [] insn.funct3 = 3 -> a * b) \div 2^XLEN

\* The *W instructions have no upper half.
MulDivIllegal(insn) == IsWord(insn) /\ insn.funct3 \in 1..3

MulDivResult(insn, a, b) ==
    LET lhs == Low(insn, a)
        rhs == Low(insn, b)
    IN  Result(insn,
          CASE insn.funct3 = 0 -> Value(insn, a) * Value(insn, b)
            [] insn.funct3 \in 1..3 -> HighProduct(insn, a, b)
            [] insn.funct3 = 4 -> Quotient(insn, a, b)
            [] insn.funct3 = 5 -> IF rhs = 0 THEN -1 ELSE lhs \div rhs
            [] insn.funct3 = 6 -> Remainder(insn, a, b)
            [] insn.funct3 = 7 -> IF rhs = 0 THEN lhs ELSE lhs % rhs)

-----------------------------------------------------------------------------
(* rv_base_branch                                                          *)

BranchIllegal(insn) == insn.funct3 \in {2, 3}

\* BGE is BLT of the swapped operands.
Taken_GreaterOnly(insn, a, b) ==
    CASE insn.funct3 = 0 -> a = b
      [] insn.funct3 = 1 -> a # b
      [] insn.funct3 = 4 -> Signed(a) < Signed(b)
      [] insn.funct3 = 5 -> Signed(a) > Signed(b)
      [] insn.funct3 = 6 -> a < b
      [] insn.funct3 = 7 -> a >= b

Taken(insn, a, b) ==
    CASE insn.funct3 = 0 -> a = b
      [] insn.funct3 = 1 -> a # b
      [] insn.funct3 = 4 -> Signed(a) < Signed(b)
      [] insn.funct3 = 5 -> Signed(a) >= Signed(b)
      [] insn.funct3 = 6 -> a < b
      [] insn.funct3 = 7 -> a >= b
=============================================================================
