------------------------------- MODULE Float --------------------------------
(***************************************************************************)
(* The F and D instructions of one hart                                    *)
(* (emulator/src/cpu/rv_impl/float.c) and the CSRs fcsr, fflags and frm.   *)
(* Arithmetic is the host's, on the small formats of Ieee.                 *)
(*                                                                         *)
(* A 64-bit register is a boxed single or a double.  Its other reading is  *)
(* what the bits say: a boxed single read as a double is a NaN, the low    *)
(* half of a (short) double is zero.  The integer register holds an        *)
(* integer, a word of single bits or a doubleword of register bits.        *)
(*                                                                         *)
(* rv_float_exact_math is false and nothing sets it, so the SoftFloat      *)
(* branches are never taken and are left out.                              *)
(***************************************************************************)
EXTENDS Ieee, FiniteSets

CONSTANTS
    FRegs,       \* floating-point registers
    Insns,       \* instructions that may be executed
    Starts,      \* initial [fregs, x, frm, fs, excepts, insns]; insns: bound on
                 \* instructions
    WordLen,     \* bits of a 32-bit integer
    LongLen,     \* bits of a 64-bit integer
    HostNans     \* NaNs the host may compute

Boxed(v) == [boxed |-> TRUE, single |-> v]
Unboxed(v) == [boxed |-> FALSE, double |-> v]
Registers == {Boxed(v) : v \in Values("S")} \cup {Unboxed(v) : v \in Values("D")}

Longs == (-(2^(LongLen - 1)))..(2^(LongLen - 1) - 1)
IntRegisters ==
    [int : Longs] \cup [class : SUBSET (0..9)] \cup [word : Values("S")]
      \cup [doubleword : Registers]

Arithmetic == {"ADD", "SUB", "MUL", "DIV", "SQRT"}
FusedOps == {"MADD", "MSUB", "NMSUB", "NMADD"}

FloatOps ==
    Arithmetic \cup FusedOps
      \cup {"EQ_LE_LT", "SGNJ", "MIN_MAX", "FCVT_FTOF", "FCVT_XTOF", "FCVT_FTOX",
            "MVXF_CLASS", "MVFX", "NONE"}
TwoOperands == (Arithmetic \ {"SQRT"}) \cup FusedOps \cup {"EQ_LE_LT", "SGNJ", "MIN_MAX"}

\* rs2 names a register, or selects the type of a conversion.
ASSUME FloatAssumption ==
    /\ WordLen \in Nat \ {0} /\ LongLen \in Nat \ {0} /\ WordLen < LongLen
    /\ HostNans \subseteq {v \in Values("S") : IsNan(v) /\ v.payload # "signalling"}
    /\ \A i \in Insns :
         \/ i.op = "CSR" /\ i.flags \subseteq Flags /\ i.frm \in 0..7
         \/ /\ i.op \in FloatOps /\ i.funct3 \in 0..7
            /\ {i.rd, i.rs1, i.rs3} \subseteq FRegs
            /\ i.rs2 \in IF i.op \in TwoOperands THEN FRegs ELSE Nat
    /\ \A s \in Starts :
         /\ s.fregs \in [FRegs -> Registers] /\ s.x \in IntRegisters
         /\ "class" \in DOMAIN s.x => Cardinality(s.x.class) = 1
         /\ s.frm \in 0..7 /\ s.fs \in BOOLEAN /\ s.excepts \subseteq Flags
         /\ s.insns \in Nat

VARIABLES
    fregs,      \* cpu->fregs
    x,          \* the integer register that instructions read and write
    fs,         \* mstatus.FS is not off
    fflags,     \* fcsr.fflags
    frm,        \* fcsr.frm
    host,       \* the rounding mode of the thread, set by fesetround(), and
    excepts,    \*   its exceptions, which stay until feclearexcept() clears them
    insn,       \* history: the instruction executed last, and
    outcome,    \*   "none", "done" or "illegal"
    left        \* bound: how many more may be executed
vars == <<fregs, x, fs, fflags, frm, host, excepts, insn, outcome, left>>

\* Variant: the result is not sign-extended.
SignedTo_ZeroExtends(res, width) == res % 2^width

\* res, cut to width bits and sign-extended
SignedTo(res, width) ==
    LET low == res % 2^width
    IN  IF low >= 2^(width - 1) THEN low - 2^width ELSE low

-----------------------------------------------------------------------------
(* Registers, rounding mode and flags                                      *)

\* Variant: the low half is read whatever the upper one holds.
ReadSingle_LowHalf(r) == IF r.boxed THEN r.single ELSE Finite(FALSE, 0)

\* rv_freg_read_f32: what is not boxed is the canonical NaN.
ReadSingle(r) == IF r.boxed THEN r.single ELSE Canonical

\* rv_freg_read, the register taken as a double or by its low half
ReadDouble(r) == IF r.boxed THEN Nan(TRUE, "other") ELSE r.double
LowHalf(r) == IF r.boxed THEN r.single ELSE Finite(FALSE, 0)

Read(n, fmt) == IF fmt = "S" THEN ReadSingle(fregs[n]) ELSE ReadDouble(fregs[n])

\* The unused half of res is all ones.
WriteFreg(i, v) ==
    fregs' = [fregs EXCEPT ![i.rd] = IF i.fmt = "S" THEN Boxed(v) ELSE Unboxed(v)]

\* Variant: only the payload is made canonical.
Canonized_KeepsSign(v) == IF IsNan(v) THEN Nan(v.neg, "default") ELSE v

\* CANON_NAN_F32, CANON_NAN_F64
Canonized(v) == IF IsNan(v) THEN Canonical ELSE v

\* Variant: rv_float_fmadd does not clear them.
Cleared_NotFused(i) == IF i.op \in FusedOps THEN excepts ELSE excepts \ Flags

\* feclearexcept() at the head of rv_float_op_fp and of rv_float_fmadd: what the
\* instructions before this one have left is gone.
Cleared(i) == excepts \ Flags

\* The host adds what an operation raises to what is there.
Raise(i, raised) == excepts' = Cleared(i) \cup raised

\* check_fflags: all that is there is added to what the guest has.
Accrue(i, raised) == Raise(i, raised) /\ fflags' = fflags \cup excepts'

\* Whether isnan(), isinf() and their companions raise the invalid exception for a
\* signalling NaN is up to the compiler (gcc's do).
Looking(values) == {{}, IF \E v \in values : IsSnan(v) THEN {"NV"} ELSE {}}

Asked(i) == IF i.funct3 = 7 THEN frm ELSE i.funct3

\* Variant: the dynamic mode is not looked up.
Applied_Static(i) ==
    CASE i.funct3 \in {0, 4} -> "RNE"
      [] i.funct3 = 1 -> "RTZ"
      [] i.funct3 = 2 -> "RDN"
      [] i.funct3 = 3 -> "RUP"
      [] OTHER -> host

\* apply_frm: RMM (4) becomes round to nearest even; a reserved mode leaves the
\* thread in the mode of an earlier instruction.
Applied(i) ==
    CASE Asked(i) \in {0, 4} -> "RNE"
      [] Asked(i) = 1 -> "RTZ"
      [] Asked(i) = 2 -> "RDN"
      [] Asked(i) = 3 -> "RUP"
      [] OTHER -> host

Begin(i, ops) ==
    /\ left > 0
    /\ i.op \in ops
    /\ left' = left - 1
    /\ insn' = i
    /\ UNCHANGED fs

\* Variant: mstatus.FS is not looked at.
Allowed_Always(i) == i.fmt \in Formats

\* An instruction that gets past the checks on FS and on the format
Allowed(i) == fs /\ i.fmt \in Formats
Execute(i, ops) == Begin(i, ops) /\ Allowed(i) /\ UNCHANGED frm

\* rv_do_iillegal: only the host's rounding mode and flags may have been touched.
Illegal == outcome' = "illegal" /\ UNCHANGED <<fregs, x>>

Done == outcome' = "done"

-----------------------------------------------------------------------------
(* rv_float_op_fp: operations without a rounding mode                      *)

Refuse(i) ==
    /\ Begin(i, FloatOps)
    /\ ~Allowed(i)
    /\ Raise(i, {})
    /\ Illegal
    /\ UNCHANGED <<fflags, frm, host>>

Compare(i) ==
    LET a == Read(i.rs1, i.fmt)
        b == Read(i.rs2, i.fmt)
        res == CASE i.funct3 = 2 -> Equal(a, b)
                 [] i.funct3 = 1 -> Less(a, b)
                 [] OTHER -> LessOrEqual(a, b)
    IN  /\ Execute(i, {"EQ_LE_LT"})
        /\ UNCHANGED host
        /\ \/ /\ i.funct3 \in 0..2
              /\ x' = [int |-> IF res.holds THEN 1 ELSE 0]
              /\ Accrue(i, res.flags)
              /\ Done /\ UNCHANGED fregs
           \/ i.funct3 > 2 /\ Illegal /\ Raise(i, {}) /\ UNCHANGED fflags

\* res with the sign bit set to neg: a boxed single taken as a double keeps its
\* bits when the sign stays.
Signed(r, v, neg, fmt) ==
    CASE fmt = "S" -> Boxed([v EXCEPT !.neg = neg])
      [] fmt = "D" /\ r.boxed /\ neg -> r
      [] OTHER -> Unboxed([v EXCEPT !.neg = neg])

InjectSign(i) ==
    LET a == Read(i.rs1, i.fmt)
        b == Read(i.rs2, i.fmt)
        neg == CASE i.funct3 = 0 -> b.neg
                 [] i.funct3 = 1 -> ~b.neg
                 [] OTHER -> a.neg # b.neg
    IN  /\ Execute(i, {"SGNJ"})
        /\ Raise(i, {})
        /\ UNCHANGED <<fflags, host>>
        /\ \/ /\ i.funct3 \in 0..2
              /\ fregs' = [fregs EXCEPT ![i.rd] = Signed(fregs[i.rs1], a, neg, i.fmt)]
              /\ Done /\ UNCHANGED x
           \/ i.funct3 > 2 /\ Illegal

\* fmin and fmax of <tgmath.h>: which zero they take is theirs to choose.
HostLesser(a, b) == IF Rank(b) < Rank(a) THEN b ELSE a
HostGreater(a, b) == IF Rank(b) > Rank(a) THEN b ELSE a

\* Variant: the host compares zeros too.
Extreme_HostZeros(a, b, isMin) ==
    CASE IsNan(a) /\ IsNan(b) -> Canonical
      [] IsNan(a) /\ ~IsNan(b) -> b
      [] IsNan(b) /\ ~IsNan(a) -> a
      [] OTHER -> IF isMin THEN HostLesser(a, b) ELSE HostGreater(a, b)

Extreme(a, b, isMin) ==
    CASE IsNan(a) /\ IsNan(b) -> Canonical
      [] IsNan(a) /\ ~IsNan(b) -> b
      [] IsNan(b) /\ ~IsNan(a) -> a
      [] IsZero(a) /\ IsZero(b) -> Finite(isMin, 0)
      [] OTHER -> IF isMin THEN HostLesser(a, b) ELSE HostGreater(a, b)

\* NV is set in fcsr by hand, and what the host raised is not looked at.
MinMax(i) ==
    LET a == Read(i.rs1, i.fmt)
        b == Read(i.rs2, i.fmt)
    IN  /\ Execute(i, {"MIN_MAX"})
        /\ fflags' = fflags \cup IF IsSnan(a) \/ IsSnan(b) THEN {"NV"} ELSE {}
        /\ \E raised \in Looking({a, b}) : Raise(i, raised)
        /\ UNCHANGED host
        /\ \/ /\ i.funct3 \in 0..1
              /\ WriteFreg(i, Extreme(a, b, i.funct3 = 0))
              /\ Done /\ UNCHANGED x
           \/ i.funct3 > 1 /\ Illegal

-----------------------------------------------------------------------------
(* rv_float_op_fp: operations that use the rounding mode                   *)

Rounding(i, ops) == Execute(i, ops) /\ host' = Applied(i)

\* rv_float_add, _sub, _mul, _div and _sqrt
Computed(i, mode, nan) ==
    LET a == Read(i.rs1, i.fmt)
        b == Read(i.rs2, i.fmt)
    IN  CASE i.op = "ADD" -> Add(a, b, i.fmt, mode, nan)
          [] i.op = "SUB" -> Add(a, Negated(b), i.fmt, mode, nan)
          [] i.op = "MUL" -> Mul(a, b, i.fmt, mode, nan)
          [] i.op = "DIV" -> Div(a, b, i.fmt, mode, nan)
          [] i.op = "SQRT" -> Sqrt(a, i.fmt, mode, nan)

Compute(i) ==
    /\ Rounding(i, Arithmetic)
    /\ \E nan \in HostNans :
          LET res == Computed(i, host', nan)
          IN  WriteFreg(i, Canonized(res.val)) /\ Accrue(i, res.flags)
    /\ Done /\ UNCHANGED x

\* rv_float_ftof: rs2 says whether the source is a double.  Where it is of the
\* format of the result, the bits are read as the other format all the same.
FToF(i) ==
    LET wide == i.rs2 = 1
        r == fregs[i.rs1]
        arg == CASE i.fmt = "D" -> IF wide THEN LowHalf(r) ELSE ReadSingle(r)
                 [] i.fmt = "S" -> IF wide THEN ReadDouble(r) ELSE Nan(TRUE, "other")
    IN  /\ Rounding(i, {"FCVT_FTOF"})
        /\ \E nan \in HostNans :
              LET res == Converted(arg, i.fmt, host', nan)
              IN  WriteFreg(i, Canonized(res.val)) /\ Accrue(i, res.flags)
        /\ Done /\ UNCHANGED x

IsUnsigned(i) == i.rs2 % 2 = 1
Width(i) == IF (i.rs2 \div 2) % 2 = 1 THEN LongLen ELSE WordLen

\* rv_float_xtof
Source(i) ==
    IF IsUnsigned(i) THEN x.int % 2^Width(i) ELSE SignedTo(x.int, Width(i))

XToF(i) ==
    /\ Rounding(i, {"FCVT_XTOF"})
    /\ "int" \in DOMAIN x
    /\ LET n == Source(i)
           res == Rounded(n < 0, (IF n < 0 THEN -n ELSE n) * One, 1, i.fmt, host')
       IN  WriteFreg(i, res.val) /\ Accrue(i, res.flags)
    /\ Done /\ UNCHANGED x

Low(i) == IF IsUnsigned(i) THEN 0 ELSE -(2^(Width(i) - 1))
High(i) == IF IsUnsigned(i) THEN 2^Width(i) - 1 ELSE 2^(Width(i) - 1) - 1

\* Variant: what rint() raised is not cleared.
ToInteger_StaysInexact(i, v, mode) ==
    LET n == IF v.is = "finite" THEN Rint(v, mode) ELSE 0
        inexact == v.is = "finite" /\ n * One # Eighths(v)
        raised == IF inexact THEN {"NX"} ELSE {}
    IN  CASE IsNan(v) -> Result(High(i), {"NV"})
          [] v.is = "inf" -> Result(IF v.neg THEN Low(i) ELSE High(i), {"NV"})
          [] v.is = "finite" /\ n < Low(i) -> Result(Low(i), raised \cup {"NV"})
          [] v.is = "finite" /\ n > High(i) -> Result(High(i), raised \cup {"NV"})
          [] OTHER -> Result(n, raised)

\* Variant: the upper bound of the range is taken for a value of it.
ToInteger_LateBound(i, v, mode) ==
    LET n == IF v.is = "finite" THEN Rint(v, mode) ELSE 0
        inexact == v.is = "finite" /\ n * One # Eighths(v)
    IN  CASE IsNan(v) -> Result(High(i), {"NV"})
          [] v.is = "inf" -> Result(IF v.neg THEN Low(i) ELSE High(i), {"NV"})
          [] v.is = "finite" /\ n < Low(i) -> Result(Low(i), {"NV"})
          [] v.is = "finite" /\ n > High(i) + 1 -> Result(High(i), {"NV"})
          [] OTHER -> Result(n, IF inexact THEN {"NX"} ELSE {})

\* FTOX_HELPER: out of range is invalid and no longer inexact.
ToInteger(i, v, mode) ==
    LET n == IF v.is = "finite" THEN Rint(v, mode) ELSE 0
        inexact == v.is = "finite" /\ n * One # Eighths(v)
    IN  CASE IsNan(v) -> Result(High(i), {"NV"})
          [] v.is = "inf" -> Result(IF v.neg THEN Low(i) ELSE High(i), {"NV"})
          [] v.is = "finite" /\ n < Low(i) -> Result(Low(i), {"NV"})
          [] v.is = "finite" /\ n > High(i) -> Result(High(i), {"NV"})
          [] OTHER -> Result(n, IF inexact THEN {"NX"} ELSE {})

\* rv_float_ftox: an unsigned 32-bit result is sign-extended too, and NV is set in
\* fcsr by hand.
FToX(i) ==
    /\ Rounding(i, {"FCVT_FTOX"})
    /\ LET v == Read(i.rs1, i.fmt)
           res == ToInteger(i, v, host')
       IN  /\ x' = [int |-> SignedTo(res.val, Width(i))]
           /\ \E raised \in Looking({v}) : Raise(i, raised \cup (res.flags \ {"NV"}))
           /\ fflags' = fflags \cup res.flags \cup excepts'
    /\ Done /\ UNCHANGED fregs

\* Variant: the smallest numbers are normal ones too.
Classes_NormalOverlaps(v, fmt) ==
    {n \in 0..9 :
        CASE n \in {0, 7} -> v.is = "inf" /\ v.neg = (n = 0)
          [] n \in {1, 6} -> v.is = "finite" /\ v.neg = (n = 1) /\ ~IsZero(v)
          [] n \in {2, 5} -> Subnormal(v, fmt) /\ v.neg = (n = 2)
          [] n \in {3, 4} -> IsZero(v) /\ v.neg = (n = 3)
          [] n = 8 -> IsSnan(v)
          [] n = 9 -> IsNan(v) /\ ~IsSnan(v)}

\* The bits of fclass
Classes(v, fmt) ==
    {n \in 0..9 :
        CASE n \in {0, 7} -> v.is = "inf" /\ v.neg = (n = 0)
          [] n \in {1, 6} -> /\ v.is = "finite" /\ v.neg = (n = 1)
                             /\ ~IsZero(v) /\ ~Subnormal(v, fmt)
          [] n \in {2, 5} -> Subnormal(v, fmt) /\ v.neg = (n = 2)
          [] n \in {3, 4} -> IsZero(v) /\ v.neg = (n = 3)
          [] n = 8 -> IsSnan(v)
          [] n = 9 -> IsNan(v) /\ ~IsSnan(v)}

\* rv_float_mvxf_fclass with funct3 = 1
Classify(i) ==
    LET v == Read(i.rs1, i.fmt)
    IN  /\ Rounding(i, {"MVXF_CLASS"})
        /\ i.funct3 = 1
        /\ x' = [class |-> Classes(v, i.fmt)]
        /\ \E raised \in Looking({v}) : Accrue(i, raised)
        /\ Done /\ UNCHANGED fregs

\* With any other funct3, which is taken for a rounding mode too, it is a move.
MoveOut(i) ==
    /\ Rounding(i, {"MVXF_CLASS"})
    /\ i.funct3 # 1
    /\ x' = IF i.fmt = "S" THEN [word |-> LowHalf(fregs[i.rs1])]
                           ELSE [doubleword |-> fregs[i.rs1]]
    /\ Accrue(i, {})
    /\ Done /\ UNCHANGED fregs

\* rv_float_mvfx
MoveIn(i) ==
    /\ Rounding(i, {"MVFX"})
    /\ \/ /\ i.fmt = "S" /\ "word" \in DOMAIN x
          /\ WriteFreg(i, x.word)
       \/ /\ i.fmt = "D" /\ "doubleword" \in DOMAIN x
          /\ fregs' = [fregs EXCEPT ![i.rd] = x.doubleword]
    /\ Accrue(i, {})
    /\ Done /\ UNCHANGED x

\* No such funct5: the rounding mode has been applied already.
Undefined(i) ==
    /\ Rounding(i, {"NONE"})
    /\ Raise(i, {})
    /\ Illegal /\ UNCHANGED fflags

-----------------------------------------------------------------------------
(* rv_float_fmadd                                                          *)

FlippedIf(v, flip) == IF flip THEN Negated(v) ELSE v

\* The addends of MSUB and NMADD and the products of NMSUB and NMADD are negated.
Fused(i, mode, nan) ==
    MulAdd(FlippedIf(Read(i.rs1, i.fmt), i.op \in {"NMSUB", "NMADD"}),
           Read(i.rs2, i.fmt),
           FlippedIf(Read(i.rs3, i.fmt), i.op \in {"MSUB", "NMADD"}), i.fmt, mode, nan)

\* Infinity times zero is invalid whatever is added: NV is set in fcsr by hand.
Invalid(i) ==
    LET a == Read(i.rs1, i.fmt)
        b == Read(i.rs2, i.fmt)
    IN  \/ a.is = "inf" /\ IsZero(b)
        \/ b.is = "inf" /\ IsZero(a)

\* The result is not canonized.
Fmadd(i) ==
    /\ Rounding(i, FusedOps)
    /\ \E nan \in HostNans :
          LET res == Fused(i, host', nan)
          IN  /\ WriteFreg(i, res.val)
              /\ Raise(i, res.flags)
              /\ fflags' = fflags \cup excepts' \cup IF Invalid(i) THEN {"NV"} ELSE {}
    /\ Done /\ UNCHANGED x

-----------------------------------------------------------------------------
(* rv_csr_write of fcsr, fflags and frm: i.flags and i.frm are the fields  *)
(* of the value, and the host hears of a new mode with the next instruction.*)

WriteFcsr(i) ==
    /\ Begin(i, {"CSR"})
    /\ UNCHANGED <<fregs, x, host, excepts>>
    /\ \/ /\ fs
          /\ fflags' = IF i.csr \in {"fcsr", "fflags"} THEN i.flags ELSE fflags
          /\ frm' = IF i.csr \in {"fcsr", "frm"} THEN i.frm ELSE frm
          /\ Done
       \/ ~fs /\ outcome' = "illegal" /\ UNCHANGED <<fflags, frm>>

Init ==
    /\ \E s \in Starts : fregs = s.fregs /\ x = s.x /\ frm = s.frm /\ fs = s.fs
                      /\ excepts = s.excepts /\ left = s.insns
    /\ fflags = {}
    /\ host = "RNE"
    /\ insn = [op |-> "RESET"] /\ outcome = "none"

Next ==
    \E i \in Insns :
        \/ Refuse(i) \/ Compare(i) \/ InjectSign(i) \/ MinMax(i)
        \/ Compute(i) \/ FToF(i) \/ XToF(i) \/ FToX(i)
        \/ Classify(i) \/ MoveOut(i) \/ MoveIn(i) \/ Undefined(i)
        \/ Fmadd(i) \/ WriteFcsr(i)

Spec == Init /\ [][Next]_vars
-----------------------------------------------------------------------------
(* Properties                                                              *)

\* Every variable keeps its type: in particular each register holds a value of a
\* format, whatever mixture of single and double instructions wrote it, and the
\* integer register a sign-extended integer.
TypeOK ==
    /\ fregs \in [FRegs -> Registers]
    /\ x \in IntRegisters
    /\ fs \in BOOLEAN
    /\ fflags \subseteq Flags
    /\ frm \in 0..7
    /\ host \in Modes /\ excepts \subseteq Flags
    /\ insn \in Insns \cup {[op |-> "RESET"]}
    /\ outcome \in {"none", "done", "illegal"}
    /\ left \in Nat

Executes(ops) == left' < left /\ outcome' = "done" /\ insn'.op \in ops

Operands(i) ==
    {Read(n, i.fmt) : n \in CASE i.op \in FusedOps -> {i.rs1, i.rs2, i.rs3}
                              [] i.op \in {"SQRT", "FCVT_FTOX"} -> {i.rs1}
                              [] OTHER -> {i.rs1, i.rs2}}

\* The result is a number that has to be rounded.
Computable(i) ==
    /\ \A v \in Operands(i) : v.is = "finite"
    /\ i.op = "DIV" => ~IsZero(Read(i.rs2, i.fmt))
    /\ i.op = "SQRT" => Eighths(Read(i.rs1, i.fmt)) > 0

\* An integer with the sign of the exact result minus m eighths
Excess(i, m) ==
    LET a == Eighths(Read(i.rs1, i.fmt))
        b == Eighths(Read(i.rs2, i.fmt))
        c == Eighths(Read(i.rs3, i.fmt))
    IN  CASE i.op = "ADD" -> a + b - m
          [] i.op = "SUB" -> a - b - m
          [] i.op = "MUL" -> a * b - m * One
          [] i.op = "DIV" -> (a * One - m * b) * b
          [] i.op = "SQRT" -> IF m < 0 THEN 1 ELSE a * One - m * m
          [] i.op = "MADD" -> a * b + (c - m) * One
          [] i.op = "MSUB" -> a * b - (c + m) * One
          [] i.op = "NMSUB" -> (c - m) * One - a * b
          [] i.op = "NMADD" -> -(a * b) - (c + m) * One

Representable(fmt) == UNION {{m, -m} : m \in Magnitudes(fmt)}

IsFloorOf(i, r) ==
    /\ Excess(i, r) >= 0
    /\ \A m \in Representable(i.fmt) : m > r => Excess(i, m) < 0

IsCeilingOf(i, r) ==
    /\ Excess(i, r) <= 0
    /\ \A m \in Representable(i.fmt) : m < r => Excess(i, m) > 0

\* Midpoints are integers; of two equally near neighbours the even one is taken.
IsNearestTo(i, r) ==
    LET mag == IF r < 0 THEN -r ELSE r
    IN  \A m \in Representable(i.fmt) \ {r} :
            LET half == Excess(i, (r + m) \div 2)
            IN  /\ IF r < m THEN half <= 0 ELSE half >= 0
                /\ half = 0 => (mag \div Spacing(i.fmt, mag)) % 2 = 0

RoundsTo(i, r, mode) ==
    CASE mode = 0 -> IsNearestTo(i, r)
      [] mode = 1 -> IF Excess(i, 0) >= 0 THEN IsFloorOf(i, r) ELSE IsCeilingOf(i, r)
      [] mode = 2 -> IsFloorOf(i, r)
      [] mode = 3 -> IsCeilingOf(i, r)

\* What the instruction of this step wrote
Written == LET r == fregs'[insn'.rd] IN IF insn'.fmt = "S" THEN r.single ELSE r.double

\* An operation is rounded the way its own rounding mode field, or fcsr.frm, says,
\* although the host's mode is whatever the instructions before it made it.
RoundsAsAsked ==
    [][Executes(Arithmetic \cup FusedOps) /\ Computable(insn') /\ Asked(insn') \in 0..3
          => LET r == Written
             IN  r.is = "finite" => RoundsTo(insn', Eighths(r), Asked(insn'))]_vars

\* The guest's flags gain what the operation raised, and nothing that an earlier
\* instruction left in the host: NX exactly if a number is not the exact result, no
\* rounding flag where nothing is rounded, NV alone from a failed conversion, none
\* from numbers that are compared or from bits that are moved.
FlagsAreExact ==
    [][/\ Executes(FloatOps) => fflags \subseteq fflags'
       /\ Executes(Arithmetic \cup FusedOps) /\ Computable(insn')
             => LET r == Written
                    inexact == r.is = "inf" \/ Excess(insn', Eighths(r)) # 0
                IN  /\ ("NX" \in fflags') = (inexact \/ "NX" \in fflags)
                    /\ r.is = "inf" => "OF" \in fflags'
                    /\ fflags' \ fflags \subseteq {"OF", "UF", "NX"}
       /\ Executes(Arithmetic \cup FusedOps) /\ ~Computable(insn')
             => fflags' \ fflags \subseteq {"NV", "DZ"}
       /\ Executes({"FCVT_FTOX"})
             => /\ Cardinality(fflags' \ fflags) <= 1
                /\ fflags' \ fflags \subseteq {"NV", "NX"}
       /\ Executes({"EQ_LE_LT", "MIN_MAX"})
             => fflags' \ fflags \subseteq
                  IF \E v \in Operands(insn') : IsNan(v) THEN {"NV"} ELSE {}
       /\ Executes({"SGNJ", "MVFX", "MVXF_CLASS"})
             => fflags' = fflags \/ (insn'.op = "MVXF_CLASS" /\ insn'.funct3 = 1)]_vars

\* The integer nearest to the value on the side the mode says, before saturation
Nearest(e, mode) ==
    LET floor == e \div One
        ceiling == -((-e) \div One)
    IN  CASE mode = 0 -> IF 2 * (e - floor * One) < One
                            \/ (2 * (e - floor * One) = One /\ floor % 2 = 0)
                         THEN floor ELSE ceiling
          [] mode = 1 -> IF e >= 0 THEN floor ELSE ceiling
          [] mode = 2 -> floor
          [] mode = 3 -> ceiling

\* A conversion to an integer gives the integer the mode asks for if the type has
\* it, and otherwise the nearest end of the type (the upper one for a NaN) and NV.
\* 32-bit results are sign-extended, unsigned ones too.
ConversionsSaturate ==
    [][Executes({"FCVT_FTOX"}) /\ Asked(insn') \in 0..3
          => LET v == Read(insn'.rs1, insn'.fmt)
                 n == Nearest(Eighths(v), Asked(insn'))
                 end == IF ~IsNan(v) /\ v.neg THEN Low(insn') ELSE High(insn')
                 got == IF IsUnsigned(insn') THEN x'.int % 2^Width(insn') ELSE x'.int
             IN  IF v.is = "finite" /\ n \in Low(insn')..High(insn')
                 THEN got = n
                 ELSE got = end /\ "NV" \in fflags']_vars

\* An operation that computes a number never leaves a NaN of another payload, nor one
\* with the host's sign, except the fused ones, which do not canonize.
NansAreCanonical ==
    [][Executes(Arithmetic \cup {"FCVT_FTOF", "FCVT_XTOF"}) =>
          (IsNan(Written) => Written = Canonical)]_vars

\* Minimum and maximum return one of the operands, the least or the greatest of those
\* that are numbers.  Two zeros are set apart: their minimum is the negative zero and
\* their maximum the positive one, though both operands may be the other.
MinMaxOrders ==
    [][Executes({"MIN_MAX"})
          => LET a == Read(insn'.rs1, insn'.fmt)
                 b == Read(insn'.rs2, insn'.fmt)
                 numbers == {v \in {a, b} : ~IsNan(v)}
                 isMin == insn'.funct3 = 0
             IN  IF numbers = {} THEN Written = Canonical
                 ELSE /\ IF IsZero(a) /\ IsZero(b) THEN Written = Finite(isMin, 0)
                         ELSE Written \in numbers
                      /\ \A v \in numbers : IF isMin THEN Rank(Written) <= Rank(v)
                                             ELSE Rank(Written) >= Rank(v)]_vars

\* Minimum and maximum return an operand, the negative zero being the less.
\* (The manual's rule; violated: the least of two positive zeros is negative here.)
MinMaxPicks ==
    [][Executes({"MIN_MAX"})
          => LET a == Read(insn'.rs1, insn'.fmt)
                 b == Read(insn'.rs2, insn'.fmt)
                 r == Written
                 numbers == {v \in {a, b} : ~IsNan(v)}
                 rank(v) == 2 * Rank(v) - (IF v.neg THEN 1 ELSE 0)
             IN  IF numbers = {} THEN r = Canonical
                 ELSE /\ r \in numbers
                      /\ \A v \in numbers : IF insn'.funct3 = 0 THEN rank(r) <= rank(v)
                                                         ELSE rank(r) >= rank(v)]_vars

\* A register that does not hold a boxed single is a NaN to every single-precision
\* instruction that computes: whatever its low half is, it never gets through.
UnboxedIsNan ==
    [][Executes(FloatOps) /\ insn'.fmt = "S" /\ ~fregs[insn'.rs1].boxed
          => /\ insn'.op \in Arithmetic \cup FusedOps => IsNan(Written)
             /\ insn'.op = "EQ_LE_LT" => x' = [int |-> 0]
             /\ insn'.op = "FCVT_FTOX" => x'.int \in {High(insn'), -1} /\ "NV" \in fflags'
             /\ insn'.op = "MVXF_CLASS" /\ insn'.funct3 = 1 => x' = [class |-> {9}]
             /\ insn'.op = "SGNJ" => Written.is = "nan"]_vars

\* While mstatus.FS is off no instruction changes the floating-point state, its CSRs
\* or the rounding mode the thread is in; nor does one that is refused write a register.
OffTouchesNothing ==
    [][/\ ~fs => UNCHANGED <<fregs, fflags, frm, host, x>>
       /\ outcome' = "illegal" => UNCHANGED <<fregs, x>>]_vars

\* The class of a value is one class.
ClassIsUnique == "class" \in DOMAIN x => Cardinality(x.class) = 1

\* Classification raises no exception.
\* (The manual's rule; violated if the compiler's classification macros raise one.)
ClassifyRaisesNothing == [][Executes({"MVXF_CLASS"}) => UNCHANGED fflags]_vars

\* Every operation that computes a number yields the canonical NaN, the fused too.
\* (The manual's rule; violated by rv_float_fmadd.)
FusedNansAreCanonical ==
    [][Executes(FusedOps) => (IsNan(Written) => Written = Canonical)]_vars
=============================================================================
