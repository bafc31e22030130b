-------------------------------- MODULE Ieee --------------------------------
(***************************************************************************)
(* The floating-point unit of the host, as float.c uses it: two formats,   *)
(* "S" (float) and "D" (double), the four rounding modes of <fenv.h> and   *)
(* the exceptions an operation raises.  The formats are small: a magnitude *)
(* counts eighths, representable ones are further apart above 4, every     *)
(* single is a double, and each format has subnormals and a largest value. *)
(* An operation yields [val, flags].                                       *)
(***************************************************************************)
EXTENDS Integers

Formats == {"S", "D"}
Flags == {"NV", "DZ", "OF", "UF", "NX"}
Modes == {"RNE", "RTZ", "RDN", "RUP"}

One == 8
Spacing(fmt, mag) == (IF fmt = "S" THEN 4 ELSE 2) * (IF mag < 32 THEN 1 ELSE 4)
SmallestNormal(fmt) == IF fmt = "S" THEN 8 ELSE 4
Largest(fmt) == IF fmt = "S" THEN 64 ELSE 80
Magnitudes(fmt) == {m \in 0..Largest(fmt) : m % Spacing(fmt, m) = 0}

\* The payload of a NaN is "default" (RISC-V's canonical NaN is the positive one),
\* "other" (quiet) or "signalling".
Nan(neg, payload) == [is |-> "nan", neg |-> neg, payload |-> payload]
Inf(neg) == [is |-> "inf", neg |-> neg]
Finite(neg, mag) == [is |-> "finite", neg |-> neg, mag |-> mag]
Canonical == Nan(FALSE, "default")

Values(fmt) ==
    {Nan(neg, p) : neg \in BOOLEAN, p \in {"default", "other", "signalling"}}
      \cup {Inf(neg) : neg \in BOOLEAN}
      \cup {Finite(neg, m) : neg \in BOOLEAN, m \in Magnitudes(fmt)}

IsNan(v) == v.is = "nan"
IsSnan(v) == IsNan(v) /\ v.payload = "signalling"
IsZero(v) == v.is = "finite" /\ v.mag = 0
Subnormal(v, fmt) == v.is = "finite" /\ v.mag \in 1..(SmallestNormal(fmt) - 1)

\* A finite value as an integer, in eighths, and the order of what is not a NaN.
Eighths(v) == IF v.neg THEN -v.mag ELSE v.mag
Rank(v) == IF v.is = "inf" THEN (IF v.neg THEN -1 ELSE 1) * 1000 ELSE Eighths(v)

Result(v, flags) == [val |-> v, flags |-> flags]

-----------------------------------------------------------------------------
(* Rounding                                                                *)

\* n / unit rounded to an integer, for the magnitude of a number of the given sign
RoundQuotient(neg, n, unit, mode) ==
    LET q == n \div unit
        rest == n % unit
        away == CASE mode = "RNE" -> \/ 2 * rest > unit
                                     \/ 2 * rest = unit /\ q % 2 = 1
                  [] mode = "RTZ" -> FALSE
                  [] mode = "RDN" -> rest > 0 /\ neg
                  [] mode = "RUP" -> rest > 0 /\ ~neg
    IN  IF away THEN q + 1 ELSE q

\* The magnitude n / d in the format fmt
Rounded(neg, n, d, fmt, mode) ==
    LET unit == Spacing(fmt, n \div d)
        mag == RoundQuotient(neg, n, d * unit, mode) * unit
        inexact == mag * d # n
    IN  IF mag > Largest(fmt)
        THEN Result(IF mode \in {"RNE", IF neg THEN "RDN" ELSE "RUP"}
                    THEN Inf(neg) ELSE Finite(neg, Largest(fmt)), {"OF", "NX"})
        ELSE Result(Finite(neg, mag),
                    IF ~inexact THEN {}
                    ELSE IF mag < SmallestNormal(fmt) THEN {"NX", "UF"} ELSE {"NX"})

\* rint(), as an integer
Rint(v, mode) ==
    LET n == RoundQuotient(v.neg, v.mag, One, mode) IN IF v.neg THEN -n ELSE n

-----------------------------------------------------------------------------
(* Operations.  nan is the NaN the host computes when the result is one.   *)

NanResult(operands, nan) ==
    Result(nan, IF \E v \in operands : IsSnan(v) THEN {"NV"} ELSE {})

Negated(v) == [v EXCEPT !.neg = ~@]

\* fma().  Whether infinity times zero plus a NaN is invalid is the host's choice;
\* this one does not say so, and float.c says so itself.
MulAdd(a, b, c, fmt, mode, nan) ==
    LET product == a.neg # b.neg
        infinite == "inf" \in {a.is, b.is}
        invalid == \/ a.is = "inf" /\ IsZero(b)
                   \/ b.is = "inf" /\ IsZero(a)
                   \/ infinite /\ c.is = "inf" /\ product # c.neg
        sum == Eighths(a) * Eighths(b) + Eighths(c) * One
    IN  IF \E v \in {a, b, c} : IsNan(v) THEN NanResult({a, b, c}, nan)
        ELSE IF invalid THEN Result(nan, {"NV"})
        ELSE IF infinite THEN Result(Inf(product), {})
        ELSE IF c.is = "inf" THEN Result(c, {})
        ELSE IF sum = 0
             THEN Result(Finite(IF product = c.neg THEN c.neg ELSE mode = "RDN", 0), {})
        ELSE Rounded(sum < 0, IF sum < 0 THEN -sum ELSE sum, One, fmt, mode)

Add(a, b, fmt, mode, nan) == MulAdd(Finite(FALSE, One), a, b, fmt, mode, nan)
Mul(a, b, fmt, mode, nan) ==
    MulAdd(a, b, Finite(a.neg # b.neg, 0), fmt, mode, nan)

Div(a, b, fmt, mode, nan) ==
    LET neg == a.neg # b.neg
        invalid == (IsZero(a) /\ IsZero(b)) \/ (a.is = "inf" /\ b.is = "inf")
    IN  IF IsNan(a) \/ IsNan(b) THEN NanResult({a, b}, nan)
        ELSE IF invalid THEN Result(nan, {"NV"})
        ELSE IF a.is = "inf" THEN Result(Inf(neg), {})
        ELSE IF b.is = "inf" THEN Result(Finite(neg, 0), {})
        ELSE IF IsZero(b) THEN Result(Inf(neg), {"DZ"})
        ELSE Rounded(neg, a.mag * One, b.mag, fmt, mode)

\* The root of n is its floor and less than, or more than, half a unit: never half.
Sqrt(a, fmt, mode, nan) ==
    LET n == a.mag * One
        root == CHOOSE s \in 0..n : s * s <= n /\ n < (s + 1) * (s + 1)
        rest == IF root * root = n THEN 0
                ELSE IF (2 * root + 1) * (2 * root + 1) > 4 * n THEN 1 ELSE 3
    IN  IF IsNan(a) THEN NanResult({a}, nan)
        ELSE IF IsZero(a) THEN Result(a, {})
        ELSE IF a.neg THEN Result(nan, {"NV"})
        ELSE IF a.is = "inf" THEN Result(a, {})
        ELSE Rounded(FALSE, 4 * root + rest, 4, fmt, mode)

Converted(a, fmt, mode, nan) ==
    CASE IsNan(a) -> NanResult({a}, nan)
      [] a.is = "inf" -> Result(a, {})
      [] OTHER -> Rounded(a.neg, a.mag, 1, fmt, mode)

\* ==, which is quiet, and < and <=, for which every NaN is invalid
Equal(a, b) ==
    [holds |-> ~IsNan(a) /\ ~IsNan(b) /\ Rank(a) = Rank(b),
     flags |-> IF IsSnan(a) \/ IsSnan(b) THEN {"NV"} ELSE {}]

Less(a, b) ==
    [holds |-> ~IsNan(a) /\ ~IsNan(b) /\ Rank(a) < Rank(b),
     flags |-> IF IsNan(a) \/ IsNan(b) THEN {"NV"} ELSE {}]

LessOrEqual(a, b) == [Less(a, b) EXCEPT !.holds = @ \/ Equal(a, b).holds]
=============================================================================
