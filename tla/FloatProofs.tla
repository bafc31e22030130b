----------------------------- MODULE FloatProofs ----------------------------
(***************************************************************************)
(* Proofs about Float, for any registers, instructions and integer widths: *)
(* its types, and what its operations, conversions and flags promise.      *)
(***************************************************************************)
EXTENDS Float, FiniteSetTheorems, TLAPS

-----------------------------------------------------------------------------
(* Numbers                                                                 *)

\* A set of natural numbers has a least element: the sets of the elements below each of
\* its elements are finite, and strict inclusion among finite sets is well-founded.
LEMMA MinExists ==
    ASSUME NEW S \in SUBSET Nat, S # {}
    PROVE  \E n \in S : \A y \in S : n <= y
<1> DEFINE Below(k) == {j \in S : j < k}
           T == {Below(k) : k \in S}
<1>1. T \subseteq FiniteSubsetsOf(S)
  <2> SUFFICES ASSUME NEW n \in S PROVE Below(n) \in SUBSET S /\ IsFiniteSet(Below(n))
    BY DEF FiniteSubsetsOf
  <2>1. n \in Nat
    OBVIOUS
  <2>2. \A y \in Below(n) : y \in Nat /\ y <= n
    OBVIOUS
  <2>3. Below(n) \in SUBSET Nat
    BY <2>2
  <2>. QED
    BY <2>1, <2>2, <2>3, FS_BoundedSetOfNaturals
<1>2. T # {}
  OBVIOUS
<1>3. IsWellFoundedOn(StrictSubsetOrdering(S), FiniteSubsetsOf(S))
  BY FS_StrictSubsetOrderingWellFounded
<1>4. PICK t \in T : \A u \in T : <<u, t>> \notin StrictSubsetOrdering(S)
  <2> HIDE DEF T
  <2>. QED
    BY <1>1, <1>2, <1>3, WFMin
<1>5. PICK n \in S : t = Below(n)
  BY <1>4
<1>6. ASSUME NEW y \in S, y < n PROVE FALSE
  <2>0. n \in Nat /\ y \in Nat
    OBVIOUS
  <2>1. /\ \A z \in S : z < y => z < n
        /\ ~(y < y)
    BY <1>6, <2>0
  <2>2. y \in Below(n) /\ y \notin Below(y)
    BY <1>6, <2>1
  <2>3. Below(y) \subseteq Below(n)
    BY <2>1
  <2>4. <<Below(y), Below(n)>> \in StrictSubsetOrdering(S)
    BY <2>2, <2>3 DEF StrictSubsetOrdering
  <2>. QED
    BY <1>4, <1>5, <2>4
<1>. QED
  BY <1>6

Pow(n) == 2^n

\* 2^n is the number of subsets of a set of n elements.
LEMMA PowerCounts ==
    ASSUME NEW n \in Nat
    PROVE  /\ IsFiniteSet(SUBSET (1..n)) /\ Cardinality(SUBSET (1..n)) = Pow(n)
           /\ Pow(n) \in Nat \ {0}
<1>1. IsFiniteSet(1..n) /\ Cardinality(1..n) = n
  BY FS_Interval
<1>2. IsFiniteSet(SUBSET (1..n)) /\ Cardinality(SUBSET (1..n)) = Pow(n)
  BY <1>1, FS_SUBSET DEF Pow
<1>3. SUBSET (1..n) # {}
  OBVIOUS
<1>4. Cardinality(SUBSET (1..n)) \in Nat /\ Cardinality(SUBSET (1..n)) # 0
  BY <1>2, <1>3, FS_CardinalityType, FS_EmptySet
<1>. QED
  BY <1>2, <1>4

\* A power of two is a positive natural number.
LEMMA PowIsPositive ==
    ASSUME NEW n \in Nat
    PROVE  Pow(n) \in Nat \ {0}
BY PowerCounts

\* Two to the zero is one.
LEMMA PowerOfZero == Pow(0) = 1
<1>1. SUBSET (1..0) = {{}}
  OBVIOUS
<1>. QED
  BY <1>1, PowerCounts, FS_Singleton

\* A subset of 1..n+1 has n+1 in it or has not.
LEMMA PowerDoubles ==
    ASSUME NEW n \in Nat
    PROVE  Pow(n + 1) = 2 * Pow(n)
<1> DEFINE S == SUBSET (1..n)
           With(s) == s \cup {n + 1}
           T == {With(s) : s \in S}
           f == [s \in S |-> With(s)]
<1>1. IsFiniteSet(S) /\ Cardinality(S) = Pow(n) /\ Pow(n) \in Nat
  BY PowerCounts
<1>2. Cardinality(SUBSET (1..(n + 1))) = Pow(n + 1)
  <2>1. n + 1 \in Nat
    OBVIOUS
  <2>. QED
    BY <2>1, PowerCounts
<1>3. \A s \in S : n + 1 \notin s
  OBVIOUS
<1>4. SUBSET (1..(n + 1)) = S \cup T
  <2>1. 1..(n + 1) = (1..n) \cup {n + 1}
    OBVIOUS
  <2>2. ASSUME NEW u \in SUBSET (1..(n + 1)) PROVE u \in S \cup T
    <3>1. CASE n + 1 \in u
      <4>1. u \ {n + 1} \in S /\ With(u \ {n + 1}) = u
        BY <2>1, <3>1
      <4>. QED
        BY <4>1
    <3>2. CASE n + 1 \notin u
      BY <2>1, <3>2
    <3>. QED
      BY <3>1, <3>2
  <2>3. S \cup T \subseteq SUBSET (1..(n + 1))
    BY <2>1
  <2>. QED
    BY <2>2, <2>3
<1>5. S \cap T = {}
  BY <1>3
<1>6. ExistsBijection(S, T)
  <2>1. f \in [S -> T] /\ \A u \in T : \E s \in S : f[s] = u
    OBVIOUS
  <2>2. ASSUME NEW s \in S, NEW u \in S, f[s] = f[u] PROVE s = u
    <3>1. With(s) = With(u) /\ n + 1 \notin s /\ n + 1 \notin u
      BY <1>3, <2>2
    <3>. QED
      BY <3>1
  <2> HIDE DEF f, S, T
  <2>3. f \in Injection(S, T)
    BY <2>1, <2>2 DEF Injection, IsInjective
  <2>4. f \in Surjection(S, T)
    BY <2>1 DEF Surjection
  <2>. QED
    BY <2>3, <2>4 DEF ExistsBijection, Bijection
<1>7. IsFiniteSet(T) /\ Cardinality(T) = Pow(n)
  <2> HIDE DEF S, T
  <2>. QED
    BY <1>1, <1>6, FS_Bijection
<1>8. Cardinality(S \cup T) = Pow(n) + Pow(n) - 0
  <2> HIDE DEF S, T
  <2>1. Cardinality(S \cup T) = Cardinality(S) + Cardinality(T) - Cardinality(S \cap T)
    BY <1>1, <1>7, FS_Union
  <2>2. Cardinality(S \cap T) = 0
    BY <1>5, FS_EmptySet
  <2>. QED
    BY <1>1, <1>7, <2>1, <2>2
<1>9. \A p \in Nat : p + p - 0 = 2 * p
  OBVIOUS
<1>10. Cardinality(SUBSET (1..(n + 1))) = Cardinality(S \cup T)
  BY <1>4
<1> HIDE DEF S, T
<1>. QED
  BY <1>1, <1>2, <1>8, <1>9, <1>10

\* Multiplication is associative.
LEMMA Associates ==
    ASSUME NEW a \in Int, NEW b \in Int
    PROVE  2 * (a * b) = a * (2 * b) /\ 2 * (a * b) = (2 * a) * b
OBVIOUS

\* What satisfies the law of division is the remainder.
LEMMA RemainderIsUnique ==
    ASSUME NEW m \in Nat \ {0}, NEW c \in 0..(m - 1), NEW q \in Int
    PROVE  (m * q + c) % m = c
  OBVIOUS

\* A number is its quotient and its remainder.
LEMMA DivisionGives ==
    ASSUME NEW b \in Int, NEW m \in Nat \ {0}
    PROVE  /\ b \div m \in Int /\ b % m \in 0..(m - 1)
           /\ b = m * (b \div m) + (b % m)
  OBVIOUS


-----------------------------------------------------------------------------
(* Values and their formats                                                *)

\* A value is a NaN, an infinity or a finite number of the format.
LEMMA ValueForms ==
    ASSUME NEW fmt, NEW v
    PROVE  v \in Values(fmt) <=>
             \/ \E neg \in BOOLEAN, p \in {"default", "other", "signalling"} : v = Nan(neg, p)
             \/ \E neg \in BOOLEAN : v = Inf(neg)
             \/ \E neg \in BOOLEAN, m \in Magnitudes(fmt) : v = Finite(neg, m)
BY DEF Values

\* The fields of a value, and which of the three it is.
LEMMA ValueFields ==
    ASSUME NEW fmt, NEW v \in Values(fmt)
    PROVE  /\ v.is \in {"nan", "inf", "finite"} /\ v.neg \in BOOLEAN
           /\ v.is = "nan" => /\ v.payload \in {"default", "other", "signalling"}
                              /\ v = Nan(v.neg, v.payload)
           /\ v.is = "inf" => v = Inf(v.neg)
           /\ v.is = "finite" => v.mag \in Magnitudes(fmt) /\ v = Finite(v.neg, v.mag)
<1>1. ASSUME NEW neg \in BOOLEAN, NEW p \in {"default", "other", "signalling"}, v = Nan(neg, p)
      PROVE  /\ v.is = "nan" /\ v.neg = neg /\ v.payload = p
             /\ v.neg \in BOOLEAN
  BY <1>1 DEF Nan
<1>2. ASSUME NEW neg \in BOOLEAN, v = Inf(neg)
      PROVE  v.is = "inf" /\ v.neg = neg /\ v.neg \in BOOLEAN
  BY <1>2 DEF Inf
<1>3. ASSUME NEW neg \in BOOLEAN, NEW m \in Magnitudes(fmt), v = Finite(neg, m)
      PROVE  /\ v.is = "finite" /\ v.neg = neg /\ v.mag = m
             /\ v.neg \in BOOLEAN
  BY <1>3 DEF Finite
<1>. QED
  BY <1>1, <1>2, <1>3, ValueForms

\* A NaN of any sign and payload is a value of each format.
LEMMA NanIsValue ==
    ASSUME NEW fmt, NEW neg \in BOOLEAN, NEW p \in {"default", "other", "signalling"}
    PROVE  Nan(neg, p) \in Values(fmt) /\ IsNan(Nan(neg, p))
BY ValueForms DEF IsNan, Nan

\* An infinity is a value of each format and no NaN.
LEMMA InfIsValue ==
    ASSUME NEW fmt, NEW neg \in BOOLEAN
    PROVE  /\ Inf(neg) \in Values(fmt) /\ ~IsNan(Inf(neg)) /\ Inf(neg).is = "inf"
           /\ Inf(neg).neg = neg
BY ValueForms DEF IsNan, Inf

\* A magnitude of the format with a sign is a value of it.
LEMMA FiniteIsValue ==
    ASSUME NEW fmt, NEW neg \in BOOLEAN, NEW m \in Magnitudes(fmt)
    PROVE  Finite(neg, m) \in Values(fmt)
BY ValueForms

\* The fields of a finite number.
LEMMA FiniteFields ==
    ASSUME NEW neg \in BOOLEAN, NEW m
    PROVE  /\ ~IsNan(Finite(neg, m)) /\ Finite(neg, m).is = "finite"
           /\ Finite(neg, m).neg = neg /\ Finite(neg, m).mag = m
BY DEF IsNan, Finite

\* Zero is a number of both formats, and so is every single a double.
LEMMA Zero == 0 \in Magnitudes("S") /\ 0 \in Magnitudes("D")
BY DEF Magnitudes, Largest, Spacing

\* A magnitude is even, at most the largest, and a multiple of the spacing around it.
LEMMA MagnitudeBounds ==
    ASSUME NEW fmt \in Formats, NEW m \in Magnitudes(fmt)
    PROVE  /\ m \in Nat /\ m \in 0..Largest(fmt) /\ Largest(fmt) \in {64, 80}
           /\ m % 2 = 0
           /\ m % Spacing(fmt, m) = 0
<1>1. m \in 0..Largest(fmt) /\ m % Spacing(fmt, m) = 0 /\ Largest(fmt) \in {64, 80}
  BY DEF Magnitudes, Largest
<1>2. m \in Nat
  BY <1>1
<1>3. Spacing(fmt, m) \in {2, 4, 8, 16}
  BY DEF Spacing
<1>4. m % 2 = 0
  BY <1>1, <1>2, <1>3
<1>. QED
  BY <1>1, <1>2, <1>4

-----------------------------------------------------------------------------
(* Rounding                                                                *)

\* Products keep the order, strictly too.
LEMMA ProductOrder ==
    ASSUME NEW d \in Nat \ {0}, NEW a \in Int, NEW b \in Int
    PROVE  /\ d * a \in Int /\ d * b \in Int
           /\ a <= b <=> d * a <= d * b
           /\ a < b <=> d * a < d * b
           /\ a = b <=> d * a = d * b
<1>1. ASSUME NEW p \in Int, NEW q \in Int, p < q PROVE d * p < d * q
  <2>1. q - p \in Nat \ {0}
    BY <1>1
  <2>2. d * (q - p) = d * q - d * p
    OBVIOUS
  <2>3. d * (q - p) > 0
    <3> DEFINE k == q - p
    <3>1. k \in Nat \ {0}
      BY <2>1
    <3> HIDE DEF k
    <3>2. d * k > 0
      BY <3>1
    <3>. QED
      BY <3>2 DEF k
  <2>4. d * p \in Int /\ d * q \in Int
    OBVIOUS
  <2>. QED
    BY <2>2, <2>3, <2>4
<1>2. d * a \in Int /\ d * b \in Int
  OBVIOUS
<1>3. a < b \/ a = b \/ b < a
  OBVIOUS
<1>4. (a < b => d * a < d * b) /\ (b < a => d * b < d * a)
  BY <1>1
<1>. QED
  BY <1>2, <1>3, <1>4

\* The numbers to either side, and whether the first of them is even in its last place.
Even(fmt, m) == (m \div Spacing(fmt, m)) % 2 = 0

\* Between two numbers that are a unit apart there is no other of the format.
LEMMA Neighbours ==
    ASSUME NEW fmt \in Formats, NEW e \in Nat, NEW q \in Nat,
           LET unit == Spacing(fmt, e) IN IF e < 32 THEN unit * q < 32 ELSE unit * q >= 32
    PROVE  LET unit == Spacing(fmt, e)
               lo == unit * q
               hi == unit * q + unit
           IN  /\ unit \in {2, 4, 8, 16} /\ lo \in Nat /\ hi \in Nat
               /\ lo % 2 = 0 /\ hi % 2 = 0
               /\ lo <= Largest(fmt) => lo \in Magnitudes(fmt)
               /\ hi <= Largest(fmt) => hi \in Magnitudes(fmt)
               /\ hi > Largest(fmt) => lo >= Largest(fmt)
               /\ \A m \in Magnitudes(fmt) : m <= lo \/ m >= hi
               /\ q % 2 = 0 => Even(fmt, lo)
               /\ q % 2 = 1 => Even(fmt, hi)
<1>1. CASE fmt = "S" /\ e < 32
  <2>1. Spacing(fmt, e) = 4 /\ 4 * q < 32
    BY <1>1 DEF Spacing
  <2>2. q \in 0..7
    BY <2>1
  <2>. QED
    BY <1>1, <2>1, <2>2 DEF Spacing, Largest, Magnitudes, Even
<1>2. CASE fmt = "S" /\ e >= 32
  <2>1. Spacing(fmt, e) = 16 /\ 16 * q >= 32
    BY <1>2 DEF Spacing
  <2>. QED
    BY <1>2, <2>1 DEF Spacing, Largest, Magnitudes, Even
<1>3. CASE fmt = "D" /\ e < 32
  <2>1. Spacing(fmt, e) = 2 /\ 2 * q < 32
    BY <1>3 DEF Spacing
  <2>2. q \in 0..15
    BY <2>1
  <2>. QED
    BY <1>3, <2>1, <2>2 DEF Spacing, Largest, Magnitudes, Even
<1>4. CASE fmt = "D" /\ e >= 32
  <2>1. Spacing(fmt, e) = 8 /\ 8 * q >= 32
    BY <1>4 DEF Spacing
  <2>. QED
    BY <1>4, <2>1 DEF Spacing, Largest, Magnitudes, Even
<1>. QED
  BY <1>1, <1>2, <1>3, <1>4 DEF Formats

\* Quotient and remainder of natural numbers.
LEMMA QuotientIs ==
    ASSUME NEW n \in Nat, NEW u \in Nat \ {0}
    PROVE  n \div u \in Nat /\ n % u \in 0..(u - 1) /\ n = u * (n \div u) + (n % u)
<1> DEFINE q == n \div u
           rest == n % u
<1>1. q \in Int /\ rest \in 0..(u - 1) /\ n = u * q + rest
  BY n \in Int, DivisionGives
<1> HIDE DEF q, rest
<1>2. q >= 0
  <2>1. SUFFICES ASSUME q <= -1 PROVE FALSE
    BY <1>1
  <2>2. u * q <= u * (-1)
    BY <1>1, <2>1, ProductOrder
  <2>3. u * q \in Int /\ u * (-1) = -u
    BY <1>1
  <2>. QED
    BY <1>1, <2>2, <2>3
<1>. QED
  BY <1>1, <1>2 DEF q, rest

\* The unit that the host takes for n / d, and how many of them are below.
Unit(fmt, n, d) == Spacing(fmt, n \div d)
Units(fmt, n, d) == n \div (d * Unit(fmt, n, d))

\* The unit that is chosen for the quotient is that of its neighbours.
LEMMA UnitFits ==
    ASSUME NEW fmt \in Formats, NEW n \in Nat, NEW d \in Nat \ {0}
    PROVE  /\ n \div d \in Nat /\ d * Unit(fmt, n, d) \in Nat \ {0}
           /\ Units(fmt, n, d) \in Nat
           /\ n % (d * Unit(fmt, n, d)) \in 0..(d * Unit(fmt, n, d) - 1)
           /\ IF n \div d < 32 THEN Unit(fmt, n, d) * Units(fmt, n, d) < 32
                             ELSE Unit(fmt, n, d) * Units(fmt, n, d) >= 32
           /\ n = d * (Unit(fmt, n, d) * Units(fmt, n, d)) + (n % (d * Unit(fmt, n, d)))
           /\ d * (Unit(fmt, n, d) * Units(fmt, n, d) + Unit(fmt, n, d))
                = d * (Unit(fmt, n, d) * Units(fmt, n, d)) + d * Unit(fmt, n, d)
<1> DEFINE e == n \div d
           unit == Spacing(fmt, e)
           u == d * unit
           q == n \div u
           f == n % d
           rest == n % u
           lo == unit * q
<1>1. e \in Nat /\ f \in 0..(d - 1) /\ n = d * e + f
  BY QuotientIs
<1> HIDE DEF e, f
<1>2. unit \in {2, 4, 8, 16}
  BY DEF Spacing
<1>3. unit \in Nat \ {0} /\ \E k \in {2, 4, 8, 16} : 32 = unit * k
  BY <1>2
<1>4. u \in Nat \ {0}
  BY <1>3
<1> HIDE DEF unit
<1>5. q \in Nat /\ rest \in 0..(u - 1) /\ n = u * q + rest
  <2> HIDE DEF u
  <2>. QED
    BY <1>4, QuotientIs
<1> HIDE DEF q, rest
<1>6. d * lo = u * q /\ d * (lo + unit) = d * lo + u /\ lo \in Nat /\ d * lo \in Nat
  BY <1>3, <1>5
<1> HIDE DEF lo, u
<1>7. d * lo <= n /\ n < d * (lo + unit)
  BY <1>4, <1>5, <1>6
<1>8. d * e <= n /\ n < d * (e + 1)
  <2>1. d * e \in Int /\ d * (e + 1) = d * e + d
    BY <1>1
  <2>. QED
    BY <1>1, <2>1
<1>9. CASE e < 32
  <2>1. e + 1 <= 32 /\ e + 1 \in Int
    BY <1>1, <1>9
  <2>2. d * (e + 1) <= d * 32
    BY <2>1, ProductOrder
  <2>3. d * (e + 1) \in Int /\ d * 32 \in Int
    BY <2>1
  <2>4. d * lo < d * 32
    BY <1>6, <1>7, <1>8, <2>2, <2>3
  <2>5. lo < 32
    BY <1>6, <2>4, ProductOrder
  <2>. QED
    BY <1>1, <1>4, <1>5, <1>6, <1>9, <2>5 DEF lo, u, rest, q, unit, e, Unit, Units
<1>10. CASE ~(e < 32)
  <2>1. d * 32 <= d * e
    BY <1>1, <1>10, ProductOrder
  <2>2. d * 32 < d * (lo + unit)
    <3>1. d * 32 \in Int /\ d * e \in Int /\ d * (lo + unit) \in Int
      BY <1>1, <1>3, <1>6
    <3>. QED
      BY <1>7, <1>8, <2>1, <3>1
  <2>3. 32 < lo + unit
    <3>1. lo + unit \in Int
      BY <1>3, <1>6
    <3>. QED
      BY <2>2, <3>1, ProductOrder
  <2>4. lo >= 32
    <3>1. PICK k \in {2, 4, 8, 16} : 32 = unit * k
      BY <1>3
    <3>2. unit * k < unit * (q + 1)
      <4>1. unit * (q + 1) = lo + unit
        BY <1>3, <1>5 DEF lo
      <4>. QED
        BY <2>3, <3>1, <4>1
    <3>3. k < q + 1
      BY <1>3, <1>5, <3>2, ProductOrder
    <3>4. k <= q
      BY <1>5, <3>3
    <3>5. unit * k <= unit * q
      BY <1>3, <1>5, <3>4, ProductOrder
    <3>. QED
      BY <3>1, <3>5 DEF lo
  <2>. QED
    BY <1>1, <1>4, <1>5, <1>6, <1>10, <2>4 DEF lo, u, rest, q, unit, e, Unit, Units
<1>. QED
  BY <1>9, <1>10

\* A number is the multiple of the unit below it and what is left.
LEMMA UnitSplits ==
    ASSUME NEW fmt \in Formats, NEW n \in Nat, NEW d \in Nat \ {0}
    PROVE  n = d * (Unit(fmt, n, d) * Units(fmt, n, d)) + (n % (d * Unit(fmt, n, d)))
BY UnitFits

\* The next multiple of the unit is a unit away.
LEMMA NextUnit ==
    ASSUME NEW fmt \in Formats, NEW n \in Nat, NEW d \in Nat \ {0}
    PROVE  d * (Unit(fmt, n, d) * Units(fmt, n, d) + Unit(fmt, n, d))
             = d * (Unit(fmt, n, d) * Units(fmt, n, d)) + d * Unit(fmt, n, d)
BY UnitFits

\* How the quotient is rounded in each mode.
LEMMA QuotientRounds ==
    ASSUME NEW neg \in BOOLEAN, NEW n \in Nat, NEW u \in Nat \ {0}, NEW mode \in Modes
    PROVE  LET q == n \div u
               rest == n % u
               k == RoundQuotient(neg, n, u, mode)
           IN  /\ k \in {q, q + 1}
               /\ rest = 0 => k = q
               /\ mode = "RNE" => /\ k = q => 2 * rest <= u /\ (2 * rest = u => q % 2 = 0)
                                  /\ k = q + 1 => 2 * rest >= u /\ (2 * rest = u => q % 2 = 1)
               /\ mode = "RTZ" => k = q
               /\ mode = "RDN" => (k = q + 1 <=> rest > 0 /\ neg)
               /\ mode = "RUP" => (k = q + 1 <=> rest > 0 /\ ~neg)
<1> DEFINE q == n \div u
           rest == n % u
<1>1. q \in Nat /\ rest \in 0..(u - 1) /\ q + 1 # q
  <2>1. q \in Nat /\ rest \in 0..(u - 1)
    BY QuotientIs
  <2>. QED
    BY <2>1
<1>2. RoundQuotient(neg, n, u, mode) =
        IF (CASE mode = "RNE" -> \/ 2 * rest > u
                                 \/ 2 * rest = u /\ q % 2 = 1
              [] mode = "RTZ" -> FALSE
              [] mode = "RDN" -> rest > 0 /\ neg
              [] mode = "RUP" -> rest > 0 /\ ~neg)
        THEN q + 1 ELSE q
  BY DEF RoundQuotient
<1> DEFINE k == RoundQuotient(neg, n, u, mode)
<1> HIDE DEF q, rest, k
<1>3. CASE mode = "RNE"
  <2>1. k = IF \/ 2 * rest > u
               \/ 2 * rest = u /\ q % 2 = 1
            THEN q + 1 ELSE q
    BY <1>2, <1>3 DEF k
  <2>2. q % 2 \in {0, 1}
    BY <1>1
  <2>. QED
    BY <1>1, <1>3, <2>1, <2>2 DEF k, q, rest
<1>4. CASE mode = "RTZ"
  <2>1. k = q
    BY <1>2, <1>4 DEF k
  <2>. QED
    BY <1>1, <1>4, <2>1 DEF k, q, rest
<1>5. CASE mode = "RDN"
  <2>1. k = IF rest > 0 /\ neg THEN q + 1 ELSE q
    BY <1>2, <1>5 DEF k
  <2>. QED
    BY <1>1, <1>5, <2>1 DEF k, q, rest
<1>6. CASE mode = "RUP"
  <2>1. k = IF rest > 0 /\ ~neg THEN q + 1 ELSE q
    BY <1>2, <1>6 DEF k
  <2>. QED
    BY <1>1, <1>6, <2>1 DEF k, q, rest
<1>. QED
  BY <1>3, <1>4, <1>5, <1>6 DEF Modes

\* Of the numbers of the format, lo is next below n / d, or equal to it, and hi next above.
Between(fmt, n, d, lo, hi) ==
    /\ lo \in Nat /\ hi \in Nat /\ lo % 2 = 0 /\ hi % 2 = 0 /\ lo < hi
    /\ d * lo <= n /\ n < d * hi
    /\ lo <= Largest(fmt) => lo \in Magnitudes(fmt)
    /\ hi <= Largest(fmt) => hi \in Magnitudes(fmt)
    /\ hi > Largest(fmt) => lo >= Largest(fmt)
    /\ \A m \in Magnitudes(fmt) : m <= lo \/ m >= hi

\* The one that each mode takes.
Takes(fmt, neg, n, d, mode, lo, hi, k) ==
    /\ k \in {lo, hi}
    /\ n = d * lo => k = lo
    /\ mode = "RNE" => /\ k = lo => 2 * n <= d * (lo + hi)
                                    /\ (2 * n = d * (lo + hi) => Even(fmt, lo))
                       /\ k = hi => 2 * n >= d * (lo + hi)
                                    /\ (2 * n = d * (lo + hi) => Even(fmt, hi))
    /\ mode = "RTZ" => k = lo
    /\ mode = "RDN" => (k = hi <=> n # d * lo /\ neg)
    /\ mode = "RUP" => (k = hi <=> n # d * lo /\ ~neg)

\* What the host makes of a magnitude.
LEMMA RoundedIs ==
    ASSUME NEW fmt \in Formats, NEW neg \in BOOLEAN, NEW n \in Nat, NEW d \in Nat \ {0},
           NEW mode \in Modes
    PROVE  \E lo \in Nat, hi \in Nat, k \in Nat :
             /\ Between(fmt, n, d, lo, hi)
             /\ Takes(fmt, neg, n, d, mode, lo, hi, k)
             /\ k > Largest(fmt) =>
                  Rounded(neg, n, d, fmt, mode)
                    = Result(IF mode \in {"RNE", IF neg THEN "RDN" ELSE "RUP"}
                             THEN Inf(neg) ELSE Finite(neg, Largest(fmt)), {"OF", "NX"})
             /\ k <= Largest(fmt) =>
                  Rounded(neg, n, d, fmt, mode)
                    = Result(Finite(neg, k),
                             IF k * d = n THEN {}
                             ELSE IF k < SmallestNormal(fmt) THEN {"NX", "UF"} ELSE {"NX"})
<1> DEFINE e == n \div d
           unit == Unit(fmt, n, d)
           u == d * unit
           q == Units(fmt, n, d)
           rest == n % u
           lo == unit * q
           hi == lo + unit
           j == RoundQuotient(neg, n, u, mode)
           k == j * unit
<1>1. /\ e \in Nat /\ u \in Nat \ {0} /\ q \in Nat /\ rest \in 0..(u - 1)
      /\ IF e < 32 THEN unit * q < 32 ELSE unit * q >= 32
      /\ n = d * lo + rest /\ d * hi = d * lo + u
  <2>1. e \in Nat /\ u \in Nat \ {0} /\ q \in Nat /\ rest \in 0..(u - 1)
    BY UnitFits, Zenon
  <2>2. IF e < 32 THEN unit * q < 32 ELSE unit * q >= 32
    BY UnitFits, Zenon
  <2>3. n = d * lo + rest
    BY UnitSplits, Zenon
  <2>4. d * hi = d * lo + u
    BY NextUnit, Zenon
  <2>. QED
    BY <2>1, <2>2, <2>3, <2>4, Zenon
<1>2. /\ unit \in {2, 4, 8, 16} /\ lo \in Nat /\ hi \in Nat
      /\ lo % 2 = 0 /\ hi % 2 = 0
      /\ lo <= Largest(fmt) => lo \in Magnitudes(fmt)
      /\ hi <= Largest(fmt) => hi \in Magnitudes(fmt)
      /\ hi > Largest(fmt) => lo >= Largest(fmt)
      /\ \A m \in Magnitudes(fmt) : m <= lo \/ m >= hi
      /\ q % 2 = 0 => Even(fmt, lo)
      /\ q % 2 = 1 => Even(fmt, hi)
  BY <1>1, Neighbours DEF Unit
<1>3. /\ j \in {q, q + 1}
      /\ rest = 0 => j = q
      /\ mode = "RNE" => /\ j = q => 2 * rest <= u /\ (2 * rest = u => q % 2 = 0)
                         /\ j = q + 1 => 2 * rest >= u /\ (2 * rest = u => q % 2 = 1)
      /\ mode = "RTZ" => j = q
      /\ mode = "RDN" => (j = q + 1 <=> rest > 0 /\ neg)
      /\ mode = "RUP" => (j = q + 1 <=> rest > 0 /\ ~neg)
  BY <1>1, QuotientRounds, ZenonT(60) DEF Units
<1>4. Rounded(neg, n, d, fmt, mode) =
        IF k > Largest(fmt)
        THEN Result(IF mode \in {"RNE", IF neg THEN "RDN" ELSE "RUP"}
                    THEN Inf(neg) ELSE Finite(neg, Largest(fmt)), {"OF", "NX"})
        ELSE Result(Finite(neg, k),
                    IF k * d = n THEN {}
                    ELSE IF k < SmallestNormal(fmt) THEN {"NX", "UF"} ELSE {"NX"})
  BY Zenon DEF Rounded, Unit
<1>5. /\ j = q <=> k = lo
      /\ j = q + 1 <=> k = hi
      /\ lo < hi
  <2> HIDE DEF j, q, unit
  <2>1. q * unit = lo /\ (q + 1) * unit = hi
    BY <1>1, <1>2
  <2>. QED
    BY <1>2, <1>3, <2>1
<1>6. /\ d * lo \in Nat /\ d * hi \in Nat /\ d * (lo + hi) = d * lo + d * hi
  <2> HIDE DEF lo, hi
  <2>. QED
    BY <1>2
<1>7. d * lo <= n /\ n < d * hi /\ (n = d * lo <=> rest = 0) /\ (n # d * lo <=> rest > 0)
  <2> HIDE DEF lo, hi, u, rest
  <2> DEFINE b == d * lo
             c == d * hi
  <2> HIDE DEF b, c
  <2>1. b \in Nat /\ c \in Nat /\ n = b + rest /\ c = b + u /\ rest \in 0..(u - 1)
        /\ u \in Nat \ {0}
    BY <1>1, <1>6 DEF b, c
  <2>. QED
    BY <2>1 DEF b, c
<1>8. /\ 2 * rest <= u => 2 * n <= d * (lo + hi)
      /\ 2 * rest >= u => 2 * n >= d * (lo + hi)
      /\ 2 * rest = u <=> 2 * n = d * (lo + hi)
  <2> HIDE DEF lo, hi, u, rest
  <2> DEFINE b == d * lo
             c == d * hi
             s == d * (lo + hi)
  <2> HIDE DEF b, c, s
  <2>1. b \in Nat /\ c \in Nat /\ n = b + rest /\ c = b + u /\ rest \in 0..(u - 1)
        /\ u \in Nat \ {0} /\ s = b + c
    BY <1>1, <1>6 DEF b, c, s
  <2>. QED
    BY <2>1 DEF s
<1> HIDE DEF lo, hi, rest, u, q, k, j, unit, e
<1>9. Between(fmt, n, d, lo, hi)
  BY <1>2, <1>5, <1>7 DEF Between
<1>10. Takes(fmt, neg, n, d, mode, lo, hi, k)
  <2>1. k \in {lo, hi} /\ (n = d * lo => k = lo)
    BY <1>3, <1>5, <1>7
  <2>2. ASSUME mode = "RNE"
        PROVE  /\ k = lo => 2 * n <= d * (lo + hi)
                            /\ (2 * n = d * (lo + hi) => Even(fmt, lo))
               /\ k = hi => 2 * n >= d * (lo + hi)
                            /\ (2 * n = d * (lo + hi) => Even(fmt, hi))
    BY <1>2, <1>3, <1>5, <1>8, <2>2
  <2>3. mode = "RTZ" => k = lo
    BY <1>3, <1>5
  <2>4. mode = "RDN" => (k = hi <=> n # d * lo /\ neg)
    BY <1>3, <1>5, <1>7
  <2>5. mode = "RUP" => (k = hi <=> n # d * lo /\ ~neg)
    BY <1>3, <1>5, <1>7
  <2>. QED
    BY <2>1, <2>2, <2>3, <2>4, <2>5 DEF Takes
<1>11. k \in Nat /\ Largest(fmt) \in Nat
  BY <1>2, <1>10 DEF Takes, Largest
<1>12. k <= Largest(fmt) <=> ~(k > Largest(fmt))
  BY <1>11
<1>. QED
  BY <1>2, <1>4, <1>9, <1>10, <1>11, <1>12

\* The largest magnitude of a format is one of its magnitudes.
LEMMA LargestIs ==
    ASSUME NEW fmt \in Formats
    PROVE  Largest(fmt) \in Nat /\ Largest(fmt) \in Magnitudes(fmt)
BY DEF Formats, Largest, Magnitudes, Spacing

\* What is rounded is an infinity or a number of the format, and no flag but these is raised.
LEMMA RoundedType ==
    ASSUME NEW fmt \in Formats, NEW neg \in BOOLEAN, NEW n \in Nat, NEW d \in Nat \ {0},
           NEW mode \in Modes
    PROVE  /\ \/ Rounded(neg, n, d, fmt, mode).val = Inf(neg)
              \/ \E m \in Magnitudes(fmt) : Rounded(neg, n, d, fmt, mode).val = Finite(neg, m)
           /\ Rounded(neg, n, d, fmt, mode).flags \subseteq {"OF", "UF", "NX"}
<1> DEFINE res == Rounded(neg, n, d, fmt, mode)
<1>1. PICK lo \in Nat, hi \in Nat, k \in Nat :
             /\ Between(fmt, n, d, lo, hi)
             /\ Takes(fmt, neg, n, d, mode, lo, hi, k)
             /\ k > Largest(fmt) =>
                  res = Result(IF mode \in {"RNE", IF neg THEN "RDN" ELSE "RUP"}
                               THEN Inf(neg) ELSE Finite(neg, Largest(fmt)), {"OF", "NX"})
             /\ k <= Largest(fmt) =>
                  res = Result(Finite(neg, k),
                               IF k * d = n THEN {}
                               ELSE IF k < SmallestNormal(fmt) THEN {"NX", "UF"} ELSE {"NX"})
  BY RoundedIs, SMTT(60)
<1> HIDE DEF res
<1>2. CASE k > Largest(fmt)
  BY <1>1, <1>2, LargestIs DEF Result, res
<1>3. CASE k <= Largest(fmt)
  <2>1. k \in Magnitudes(fmt)
    BY <1>1, <1>3 DEF Between, Takes
  <2>. QED
    BY <1>1, <1>3, <2>1 DEF Result, res
<1>. QED
  BY <1>2, <1>3, LargestIs

\* The excess of the exact result of an instruction over m is that of n / d, or of -n / d.
Exact(i, neg, n, d) ==
    \A m \in Int : /\ Excess(i, m) \in Int
                   /\ Excess(i, m) > 0 <=> (IF neg THEN -n ELSE n) > d * m
                   /\ Excess(i, m) < 0 <=> (IF neg THEN -n ELSE n) < d * m

\* The greatest number of the format that is not above n / d, the least that is not
\* below, and the nearest.
Lower(fmt, n, d, k) ==
    /\ k \in Magnitudes(fmt) /\ d * k <= n
    /\ \A m \in Magnitudes(fmt) : m > k => n < d * m
Upper(fmt, n, d, k) ==
    /\ k \in Magnitudes(fmt) /\ n <= d * k
    /\ \A m \in Magnitudes(fmt) : m < k => d * m < n
Nearer(fmt, n, d, k) ==
    /\ k \in Magnitudes(fmt)
    /\ \A m \in Representable(fmt) \ {k} :
         /\ m > k => 2 * n <= d * (k + m)
         /\ m < k => 2 * n >= d * (k + m)
         /\ 2 * n = d * (k + m) => Even(fmt, k)

\* The representable numbers are the magnitudes and their negations: all are even.
LEMMA Signs ==
    ASSUME NEW fmt \in Formats, NEW m
    PROVE  /\ m \in Representable(fmt) <=>
                m \in Int /\ (m \in Magnitudes(fmt) \/ -m \in Magnitudes(fmt))
           /\ m \in Representable(fmt) => -m \in Representable(fmt) /\ m \in Int /\ m % 2 = 0
<1>1. Magnitudes(fmt) \subseteq Nat /\ \A k \in Magnitudes(fmt) : k % 2 = 0
  BY MagnitudeBounds
<1>2. m \in Representable(fmt) <=> \E k \in Magnitudes(fmt) : m = k \/ m = -k
  BY DEF Representable
<1>3. ASSUME NEW k \in Magnitudes(fmt), m = k
      PROVE  m \in Int /\ m \in Magnitudes(fmt) /\ m % 2 = 0 /\ -m \in Representable(fmt)
  BY <1>1, <1>3 DEF Representable
<1>4. ASSUME NEW k \in Magnitudes(fmt), m = -k
      PROVE  m \in Int /\ -m \in Magnitudes(fmt) /\ m % 2 = 0 /\ -m \in Representable(fmt)
  <2>1. k \in Nat /\ k % 2 = 0
    BY <1>1
  <2>2. -m = k /\ m \in Int /\ m % 2 = 0
    BY <1>4, <2>1
  <2>. QED
    BY <2>2 DEF Representable
<1>5. ASSUME m \in Int, -m \in Magnitudes(fmt) PROVE m \in Representable(fmt)
  <2>1. m = -(-m)
    BY <1>5
  <2>. QED
    BY <1>2, <1>5, <2>1
<1>. QED
  BY <1>2, <1>3, <1>4, <1>5

\* A magnitude that equals n / d is the neighbour on both sides.
LEMMA ExactIsBoth ==
    ASSUME NEW fmt \in Formats, NEW n \in Nat, NEW d \in Nat \ {0}, NEW k \in Magnitudes(fmt),
           n = d * k
    PROVE  Upper(fmt, n, d, k) /\ Lower(fmt, n, d, k)
<1>1. Magnitudes(fmt) \subseteq Int
  BY MagnitudeBounds
<1>2. \A m \in Magnitudes(fmt) : (m < k => d * m < d * k) /\ (m > k => d * k < d * m)
  BY <1>1, ProductOrder
<1>. QED
  BY <1>1, <1>2 DEF Upper, Lower

\* The lower of two neighbours is the greatest magnitude not above n / d.
LEMMA LowerIs ==
    ASSUME NEW fmt \in Formats, NEW n \in Nat, NEW d \in Nat \ {0}, NEW lo, NEW hi,
           Between(fmt, n, d, lo, hi)
    PROVE  /\ lo <= Largest(fmt) => Lower(fmt, n, d, lo)
           /\ lo >= Largest(fmt) => Lower(fmt, n, d, Largest(fmt))
<1>1. lo \in Int /\ hi \in Int /\ Magnitudes(fmt) \subseteq Int
  BY MagnitudeBounds DEF Between
<1>2. ASSUME NEW m \in Magnitudes(fmt), m > lo PROVE n < d * m
  <2>1. m >= hi /\ m \in Int
    BY <1>1, <1>2 DEF Between
  <2>2. d * hi <= d * m /\ d * hi \in Int /\ d * m \in Int
    BY <1>1, <2>1, ProductOrder
  <2>. QED
    BY <2>2 DEF Between
<1>3. ASSUME lo >= Largest(fmt) PROVE d * Largest(fmt) <= n
  <2>1. d * Largest(fmt) <= d * lo /\ d * Largest(fmt) \in Int /\ d * lo \in Int
    BY <1>1, <1>3, LargestIs, ProductOrder
  <2>. QED
    BY <2>1 DEF Between
<1>4. \A m \in Magnitudes(fmt) : ~(m > Largest(fmt))
  BY MagnitudeBounds, LargestIs
<1>. QED
  BY <1>2, <1>3, <1>4, LargestIs DEF Lower, Between

\* The upper of two neighbours is the least magnitude not below n / d.
LEMMA UpperIs ==
    ASSUME NEW fmt \in Formats, NEW n \in Nat, NEW d \in Nat \ {0}, NEW lo, NEW hi,
           Between(fmt, n, d, lo, hi), hi <= Largest(fmt), n # d * lo
    PROVE  Upper(fmt, n, d, hi)
<1>1. lo \in Int /\ hi \in Int /\ Magnitudes(fmt) \subseteq Int
      /\ d * lo \in Int /\ d * hi \in Int
  BY MagnitudeBounds DEF Between
<1>2. ASSUME NEW m \in Magnitudes(fmt), m < hi PROVE d * m < n
  <2>1. m <= lo /\ m \in Int
    BY <1>1, <1>2 DEF Between
  <2>2. d * m <= d * lo /\ d * m \in Int
    BY <1>1, <2>1, ProductOrder
  <2>3. d * lo <= n
    BY DEF Between
  <2>. QED
    BY <1>1, <2>2, <2>3
<1>3. n <= d * hi
  BY <1>1 DEF Between
<1>. QED
  BY <1>2, <1>3 DEF Upper, Between

\* The neighbour that "to nearest, ties to even" takes is the nearest magnitude.
LEMMA NearerIs ==
    ASSUME NEW fmt \in Formats, NEW neg \in BOOLEAN, NEW n \in Nat, NEW d \in Nat \ {0},
           NEW lo, NEW hi, NEW k,
           Between(fmt, n, d, lo, hi), Takes(fmt, neg, n, d, "RNE", lo, hi, k),
           k <= Largest(fmt)
    PROVE  Nearer(fmt, n, d, k)
<1> DEFINE s == d * (lo + hi)
<1>1. /\ lo \in Nat /\ hi \in Nat /\ lo < hi /\ k \in {lo, hi} /\ k \in Int
      /\ k \in Magnitudes(fmt)
  BY DEF Between, Takes
<1>2. d * lo \in Int /\ d * hi \in Int /\ s \in Int /\ s = d * lo + d * hi
      /\ d * (lo + lo) = d * lo + d * lo /\ d * (hi + hi) = d * hi + d * hi
  BY <1>1
<1>3. /\ k = lo => 2 * n <= s /\ (2 * n = s => Even(fmt, lo))
      /\ k = hi => 2 * n >= s /\ (2 * n = s => Even(fmt, hi))
      /\ d * lo <= n /\ n < d * hi
  BY DEF Takes, Between
<1> HIDE DEF s
<1>4. ASSUME NEW m \in Representable(fmt) \ {k}
      PROVE  /\ m > k => 2 * n <= d * (k + m)
             /\ m < k => 2 * n >= d * (k + m)
             /\ 2 * n = d * (k + m) => Even(fmt, k)
  <2>1. m \in Int /\ (m \in Magnitudes(fmt) \/ m <= 0) /\ (m <= lo \/ m >= hi)
    <3>1. m \in Int /\ (m \in Magnitudes(fmt) \/ -m \in Magnitudes(fmt))
      BY Signs
    <3>2. -m \in Magnitudes(fmt) => m <= 0
      BY <3>1, MagnitudeBounds
    <3>3. m \in Magnitudes(fmt) => m <= lo \/ m >= hi
      BY DEF Between
    <3>. QED
      BY <1>1, <3>1, <3>2, <3>3
  <2>2. k + m \in Int /\ lo + hi \in Int /\ lo + lo \in Int /\ hi + hi \in Int
        /\ k + m # k + k /\ d * (k + m) \in Int
    BY <1>1, <2>1
  <2>3. /\ k + m <= lo + hi <=> d * (k + m) <= s
        /\ k + m < lo + hi <=> d * (k + m) < s
        /\ k + m = lo + hi <=> d * (k + m) = s
    BY <2>2, ProductOrder DEF s
  <2>4. CASE k = lo
    <3>1. CASE m >= hi
      <4>1. s <= d * (k + m)
        BY <1>1, <1>2, <2>1, <2>2, <2>3, <2>4, <3>1
      <4>. QED
        BY <1>1, <1>2, <1>3, <2>1, <2>2, <2>4, <3>1, <4>1
    <3>2. CASE m <= lo
      <4>1. k + m < lo + lo /\ m < k
        BY <1>1, <2>1, <2>4, <3>2
      <4>2. d * (k + m) < d * (lo + lo)
        BY <2>2, <4>1, ProductOrder
      <4>. QED
        BY <1>1, <1>2, <1>3, <2>1, <2>2, <4>1, <4>2
    <3>. QED
      BY <2>1, <3>1, <3>2
  <2>5. CASE k = hi
    <3>1. CASE m >= hi
      <4>1. hi + hi < k + m /\ m > k
        BY <1>1, <2>1, <2>5, <3>1
      <4>2. d * (hi + hi) < d * (k + m)
        BY <2>2, <4>1, ProductOrder
      <4>. QED
        BY <1>1, <1>2, <1>3, <2>1, <2>2, <4>1, <4>2
    <3>2. CASE m <= lo
      <4>1. d * (k + m) <= s
        BY <1>1, <1>2, <2>1, <2>2, <2>3, <2>5, <3>2
      <4>. QED
        BY <1>1, <1>2, <1>3, <2>1, <2>2, <2>5, <3>2, <4>1
    <3>. QED
      BY <2>1, <3>1, <3>2
  <2>. QED
    BY <1>1, <2>4, <2>5
<1>. QED
  BY <1>1, <1>4 DEF Nearer

\* The magnitude that each mode gives.
LEMMA RoundedMagnitude ==
    ASSUME NEW fmt \in Formats, NEW neg \in BOOLEAN, NEW n \in Nat, NEW d \in Nat \ {0},
           NEW mode \in Modes, Rounded(neg, n, d, fmt, mode).val.is = "finite"
    PROVE  \E k \in Magnitudes(fmt) :
             /\ Rounded(neg, n, d, fmt, mode).val = Finite(neg, k)
             /\ mode = "RNE" => Nearer(fmt, n, d, k)
             /\ mode = "RTZ" => Lower(fmt, n, d, k)
             /\ mode = "RDN" => IF neg THEN Upper(fmt, n, d, k) ELSE Lower(fmt, n, d, k)
             /\ mode = "RUP" => IF neg THEN Lower(fmt, n, d, k) ELSE Upper(fmt, n, d, k)
<1> DEFINE res == Rounded(neg, n, d, fmt, mode)
           out == IF neg THEN "RDN" ELSE "RUP"
<1>1. PICK lo \in Nat, hi \in Nat, k \in Nat :
             /\ Between(fmt, n, d, lo, hi)
             /\ Takes(fmt, neg, n, d, mode, lo, hi, k)
             /\ k > Largest(fmt) =>
                  res = Result(IF mode \in {"RNE", out}
                               THEN Inf(neg) ELSE Finite(neg, Largest(fmt)), {"OF", "NX"})
             /\ k <= Largest(fmt) =>
                  res = Result(Finite(neg, k),
                               IF k * d = n THEN {}
                               ELSE IF k < SmallestNormal(fmt) THEN {"NX", "UF"} ELSE {"NX"})
  BY RoundedIs
<1>2. res.val.is = "finite"
  OBVIOUS
<1> HIDE DEF res
<1>3. CASE k > Largest(fmt)
  <2>1. mode \notin {"RNE", out} /\ res.val = Finite(neg, Largest(fmt))
    BY <1>1, <1>2, <1>3, InfIsValue DEF Result
  <2>2. lo >= Largest(fmt)
    BY <1>1, <1>3, LargestIs DEF Between, Takes
  <2>3. Lower(fmt, n, d, Largest(fmt))
    BY <1>1, <2>2, LowerIs
  <2>. QED
    BY <2>1, <2>3, LargestIs DEF res
<1>4. CASE k <= Largest(fmt)
  <2>1. k \in Magnitudes(fmt) /\ res.val = Finite(neg, k)
    BY <1>1, <1>4 DEF Between, Takes, Result
  <2>2. k = lo => Lower(fmt, n, d, k)
    BY <1>1, <1>4, LowerIs
  <2>3. n = d * lo => k = lo
    BY <1>1 DEF Takes
  <2>4. n = d * lo => Upper(fmt, n, d, k)
    BY <2>1, <2>3, ExactIsBoth
  <2>5. k = hi /\ n # d * lo => Upper(fmt, n, d, k)
    BY <1>1, <1>4, UpperIs
  <2>6. k \in {lo, hi}
    BY <1>1 DEF Takes
  <2>7. mode = "RNE" => Nearer(fmt, n, d, k)
    BY <1>1, <1>4, NearerIs
  <2>8. mode = "RTZ" => Lower(fmt, n, d, k)
    BY <1>1, <2>2 DEF Takes
  <2>9. mode = "RDN" => IF neg THEN Upper(fmt, n, d, k) ELSE Lower(fmt, n, d, k)
    BY <1>1, <2>2, <2>4, <2>5, <2>6 DEF Takes
  <2>10. mode = "RUP" => IF neg THEN Lower(fmt, n, d, k) ELSE Upper(fmt, n, d, k)
    BY <1>1, <2>2, <2>4, <2>5, <2>6 DEF Takes
  <2>. QED
    BY <2>1, <2>7, <2>8, <2>9, <2>10 DEF res
<1>. QED
  BY <1>1, <1>3, <1>4, LargestIs

\* What the lower and the upper neighbour of the magnitude are for the signed result.
LEMMA FloorIs ==
    ASSUME NEW i, i.fmt \in Formats, NEW neg \in BOOLEAN, NEW n \in Nat, NEW d \in Nat \ {0},
           NEW k, Exact(i, neg, n, d)
    PROVE  /\ ~neg /\ Lower(i.fmt, n, d, k) => IsFloorOf(i, k)
           /\ neg /\ Upper(i.fmt, n, d, k) => IsFloorOf(i, -k)
<1>1. \A m \in Magnitudes(i.fmt) : m \in Nat
  BY MagnitudeBounds
<1>2. \A m \in Representable(i.fmt) :
         m \in Int /\ (m \in Magnitudes(i.fmt) \/ -m \in Magnitudes(i.fmt))
  BY Signs
<1>3. ASSUME ~neg, Lower(i.fmt, n, d, k) PROVE IsFloorOf(i, k)
  <2>1. k \in Nat /\ d * k \in Int /\ d * k <= n
    BY <1>1, <1>3 DEF Lower
  <2>2. Excess(i, k) >= 0
    BY <1>3, <2>1 DEF Exact
  <2>3. ASSUME NEW m \in Representable(i.fmt), m > k PROVE Excess(i, m) < 0
    <3>1. m \in Int /\ m \in Magnitudes(i.fmt)
      BY <1>1, <1>2, <2>1, <2>3
    <3>2. n < d * m
      BY <1>3, <2>3, <3>1 DEF Lower
    <3>. QED
      BY <1>3, <3>1, <3>2 DEF Exact
  <2>. QED
    BY <2>2, <2>3 DEF IsFloorOf
<1>4. ASSUME neg, Upper(i.fmt, n, d, k) PROVE IsFloorOf(i, -k)
  <2>1. k \in Nat /\ n <= d * k /\ -k \in Int
    BY <1>1, <1>4 DEF Upper
  <2>2. d * (-k) = -(d * k) /\ d * k \in Int
    BY <2>1
  <2>3. ~(-n < d * (-k))
    BY <2>1, <2>2
  <2>4. Excess(i, -k) >= 0
    BY <1>4, <2>1, <2>3 DEF Exact
  <2>5. ASSUME NEW m \in Representable(i.fmt), m > -k PROVE Excess(i, m) < 0
    <3>1. m \in Int /\ d * m \in Int /\ d * (-m) = -(d * m)
      BY <1>2
    <3>2. CASE -m \in Magnitudes(i.fmt)
      <4>1. d * (-m) < n
        BY <1>4, <2>1, <2>5, <3>1, <3>2 DEF Upper
      <4>2. -n < d * m
        BY <3>1, <4>1
      <4>. QED
        BY <1>4, <3>1, <4>2 DEF Exact
    <3>3. CASE m \in Magnitudes(i.fmt) /\ m # 0
      <4>1. d * 0 < d * m
        BY <1>1, <3>1, <3>3, ProductOrder
      <4>2. -n < d * m
        BY <3>1, <4>1
      <4>. QED
        BY <1>4, <3>1, <4>2 DEF Exact
    <3>4. m # 0 \/ -m \in Magnitudes(i.fmt)
      BY Zero DEF Formats
    <3>. QED
      BY <1>2, <3>2, <3>3, <3>4
  <2>. QED
    BY <2>4, <2>5 DEF IsFloorOf
<1>. QED
  BY <1>3, <1>4

\* The ceiling of a number, from the neighbours of its magnitude.
LEMMA CeilingIs ==
    ASSUME NEW i, i.fmt \in Formats, NEW neg \in BOOLEAN, NEW n \in Nat, NEW d \in Nat \ {0},
           NEW k, Exact(i, neg, n, d)
    PROVE  /\ neg /\ Lower(i.fmt, n, d, k) => IsCeilingOf(i, -k)
           /\ ~neg /\ Upper(i.fmt, n, d, k) => IsCeilingOf(i, k)
<1>1. \A m \in Magnitudes(i.fmt) : m \in Nat
  BY MagnitudeBounds
<1>2. \A m \in Representable(i.fmt) :
         m \in Int /\ (m \in Magnitudes(i.fmt) \/ -m \in Magnitudes(i.fmt))
  BY Signs
<1>3. ASSUME neg, Lower(i.fmt, n, d, k) PROVE IsCeilingOf(i, -k)
  <2>1. k \in Nat /\ d * k \in Int /\ d * k <= n /\ -k \in Int
    BY <1>1, <1>3 DEF Lower
  <2>2. d * (-k) = -(d * k)
    BY <2>1
  <2>3. ~(-n > d * (-k))
    BY <2>1, <2>2
  <2>4. Excess(i, -k) <= 0
    BY <1>3, <2>1, <2>3 DEF Exact
  <2>5. ASSUME NEW m \in Representable(i.fmt), m < -k PROVE Excess(i, m) > 0
    <3>1. m \in Int /\ -m \in Magnitudes(i.fmt) /\ -m > k /\ d * m \in Int
      BY <1>1, <1>2, <2>1, <2>5
    <3>2. n < d * (-m) /\ d * (-m) = -(d * m)
      BY <1>3, <3>1 DEF Lower
    <3>3. -n > d * m
      BY <3>1, <3>2
    <3>. QED
      BY <1>3, <3>1, <3>3 DEF Exact
  <2>. QED
    BY <2>4, <2>5 DEF IsCeilingOf
<1>4. ASSUME ~neg, Upper(i.fmt, n, d, k) PROVE IsCeilingOf(i, k)
  <2>1. k \in Nat /\ n <= d * k /\ d * k \in Int
    BY <1>1, <1>4 DEF Upper
  <2>2. Excess(i, k) <= 0
    BY <1>4, <2>1 DEF Exact
  <2>3. ASSUME NEW m \in Representable(i.fmt), m < k PROVE Excess(i, m) > 0
    <3>1. m \in Int /\ d * m \in Int
      BY <1>2
    <3>2. CASE m \in Magnitudes(i.fmt)
      <4>1. d * m < n
        BY <1>4, <2>3, <3>2 DEF Upper
      <4>. QED
        BY <1>4, <3>1, <4>1 DEF Exact
    <3>3. CASE -m \in Magnitudes(i.fmt) /\ m # 0
      <4>1. d * m < d * 0
        BY <1>1, <3>1, <3>3, ProductOrder
      <4>2. d * m < n
        BY <3>1, <4>1
      <4>. QED
        BY <1>4, <3>1, <4>2 DEF Exact
    <3>4. m # 0 \/ m \in Magnitudes(i.fmt)
      BY Zero DEF Formats
    <3>. QED
      BY <1>2, <3>2, <3>3, <3>4
  <2>. QED
    BY <2>2, <2>3 DEF IsCeilingOf
<1>. QED
  BY <1>3, <1>4

\* The nearest of a number, from the nearest of its magnitude.
LEMMA NearestIs ==
    ASSUME NEW i, i.fmt \in Formats, NEW neg \in BOOLEAN, NEW n \in Nat, NEW d \in Nat \ {0},
           NEW k, Exact(i, neg, n, d), Nearer(i.fmt, n, d, k)
    PROVE  IsNearestTo(i, IF neg THEN -k ELSE k)
<1> DEFINE r == IF neg THEN -k ELSE k
           e == IF neg THEN -n ELSE n
<1>1. k \in Nat /\ k % 2 = 0 /\ k \in Magnitudes(i.fmt)
  BY MagnitudeBounds DEF Nearer
<1>2. r \in Int /\ r % 2 = 0 /\ (IF r < 0 THEN -r ELSE r) = k
  BY <1>1
<1>3. ASSUME NEW m \in Representable(i.fmt) \ {r}
      PROVE  /\ IF r < m THEN Excess(i, (r + m) \div 2) <= 0
                         ELSE Excess(i, (r + m) \div 2) >= 0
             /\ Excess(i, (r + m) \div 2) = 0 => Even(i.fmt, k)
  <2> DEFINE w == (r + m) \div 2
  <2>1. m \in Int /\ m % 2 = 0 /\ -m \in Representable(i.fmt)
    BY Signs
  <2>2. w \in Int /\ r + m = 2 * w
    BY <1>2, <2>1
  <2>3. CASE ~neg
    <3>1. r = k /\ m # k
      BY <2>3, <1>3
    <3>2. /\ m > k => 2 * n <= d * (k + m)
          /\ m < k => 2 * n >= d * (k + m)
          /\ 2 * n = d * (k + m) => Even(i.fmt, k)
      BY <3>1 DEF Nearer
    <3>3. k + m = 2 * w
      BY <2>2, <3>1
    <3>. HIDE DEF w
    <3>4. d * (k + m) = 2 * (d * w) /\ d * w \in Int
      BY <2>2, <3>3
    <3>5. /\ m > k => n <= d * w
          /\ m < k => n >= d * w
          /\ n = d * w => Even(i.fmt, k)
      BY <3>2, <3>4
    <3>6. /\ Excess(i, w) \in Int
          /\ Excess(i, w) > 0 <=> n > d * w
          /\ Excess(i, w) < 0 <=> n < d * w
      BY <2>2, <2>3 DEF Exact
    <3>7. /\ IF k < m THEN Excess(i, w) <= 0 ELSE Excess(i, w) >= 0
          /\ Excess(i, w) = 0 => Even(i.fmt, k)
      BY <1>1, <2>1, <3>1, <3>4, <3>5, <3>6
    <3>. QED
      BY <3>1, <3>7 DEF w
  <2>4. CASE neg
    <3>1. r = -k /\ -m # k
      BY <2>4, <1>3, <2>1, <1>1
    <3>2. /\ -m > k => 2 * n <= d * (k + (-m))
          /\ -m < k => 2 * n >= d * (k + (-m))
          /\ 2 * n = d * (k + (-m)) => Even(i.fmt, k)
      BY <2>1, <3>1 DEF Nearer
    <3>3. k + (-m) = 2 * (-w) /\ -w \in Int
      BY <1>1, <2>1, <2>2, <3>1
    <3>. HIDE DEF w
    <3>4. d * (k + (-m)) = -(2 * (d * w)) /\ d * w \in Int
      <4>1. d * (2 * (-w)) = -(2 * (d * w)) /\ d * w \in Int
        BY <2>2
      <4>. QED
        BY <3>3, <4>1
    <3>5. /\ -m > k => -n >= d * w
          /\ -m < k => -n <= d * w
          /\ -n = d * w => Even(i.fmt, k)
      BY <3>2, <3>4
    <3>6. /\ Excess(i, w) \in Int
          /\ Excess(i, w) > 0 <=> -n > d * w
          /\ Excess(i, w) < 0 <=> -n < d * w
      BY <2>2, <2>4 DEF Exact
    <3>7. /\ IF -k < m THEN Excess(i, w) <= 0 ELSE Excess(i, w) >= 0
          /\ Excess(i, w) = 0 => Even(i.fmt, k)
      BY <1>1, <2>1, <3>1, <3>4, <3>5, <3>6
    <3>. QED
      BY <3>1, <3>7 DEF w
  <2>. QED
    BY <2>3, <2>4
<1> HIDE DEF r
<1>. QED
  BY <1>2, <1>3 DEF IsNearestTo, Even, r

ModeOf(a) == CASE a = 0 -> "RNE" [] a = 1 -> "RTZ" [] a = 2 -> "RDN" [] a = 3 -> "RUP"

\* Nothing is left of a result of zero, whichever way it is rounded.
LEMMA ZeroRounds ==
    ASSUME NEW i, i.fmt \in Formats, NEW d \in Nat \ {0}, Exact(i, FALSE, 0, d),
           NEW a \in 0..3
    PROVE  RoundsTo(i, 0, a) /\ Excess(i, 0) = 0
<1>1. 0 \in Magnitudes(i.fmt)
  BY Zero DEF Formats
<1>2. Lower(i.fmt, 0, d, 0) /\ Upper(i.fmt, 0, d, 0)
  BY <1>1, ExactIsBoth
<1>3. Excess(i, 0) = 0
  BY DEF Exact
<1>4. ASSUME NEW m \in Representable(i.fmt) \ {0}
      PROVE  (m > 0 => 0 < d * (0 + m)) /\ (m < 0 => 0 > d * (0 + m))
             /\ 2 * 0 # d * (0 + m)
  <2>1. m \in Int
    BY Signs
  <2>2. (m > 0 => d * 0 < d * m) /\ (m < 0 => d * m < d * 0) /\ (0 = m <=> d * 0 = d * m)
    BY <2>1, ProductOrder
  <2>. QED
    BY <2>1, <2>2
<1>5. \A m \in Representable(i.fmt) \ {0} : m \in Int /\ d * (0 + m) \in Int
  BY Signs
<1>6. Nearer(i.fmt, 0, d, 0)
  BY <1>1, <1>4, <1>5 DEF Nearer
<1>7. IsFloorOf(i, 0) /\ IsCeilingOf(i, 0)
  BY <1>2, FloorIs, CeilingIs, 0 \in Nat
<1>8. IsNearestTo(i, 0)
  BY <1>6, NearestIs, 0 \in Nat
<1>9. Excess(i, 0) >= 0
  BY <1>3
<1>10. a = 0 => RoundsTo(i, 0, a)
  BY <1>8 DEF RoundsTo
<1>11. a = 1 => RoundsTo(i, 0, a)
  BY <1>7, <1>9 DEF RoundsTo
<1>12. a = 2 => RoundsTo(i, 0, a)
  BY <1>7 DEF RoundsTo
<1>13. a = 3 => RoundsTo(i, 0, a)
  BY <1>7 DEF RoundsTo
<1>. QED
  BY <1>3, <1>10, <1>11, <1>12, <1>13

\* A number that Rounded gives is the exact result rounded the way the mode says.
LEMMA RoundsRight ==
    ASSUME NEW i, i.fmt \in Formats, NEW neg \in BOOLEAN, NEW n \in Nat, NEW d \in Nat \ {0},
           Exact(i, neg, n, d), NEW a \in 0..3,
           Rounded(neg, n, d, i.fmt, ModeOf(a)).val.is = "finite"
    PROVE  RoundsTo(i, Eighths(Rounded(neg, n, d, i.fmt, ModeOf(a)).val), a)
<1> DEFINE mode == ModeOf(a)
           v == Rounded(neg, n, d, i.fmt, mode).val
<1>1. /\ mode \in Modes
      /\ a = 0 <=> mode = "RNE"
      /\ a = 1 <=> mode = "RTZ"
      /\ a = 2 <=> mode = "RDN"
      /\ a = 3 <=> mode = "RUP"
  BY DEF ModeOf, Modes
<1> HIDE DEF mode
<1>2. PICK k \in Magnitudes(i.fmt) :
             /\ v = Finite(neg, k)
             /\ mode = "RNE" => Nearer(i.fmt, n, d, k)
             /\ mode = "RTZ" => Lower(i.fmt, n, d, k)
             /\ mode = "RDN" => IF neg THEN Upper(i.fmt, n, d, k) ELSE Lower(i.fmt, n, d, k)
             /\ mode = "RUP" => IF neg THEN Lower(i.fmt, n, d, k) ELSE Upper(i.fmt, n, d, k)
  BY <1>1, RoundedMagnitude DEF mode
<1> HIDE DEF v
<1>3. Eighths(v) = IF neg THEN -k ELSE k
  BY <1>2, FiniteFields DEF Eighths
<1> DEFINE r == IF neg THEN -k ELSE k
<1>4. k \in Nat
  BY MagnitudeBounds
<1>5. CASE a = 0
  <2>1. IsNearestTo(i, r)
    BY <1>1, <1>2, <1>5, NearestIs
  <2>. QED
    BY <1>3, <1>5, <2>1 DEF RoundsTo, v, mode
<1>6. CASE a = 1
  <2>1. Lower(i.fmt, n, d, k)
    BY <1>1, <1>2, <1>6
  <2>2. CASE ~neg
    <3>1. ~(n < d * 0) /\ 0 \in Int
      OBVIOUS
    <3>2. Excess(i, 0) \in Int /\ ~(Excess(i, 0) < 0)
      BY <2>2, <3>1 DEF Exact
    <3>3. Excess(i, 0) >= 0
      BY <3>2
    <3>4. IsFloorOf(i, k)
      BY <2>1, <2>2, FloorIs
    <3>. QED
      BY <1>3, <1>6, <2>2, <3>3, <3>4 DEF RoundsTo, v, mode
  <2>3. CASE neg /\ n > 0
    <3>1. -n < d * 0 /\ 0 \in Int
      BY <2>3
    <3>2. Excess(i, 0) \in Int /\ Excess(i, 0) < 0
      BY <2>3, <3>1 DEF Exact
    <3>3. ~(Excess(i, 0) >= 0)
      BY <3>2
    <3>4. IsCeilingOf(i, -k)
      BY <2>1, <2>3, CeilingIs
    <3>. QED
      BY <1>3, <1>6, <2>3, <3>3, <3>4 DEF RoundsTo, v, mode
  <2>4. CASE neg /\ n = 0
    <3>1. Exact(i, FALSE, 0, d)
      BY <2>4 DEF Exact
    <3>2. d * k <= d * 0
      BY <2>1, <2>4 DEF Lower
    <3>3. k = 0
      BY <1>4, <3>2, ProductOrder
    <3>4. RoundsTo(i, 0, a)
      BY <3>1, ZeroRounds
    <3>. QED
      BY <1>3, <2>4, <3>3, <3>4 DEF v, mode
  <2>. QED
    BY <2>2, <2>3, <2>4
<1>7. CASE a = 2
  <2>1. IsFloorOf(i, r)
    BY <1>1, <1>2, <1>7, FloorIs
  <2>. QED
    BY <1>3, <1>7, <2>1 DEF RoundsTo, v, mode
<1>8. CASE a = 3
  <2>1. IsCeilingOf(i, r)
    BY <1>1, <1>2, <1>8, CeilingIs
  <2>. QED
    BY <1>3, <1>8, <2>1 DEF RoundsTo, v, mode
<1>. QED
  BY <1>5, <1>6, <1>7, <1>8

\* It is flagged inexact exactly if it is not the exact result.
LEMMA FlagsRight ==
    ASSUME NEW i, i.fmt \in Formats, NEW neg \in BOOLEAN, NEW n \in Nat, NEW d \in Nat \ {0},
           Exact(i, neg, n, d), NEW mode \in Modes
    PROVE  /\ "NX" \in Rounded(neg, n, d, i.fmt, mode).flags
                <=> \/ Rounded(neg, n, d, i.fmt, mode).val.is = "inf"
                    \/ Excess(i, Eighths(Rounded(neg, n, d, i.fmt, mode).val)) # 0
           /\ Rounded(neg, n, d, i.fmt, mode).val.is = "inf"
                => "OF" \in Rounded(neg, n, d, i.fmt, mode).flags
<1> DEFINE fmt == i.fmt
           out == IF neg THEN "RDN" ELSE "RUP"
           res == Rounded(neg, n, d, fmt, mode)
<1>. fmt \in Formats
  OBVIOUS
<1> HIDE DEF fmt
<1>1. PICK lo \in Nat, hi \in Nat, k \in Nat :
             /\ Between(fmt, n, d, lo, hi)
             /\ Takes(fmt, neg, n, d, mode, lo, hi, k)
             /\ k > Largest(fmt) =>
                  res = Result(IF mode \in {"RNE", out}
                               THEN Inf(neg) ELSE Finite(neg, Largest(fmt)), {"OF", "NX"})
             /\ k <= Largest(fmt) =>
                  res = Result(Finite(neg, k),
                               IF k * d = n THEN {}
                               ELSE IF k < SmallestNormal(fmt) THEN {"NX", "UF"} ELSE {"NX"})
  BY RoundedIs
<1> HIDE DEF res, out
<1>2. ASSUME NEW m \in Nat
      PROVE  Excess(i, Eighths(Finite(neg, m))) # 0 <=> n # d * m
  <2>1. Eighths(Finite(neg, m)) = IF neg THEN -m ELSE m
    BY FiniteFields DEF Eighths
  <2>2. d * m \in Int /\ d * (-m) = -(d * m) /\ -m \in Int
    OBVIOUS
  <2>3. CASE neg
    <3>1. /\ Excess(i, -m) \in Int
          /\ Excess(i, -m) > 0 <=> -n > d * (-m)
          /\ Excess(i, -m) < 0 <=> -n < d * (-m)
      BY <2>2, <2>3 DEF Exact
    <3>. QED
      BY <2>1, <2>2, <2>3, <3>1
  <2>4. CASE ~neg
    <3>1. /\ Excess(i, m) \in Int
          /\ Excess(i, m) > 0 <=> n > d * m
          /\ Excess(i, m) < 0 <=> n < d * m
      BY <2>4 DEF Exact
    <3>. QED
      BY <2>1, <2>2, <2>4, <3>1
  <2>. QED
    BY <2>3, <2>4
<1>3. CASE k > Largest(fmt)
  <2>1. res = Result(IF mode \in {"RNE", out}
                     THEN Inf(neg) ELSE Finite(neg, Largest(fmt)), {"OF", "NX"})
    BY <1>1, <1>3
  <2>2. res.flags = {"OF", "NX"} /\ (res.val = Inf(neg) \/ res.val = Finite(neg, Largest(fmt)))
    BY <2>1 DEF Result
  <2>3. n # d * Largest(fmt)
    <3>1. Largest(fmt) \in Nat /\ lo >= Largest(fmt) /\ d * lo <= n /\ k \in {lo, hi}
          /\ (n = d * lo => k = lo)
      BY <1>1, <1>3, LargestIs DEF Between, Takes
    <3>2. d * Largest(fmt) <= d * lo /\ (Largest(fmt) = lo <=> d * Largest(fmt) = d * lo)
          /\ d * lo \in Int /\ d * Largest(fmt) \in Int
      BY <3>1, ProductOrder
    <3>. QED
      BY <1>3, <3>1, <3>2
  <2>4. res.val = Finite(neg, Largest(fmt)) => Excess(i, Eighths(res.val)) # 0
    BY <1>2, <2>3, LargestIs
  <2>5. Inf(neg).is = "inf"
    BY DEF Inf
  <2>. QED
    BY <2>2, <2>4, <2>5 DEF res, fmt
<1>4. CASE k <= Largest(fmt)
  <2>1. /\ res.val = Finite(neg, k)
        /\ res.flags = IF k * d = n THEN {}
                       ELSE IF k < SmallestNormal(fmt) THEN {"NX", "UF"} ELSE {"NX"}
    BY <1>1, <1>4 DEF Result
  <2>2. k * d = d * k
    OBVIOUS
  <2>3. "NX" \in res.flags <=> n # d * k
    BY <2>1, <2>2
  <2>4. res.val.is # "inf"
    BY <2>1, FiniteFields
  <2>5. Excess(i, Eighths(res.val)) # 0 <=> n # d * k
    BY <1>2, <2>1
  <2>. QED
    BY <2>3, <2>4, <2>5 DEF res, fmt
<1>. QED
  BY <1>1, <1>3, <1>4, LargestIs

-----------------------------------------------------------------------------
(* Operations                                                              *)

\* The fields of a finite value, and the integer it stands for.
LEMMA NumberIs ==
    ASSUME NEW fmt \in Formats, NEW v \in Values(fmt), v.is = "finite"
    PROVE  /\ v.mag \in Nat /\ v.mag \in Magnitudes(fmt) /\ v.neg \in BOOLEAN
           /\ Eighths(v) \in Int /\ Eighths(v) = (IF v.neg THEN -v.mag ELSE v.mag)
           /\ IsZero(v) <=> v.mag = 0
           /\ IsZero(v) <=> Eighths(v) = 0
           /\ ~IsNan(v) /\ ~IsSnan(v)
<1>1. v.mag \in Nat /\ v.mag \in Magnitudes(fmt) /\ v.neg \in BOOLEAN
  BY ValueFields, MagnitudeBounds
<1>2. Eighths(v) = (IF v.neg THEN -v.mag ELSE v.mag)
  BY DEF Eighths
<1>3. ~IsNan(v) /\ ~IsSnan(v) /\ (IsZero(v) <=> v.mag = 0)
  BY DEF IsNan, IsSnan, IsZero
<1>. QED
  BY <1>1, <1>2, <1>3

\* Changing the sign changes nothing else.
LEMMA NegatedIs ==
    ASSUME NEW fmt \in Formats, NEW v \in Values(fmt)
    PROVE  /\ Negated(v) \in Values(fmt) /\ Negated(v).is = v.is
           /\ Negated(v).neg = ~v.neg
           /\ IsNan(Negated(v)) <=> IsNan(v)
           /\ IsSnan(Negated(v)) <=> IsSnan(v)
           /\ v.is = "finite" => Eighths(Negated(v)) = -Eighths(v)
<1>1. v.neg \in BOOLEAN /\ (~v.neg) \in BOOLEAN
  BY ValueFields
<1>2. CASE v.is = "nan"
  <2>1. v = Nan(v.neg, v.payload) /\ v.payload \in {"default", "other", "signalling"}
    BY <1>2, ValueFields
  <2>2. Negated(v) = Nan(~v.neg, v.payload)
    BY <1>1, <2>1 DEF Negated, Nan
  <2>3. Negated(v).is = "nan" /\ Negated(v).neg = ~v.neg /\ Negated(v).payload = v.payload
    BY <2>2 DEF Nan
  <2>. QED
    BY <1>1, <1>2, <2>1, <2>2, <2>3, NanIsValue DEF IsNan, IsSnan
<1>3. CASE v.is = "inf"
  <2>1. v = Inf(v.neg)
    BY <1>3, ValueFields
  <2>2. Negated(v) = Inf(~v.neg)
    BY <1>1, <2>1 DEF Negated, Inf
  <2>3. Negated(v).is = "inf" /\ Negated(v).neg = ~v.neg
    BY <2>2 DEF Inf
  <2>. QED
    BY <1>1, <1>3, <2>1, <2>2, <2>3, InfIsValue DEF IsNan, IsSnan
<1>4. CASE v.is = "finite"
  <2>1. v = Finite(v.neg, v.mag) /\ v.mag \in Magnitudes(fmt) /\ v.mag \in Nat
    BY <1>4, ValueFields, MagnitudeBounds
  <2>2. Negated(v) = Finite(~v.neg, v.mag)
    BY <1>1, <2>1 DEF Negated, Finite
  <2>3. Negated(v).is = "finite" /\ Negated(v).neg = ~v.neg /\ Negated(v).mag = v.mag
    BY <2>2 DEF Finite
  <2>4. Eighths(Negated(v)) = -Eighths(v)
    <3>1. v.neg => Eighths(Negated(v)) = v.mag /\ Eighths(v) = -v.mag
      BY <2>3 DEF Eighths
    <3>2. ~v.neg => Eighths(Negated(v)) = -v.mag /\ Eighths(v) = v.mag
      BY <2>3 DEF Eighths
    <3>. QED
      BY <2>1, <3>1, <3>2
  <2>5. Negated(v) \in Values(fmt)
    BY <1>1, <2>1, <2>2, FiniteIsValue
  <2>. QED
    BY <1>4, <2>3, <2>4, <2>5 DEF IsNan, IsSnan
<1>. QED
  BY <1>2, <1>3, <1>4, ValueFields

\* What an operation on numbers yields: a NaN only as the host's, and as soon as an
\* operand is one; no rounding flag unless every operand is a number.
Yields(fmt, nan, operands, res) ==
    /\ res.val \in Values(fmt) /\ res.flags \in SUBSET Flags
    /\ IsNan(res.val) => res.val = nan
    /\ (\E v \in operands : IsNan(v)) => IsNan(res.val)

\* The fields of a result.
LEMMA ResultFields ==
    ASSUME NEW v, NEW flags
    PROVE  Result(v, flags).val = v /\ Result(v, flags).flags = flags
BY DEF Result

\* A NaN result is the host's NaN, with no flag but the invalid one.
LEMMA NanResultIs ==
    ASSUME NEW operands, NEW nan
    PROVE  /\ NanResult(operands, nan).val = nan
           /\ NanResult(operands, nan).flags \subseteq {"NV"}
BY DEF NanResult, Result

MulAddSum(a, b, c) == Eighths(a) * Eighths(b) + Eighths(c) * One
MulAddGives(fmt, mode, sum, res) ==
    /\ sum \in Int
    /\ sum = 0 => res.val.is = "finite" /\ Eighths(res.val) = 0 /\ res.flags = {}
    /\ sum # 0 => res = Rounded(sum < 0, IF sum < 0 THEN -sum ELSE sum, One, fmt, mode)

\* fma(), case by case: a NaN, an infinity, or the sum of finite numbers.
LEMMA MulAddIs ==
    ASSUME NEW fmt \in Formats, NEW mode \in Modes, NEW nan \in Values(fmt), IsNan(nan),
           NEW a \in Values(fmt), NEW b \in Values(fmt), NEW c \in Values(fmt)
    PROVE  /\ Yields(fmt, nan, {a, b, c}, MulAdd(a, b, c, fmt, mode, nan))
           /\ ~(a.is = "finite" /\ b.is = "finite" /\ c.is = "finite")
                => MulAdd(a, b, c, fmt, mode, nan).flags \subseteq {"NV"}
           /\ a.is = "finite" /\ b.is = "finite" /\ c.is = "finite"
                => MulAddGives(fmt, mode, MulAddSum(a, b, c), MulAdd(a, b, c, fmt, mode, nan))
<1> DEFINE res == MulAdd(a, b, c, fmt, mode, nan)
           sum == MulAddSum(a, b, c)
           product == a.neg # b.neg
           clash == \/ a.is = "inf" /\ IsZero(b)
                    \/ b.is = "inf" /\ IsZero(a)
                    \/ "inf" \in {a.is, b.is} /\ c.is = "inf" /\ product # c.neg
           zero == Finite(IF product = c.neg THEN c.neg ELSE mode = "RDN", 0)
           numbers == a.is = "finite" /\ b.is = "finite" /\ c.is = "finite"
<1>0. /\ product \in BOOLEAN /\ c.neg \in BOOLEAN
      /\ a.is \in {"nan", "inf", "finite"} /\ b.is \in {"nan", "inf", "finite"}
      /\ c.is \in {"nan", "inf", "finite"}
  BY ValueFields
<1>1. CASE \E v \in {a, b, c} : IsNan(v)
  <2>1. res = NanResult({a, b, c}, nan)
    BY <1>1 DEF MulAdd
  <2>2. ~numbers
    BY <1>1 DEF IsNan
  <2>3. "NV" \in Flags
    BY DEF Flags
  <2>. HIDE DEF res, numbers
  <2>4. res.val = nan /\ res.flags \subseteq {"NV"}
    BY <2>1, NanResultIs
  <2>5. Yields(fmt, nan, {a, b, c}, res)
    BY <2>3, <2>4 DEF Yields
  <2>. QED
    BY <2>2, <2>4, <2>5 DEF res, numbers
<1>2. CASE (\A v \in {a, b, c} : ~IsNan(v)) /\ clash
  <2>1. res = Result(nan, {"NV"})
    BY <1>2 DEF MulAdd
  <2>2. ~numbers
    BY <1>2
  <2>. HIDE DEF res, numbers
  <2>3. res.val = nan /\ res.flags = {"NV"}
    BY <2>1, ResultFields
  <2>4. Yields(fmt, nan, {a, b, c}, res)
    BY <1>2, <2>3 DEF Yields, Flags
  <2>. QED
    BY <2>2, <2>3, <2>4 DEF res, numbers
<1>3. CASE (\A v \in {a, b, c} : ~IsNan(v)) /\ ~clash /\ ("inf" \in {a.is, b.is} \/ c.is = "inf")
  <2>1. res = Result(Inf(product), {}) \/ res = Result(c, {})
    BY <1>3 DEF MulAdd
  <2>2. ~numbers
    BY <1>3
  <2>. HIDE DEF res, numbers, product, clash
  <2>3. res.val \in {Inf(product), c} /\ res.flags = {}
    BY <2>1, ResultFields
  <2>4. res.val \in Values(fmt) /\ ~IsNan(res.val)
    BY <1>0, <1>3, <2>3, InfIsValue
  <2>5. Yields(fmt, nan, {a, b, c}, res)
    BY <1>3, <2>3, <2>4 DEF Yields
  <2>. QED
    BY <2>2, <2>3, <2>5 DEF res, numbers
<1>4. CASE numbers
  <2>1. \A v \in {a, b, c} : ~IsNan(v)
    BY <1>4 DEF IsNan
  <2>2. ~clash /\ ~("inf" \in {a.is, b.is}) /\ c.is # "inf"
    BY <1>4
  <2>3. sum \in Int
    BY <1>4, NumberIs DEF MulAddSum, One
  <2>4. res = IF sum = 0 THEN Result(zero, {})
              ELSE Rounded(sum < 0, IF sum < 0 THEN -sum ELSE sum, One, fmt, mode)
    BY <2>1, <2>2 DEF MulAdd, MulAddSum
  <2>5. zero \in Values(fmt) /\ ~IsNan(zero) /\ zero.is = "finite" /\ Eighths(zero) = 0
    <3> DEFINE neg == IF product = c.neg THEN c.neg ELSE mode = "RDN"
    <3>1. neg \in BOOLEAN /\ 0 \in Magnitudes(fmt)
      BY <1>0, Zero DEF Formats
    <3>. HIDE DEF neg
    <3>2. Finite(neg, 0) \in Values(fmt)
      BY <3>1, FiniteIsValue
    <3>3. ~IsNan(Finite(neg, 0)) /\ Finite(neg, 0).is = "finite" /\ Finite(neg, 0).mag = 0
      BY <3>1, FiniteFields
    <3>4. Eighths(Finite(neg, 0)) = 0
      BY <3>3 DEF Eighths
    <3>. QED
      BY <3>2, <3>3, <3>4 DEF neg
  <2>. HIDE DEF res, sum, zero, product, clash
  <2>6. CASE sum = 0
    <3>1. res.val = zero /\ res.flags = {}
      BY <2>4, <2>6, ResultFields
    <3>2. Yields(fmt, nan, {a, b, c}, res)
      BY <2>1, <2>5, <3>1 DEF Yields
    <3>. QED
      BY <1>4, <2>3, <2>5, <2>6, <3>1, <3>2 DEF res, sum, MulAddGives
  <2>7. CASE sum # 0
    <3> DEFINE neg == sum < 0
               n == IF sum < 0 THEN -sum ELSE sum
    <3>1. res = Rounded(neg, n, One, fmt, mode)
      BY <2>4, <2>7
    <3>2. neg \in BOOLEAN /\ n \in Nat /\ One \in Nat \ {0}
      BY <2>3 DEF One
    <3>. HIDE DEF n, neg
    <3>3. res.val = Inf(neg) \/ \E m \in Magnitudes(fmt) : res.val = Finite(neg, m)
      <4>1. \/ Rounded(neg, n, One, fmt, mode).val = Inf(neg)
            \/ \E m \in Magnitudes(fmt) : Rounded(neg, n, One, fmt, mode).val = Finite(neg, m)
        BY <3>2, RoundedType, ZenonT(60)
      <4>. QED
        BY <3>1, <4>1
    <3>4. res.flags \subseteq {"OF", "UF", "NX"}
      BY <3>1, <3>2, RoundedType
    <3>5. res.val \in Values(fmt) /\ ~IsNan(res.val)
      BY <3>2, <3>3, InfIsValue, FiniteIsValue, FiniteFields
    <3>6. Yields(fmt, nan, {a, b, c}, res)
      BY <2>1, <3>4, <3>5 DEF Yields, Flags
    <3>. QED
      BY <1>4, <2>3, <2>7, <3>1, <3>6 DEF n, neg, res, sum, MulAddGives
  <2>. QED
    BY <2>6, <2>7
<1>. QED
  BY <1>0, <1>1, <1>2, <1>3, <1>4 DEF IsNan

\* The result of an instruction on numbers is rounded from the exact one, or zero is exact.
Rightly(i, mode, res) ==
    \/ \E neg \in BOOLEAN, n \in Nat, d \in Nat \ {0} :
          Exact(i, neg, n, d) /\ res = Rounded(neg, n, d, i.fmt, mode)
    \/ /\ \E d \in Nat \ {0} : Exact(i, FALSE, 0, d)
       /\ res.val.is = "finite" /\ Eighths(res.val) = 0 /\ res.flags = {}

\* The exact result of fma(), as a fraction of the denominator One.
LEMMA SumIsExact ==
    ASSUME NEW i, NEW sum \in Int,
           \/ \A m \in Int : Excess(i, m) = sum - m * 8
           \/ \E t \in Int : sum = 8 * t /\ \A m \in Int : Excess(i, m) = t - m
    PROVE  Exact(i, sum < 0, IF sum < 0 THEN -sum ELSE sum, One)
<1> DEFINE n == IF sum < 0 THEN -sum ELSE sum
           e == IF sum < 0 THEN -n ELSE n
<1>1. e = sum
  OBVIOUS
<1>2. ASSUME NEW m \in Int
      PROVE  /\ Excess(i, m) \in Int
             /\ Excess(i, m) > 0 <=> sum > One * m
             /\ Excess(i, m) < 0 <=> sum < One * m
  <2>1. CASE \A k \in Int : Excess(i, k) = sum - k * 8
    <3>1. Excess(i, m) = sum - m * 8
      BY <2>1
    <3>. QED
      BY <3>1 DEF One
  <2>2. CASE \E t \in Int : sum = 8 * t /\ \A k \in Int : Excess(i, k) = t - k
    <3>1. PICK t \in Int : sum = 8 * t /\ \A k \in Int : Excess(i, k) = t - k
      BY <2>2
    <3>2. Excess(i, m) = t - m
      BY <3>1
    <3>. QED
      BY <3>1, <3>2 DEF One
  <2>. QED
    BY <2>1, <2>2
<1> HIDE DEF e
<1>3. \A m \in Int : /\ Excess(i, m) \in Int
                     /\ Excess(i, m) > 0 <=> e > One * m
                     /\ Excess(i, m) < 0 <=> e < One * m
  BY <1>1, <1>2
<1>. QED
  BY <1>3 DEF Exact, e

\* fma() of finite numbers rounds their exact result.
LEMMA MulAddRounds ==
    ASSUME NEW i, i.fmt \in Formats, NEW mode \in Modes, NEW nan \in Values(i.fmt), IsNan(nan),
           NEW a \in Values(i.fmt), NEW b \in Values(i.fmt), NEW c \in Values(i.fmt),
           a.is = "finite", b.is = "finite", c.is = "finite",
           \/ \A m \in Int : Excess(i, m) = MulAddSum(a, b, c) - m * 8
           \/ \E t \in Int : MulAddSum(a, b, c) = 8 * t /\ \A m \in Int : Excess(i, m) = t - m
    PROVE  Rightly(i, mode, MulAdd(a, b, c, i.fmt, mode, nan))
<1> DEFINE fmt == i.fmt
           res == MulAdd(a, b, c, fmt, mode, nan)
           sum == MulAddSum(a, b, c)
           n == IF sum < 0 THEN -sum ELSE sum
           neg == sum < 0
<1>. fmt \in Formats
  OBVIOUS
<1> HIDE DEF fmt
<1>. MulAddGives(fmt, mode, sum, res)
  BY MulAddIs DEF fmt
<1>1. /\ sum \in Int
      /\ sum = 0 => /\ res.val.is = "finite" /\ Eighths(res.val) = 0 /\ res.flags = {}
      /\ sum # 0 => res = Rounded(neg, n, One, fmt, mode)
  BY DEF MulAddGives
<1>2. Exact(i, neg, n, One)
  BY <1>1, SumIsExact
<1>3. n \in Nat /\ neg \in BOOLEAN /\ One \in Nat \ {0}
  BY <1>1 DEF One
<1>4. CASE sum = 0
  <2>1. neg = FALSE /\ n = 0
    BY <1>4
  <2>. HIDE DEF res, n, neg
  <2>2. Exact(i, FALSE, 0, One)
    BY <1>2, <2>1
  <2>3. Rightly(i, mode, res)
    BY <1>1, <1>3, <1>4, <2>2 DEF Rightly
  <2>. QED
    BY <2>3 DEF res, fmt
<1>5. CASE sum # 0
  <2>. HIDE DEF res, n, neg, sum
  <2>1. res = Rounded(neg, n, One, i.fmt, mode)
    BY <1>1, <1>5 DEF fmt
  <2>2. Rightly(i, mode, res)
    BY <1>2, <1>3, <2>1 DEF Rightly
  <2>. QED
    BY <2>2 DEF res, fmt
<1>. QED
  BY <1>4, <1>5

\* Division, case by case: a NaN, an infinity, a zero, or the quotient of finite numbers.
LEMMA DivIs ==
    ASSUME NEW fmt \in Formats, NEW mode \in Modes, NEW nan \in Values(fmt), IsNan(nan),
           NEW a \in Values(fmt), NEW b \in Values(fmt)
    PROVE  /\ Yields(fmt, nan, {a, b}, Div(a, b, fmt, mode, nan))
           /\ ~(a.is = "finite" /\ b.is = "finite" /\ ~IsZero(b))
                => Div(a, b, fmt, mode, nan).flags \subseteq {"NV", "DZ"}
           /\ a.is = "finite" /\ b.is = "finite" /\ ~IsZero(b)
                => Div(a, b, fmt, mode, nan)
                     = Rounded(a.neg # b.neg, a.mag * One, b.mag, fmt, mode)
<1> DEFINE res == Div(a, b, fmt, mode, nan)
           neg == a.neg # b.neg
           clash == (IsZero(a) /\ IsZero(b)) \/ (a.is = "inf" /\ b.is = "inf")
           numbers == a.is = "finite" /\ b.is = "finite" /\ ~IsZero(b)
<1>0. /\ neg \in BOOLEAN /\ 0 \in Magnitudes(fmt)
      /\ a.is \in {"nan", "inf", "finite"} /\ b.is \in {"nan", "inf", "finite"}
  BY ValueFields, Zero DEF Formats
<1>1. CASE IsNan(a) \/ IsNan(b)
  <2>1. res = NanResult({a, b}, nan)
    BY <1>1 DEF Div
  <2>2. ~numbers
    BY <1>1 DEF IsNan
  <2>. HIDE DEF res, numbers
  <2>3. res.val = nan /\ res.flags \subseteq {"NV"}
    BY <2>1, NanResultIs
  <2>4. Yields(fmt, nan, {a, b}, res)
    BY <2>3 DEF Yields, Flags
  <2>. QED
    BY <2>2, <2>3, <2>4 DEF res, numbers
<1>2. CASE ~IsNan(a) /\ ~IsNan(b) /\ clash
  <2>1. res = Result(nan, {"NV"})
    BY <1>2 DEF Div
  <2>2. ~numbers
    BY <1>2 DEF IsZero
  <2>. HIDE DEF res, numbers
  <2>3. res.val = nan /\ res.flags = {"NV"}
    BY <2>1, ResultFields
  <2>4. Yields(fmt, nan, {a, b}, res)
    BY <1>2, <2>3 DEF Yields, Flags
  <2>. QED
    BY <2>2, <2>3, <2>4 DEF res, numbers
<1>3. CASE ~IsNan(a) /\ ~IsNan(b) /\ ~clash /\ ~numbers
  <2>1. \/ res = Result(Inf(neg), {}) \/ res = Result(Finite(neg, 0), {})
        \/ res = Result(Inf(neg), {"DZ"})
    BY <1>0, <1>3 DEF Div, IsNan
  <2>. HIDE DEF res, numbers, neg, clash
  <2>2. res.val \in {Inf(neg), Finite(neg, 0)} /\ res.flags \subseteq {"DZ"}
    BY <2>1, ResultFields
  <2>3. res.val \in Values(fmt) /\ ~IsNan(res.val)
    BY <1>0, <2>2, InfIsValue, FiniteIsValue, FiniteFields
  <2>4. Yields(fmt, nan, {a, b}, res)
    BY <1>3, <2>2, <2>3 DEF Yields, Flags
  <2>. QED
    BY <1>3, <2>2, <2>4 DEF res, numbers
<1>4. CASE numbers
  <2>1. ~IsNan(a) /\ ~IsNan(b) /\ ~clash /\ a.is # "inf" /\ b.is # "inf"
    BY <1>4 DEF IsNan
  <2>2. res = Rounded(neg, a.mag * One, b.mag, fmt, mode)
    BY <1>4, <2>1 DEF Div
  <2> DEFINE n == a.mag * One
             d == b.mag
  <2>3. n \in Nat /\ d \in Nat \ {0} /\ neg \in BOOLEAN
    BY <1>0, <1>4, NumberIs DEF One
  <2>. HIDE DEF n, d, res, neg, clash
  <2>4. \/ Rounded(neg, n, d, fmt, mode).val = Inf(neg)
        \/ \E m \in Magnitudes(fmt) : Rounded(neg, n, d, fmt, mode).val = Finite(neg, m)
    BY <2>3, RoundedType, ZenonT(60)
  <2>5. Rounded(neg, n, d, fmt, mode).flags \subseteq {"OF", "UF", "NX"}
    BY <2>3, RoundedType, Zenon
  <2>6. res = Rounded(neg, n, d, fmt, mode)
    BY <2>2 DEF n, d
  <2>7. res.val \in Values(fmt) /\ ~IsNan(res.val)
    BY <1>0, <2>4, <2>6, InfIsValue, FiniteIsValue, FiniteFields
  <2>8. Yields(fmt, nan, {a, b}, res)
    BY <2>1, <2>5, <2>6, <2>7 DEF Yields, Flags
  <2>. QED
    BY <1>4, <2>2, <2>8 DEF res, neg
<1>. QED
  BY <1>1, <1>2, <1>3, <1>4

\* The exact result of a division, as a fraction.
LEMMA DivIsExact ==
    ASSUME NEW i, NEW fmt \in Formats, NEW a \in Values(fmt), NEW b \in Values(fmt),
           a.is = "finite", b.is = "finite", ~IsZero(b),
           \A m \in Int : Excess(i, m) = (Eighths(a) * 8 - m * Eighths(b)) * Eighths(b)
    PROVE  Exact(i, a.neg # b.neg, a.mag * One, b.mag)
<1> DEFINE e8 == Eighths(a) * 8
           d == b.mag
           n == a.mag * One
           neg == a.neg # b.neg
           e == IF neg THEN -n ELSE n
<1>1. /\ e8 \in Int /\ d \in Nat \ {0} /\ n \in Nat /\ a.neg \in BOOLEAN /\ b.neg \in BOOLEAN
      /\ e8 = (IF a.neg THEN -n ELSE n) /\ Eighths(b) = (IF b.neg THEN -d ELSE d)
  BY NumberIs DEF One
<1>2. e \in Int /\ e = (IF b.neg THEN -e8 ELSE e8)
  BY <1>1
<1>3. ASSUME NEW m \in Int
      PROVE  /\ Excess(i, m) \in Int
             /\ Excess(i, m) > 0 <=> e > d * m
             /\ Excess(i, m) < 0 <=> e < d * m
  <2> DEFINE p == d * m
             y == e - p
  <2>1. p \in Int /\ y \in Int /\ (y > 0 <=> e > p) /\ (y < 0 <=> e < p)
    <3>1. p \in Int
      BY <1>1
    <3>. HIDE DEF p, e
    <3>. QED
      BY <1>2, <3>1
  <2>2. CASE ~b.neg
    <3>1. Excess(i, m) = (e8 - m * d) * d
      BY <1>1, <2>2
    <3>2. e8 - m * d = y
      BY <1>1, <1>2, <2>2
    <3>. HIDE DEF y, e8
    <3>3. Excess(i, m) = d * y
      BY <1>1, <2>1, <3>1, <3>2
    <3>. QED
      BY <1>1, <2>1, <3>3, ProductOrder, d * 0 = 0
  <2>3. CASE b.neg
    <3>1. Excess(i, m) = (e8 - m * (-d)) * (-d)
      BY <1>1, <2>3
    <3>2. e8 - m * (-d) = -y
      <4>1. m * (-d) = -p
        BY <1>1
      <4>. HIDE DEF e8, e, p, d, n, neg
      <4>2. e8 \in Int /\ e = -e8
        BY <1>1, <1>2, <2>3
      <4>. QED
        BY <2>1, <4>1, <4>2
    <3>. HIDE DEF y, e8
    <3>3. Excess(i, m) = d * y
      BY <1>1, <2>1, <3>1, <3>2
    <3>. QED
      BY <1>1, <2>1, <3>3, ProductOrder, d * 0 = 0
  <2>. QED
    BY <1>1, <2>2, <2>3
<1> HIDE DEF e, n, d, neg
<1>4. \A m \in Int : /\ Excess(i, m) \in Int
                     /\ Excess(i, m) > 0 <=> e > d * m
                     /\ Excess(i, m) < 0 <=> e < d * m
  BY <1>3
<1>5. Exact(i, neg, n, d)
  BY <1>4 DEF Exact, e
<1>. QED
  BY <1>5 DEF neg, n, d

\* Squaring is monotonic on the natural numbers.
LEMMA Squares ==
    ASSUME NEW s \in Nat, NEW t \in Nat, s <= t
    PROVE  /\ s * s \in Nat /\ t * t \in Nat /\ s * s <= t * t
           /\ s < t => s * s < t * t
<1>1. CASE s = 0
  BY <1>1
<1>2. CASE s # 0
  <2>1. s * s <= s * t /\ s * t \in Nat /\ (s < t => s * s < s * t)
    BY <1>2, ProductOrder
  <2>2. t * s <= t * t /\ t * t \in Nat
    BY <1>2, ProductOrder
  <2>3. t * s = s * t
    OBVIOUS
  <2>. QED
    BY <2>1, <2>2, <2>3
<1>. QED
  BY <1>1, <1>2

\* Every natural number has an integer root.
LEMMA RootExists ==
    ASSUME NEW n \in Nat
    PROVE  \E s \in 0..n : s * s <= n /\ n < (s + 1) * (s + 1)
<1> DEFINE S == {s \in Nat : n < (s + 1) * (s + 1)}
<1>1. n \in S
  BY n < (n + 1) * (n + 1)
<1>2. PICK s \in S : \A t \in S : s <= t
  BY <1>1, MinExists
<1>3. CASE s = 0
  BY <1>2, <1>3
<1>4. CASE s # 0
  <2>1. s - 1 \in Nat /\ s - 1 \notin S
    BY <1>2, <1>4
  <2>2. s * s <= n
    BY <2>1
  <2>3. s <= s * s
    BY <1>4, s \in Nat \ {0}, 1 <= s, ProductOrder
  <2>4. s \in 0..n
    BY <2>2, <2>3
  <2>. QED
    BY <1>2, <2>2, <2>4
<1>. QED
  BY <1>3, <1>4

\* A fraction of the denominator 4 that is on the same side of every number as the root.
LEMMA SqrtIsExact ==
    ASSUME NEW i, NEW n \in Nat, NEW root \in Nat, NEW rest \in {0, 1, 3},
           root * root <= n, n < (root + 1) * (root + 1), rest = 0 <=> root * root = n,
           \A m \in Int : Excess(i, m) = IF m < 0 THEN 1 ELSE n - m * m
    PROVE  Exact(i, FALSE, 4 * root + rest, 4)
<1>1. ASSUME NEW m \in Int
      PROVE  /\ Excess(i, m) \in Int
             /\ Excess(i, m) > 0 <=> 4 * root + rest > 4 * m
             /\ Excess(i, m) < 0 <=> 4 * root + rest < 4 * m
  <2>1. CASE m < 0
    BY <2>1
  <2>2. CASE m \in Nat
    <3>1. m * m \in Nat /\ root * root \in Nat /\ Excess(i, m) = n - m * m
      BY <2>2
    <3>2. m < root => m * m < root * root
      BY <2>2, Squares
    <3>3. m >= root + 1 => (root + 1) * (root + 1) <= m * m /\ (root + 1) * (root + 1) \in Nat
      BY <2>2, Squares
    <3> DEFINE q == root * root
               u == (root + 1) * (root + 1)
               p == m * m
    <3>4. /\ p \in Nat /\ q \in Nat /\ u \in Nat /\ Excess(i, m) = n - p /\ q <= n /\ n < u
          /\ m < root => p < q
          /\ m >= root + 1 => u <= p
          /\ m = root => p = q
          /\ rest = 0 <=> q = n
      BY <2>2, <3>1, <3>2, <3>3
    <3>. HIDE DEF p, q, u
    <3>5. CASE m < root
      BY <3>4, <3>5, <2>2
    <3>6. CASE m = root
      BY <3>4, <3>6, <2>2
    <3>7. CASE m > root
      BY <3>4, <3>7, <2>2
    <3>. QED
      BY <3>5, <3>6, <3>7
  <2>. QED
    BY <2>1, <2>2
<1>. QED
  BY <1>1 DEF Exact

\* res is the root of n, rounded: rest tells which side of the middle it is on.
RoundsRootOf(n, fmt, mode, res) ==
    \E root \in Nat, rest \in {0, 1, 3} :
       /\ root * root <= n /\ n < (root + 1) * (root + 1)
       /\ rest = 0 <=> root * root = n
       /\ res = Rounded(FALSE, 4 * root + rest, 4, fmt, mode)

\* The square root, case by case: a NaN, a zero, an infinity, or the root of a number.
LEMMA SqrtIs ==
    ASSUME NEW fmt \in Formats, NEW mode \in Modes, NEW nan \in Values(fmt), IsNan(nan),
           NEW a \in Values(fmt)
    PROVE  /\ Yields(fmt, nan, {a}, Sqrt(a, fmt, mode, nan))
           /\ ~(a.is = "finite" /\ Eighths(a) > 0) => Sqrt(a, fmt, mode, nan).flags \subseteq {"NV"}
           /\ a.is = "finite" /\ Eighths(a) > 0 =>
                RoundsRootOf(a.mag * One, fmt, mode, Sqrt(a, fmt, mode, nan))
<1> DEFINE res == Sqrt(a, fmt, mode, nan)
           positive == a.is = "finite" /\ Eighths(a) > 0
<1>0. a.neg \in BOOLEAN /\ a.is \in {"nan", "inf", "finite"}
  BY ValueFields
<1>1. CASE IsNan(a)
  <2>1. res = NanResult({a}, nan) /\ ~positive
    BY <1>1 DEF Sqrt, IsNan
  <2>. HIDE DEF res, positive
  <2>2. res.val = nan /\ res.flags \subseteq {"NV"}
    BY <2>1, NanResultIs
  <2>3. Yields(fmt, nan, {a}, res)
    BY <2>2 DEF Yields, Flags
  <2>. QED
    BY <2>1, <2>2, <2>3 DEF res, positive
<1>2. CASE ~IsNan(a) /\ ~positive
  <2>1. IsZero(a) \/ a.neg \/ a.is = "inf"
    <3>1. CASE a.is = "finite" /\ ~a.neg
      <4>1. Eighths(a) = a.mag /\ a.mag \in Nat /\ ~(Eighths(a) > 0)
        BY <1>2, <3>1, NumberIs
      <4>. QED
        BY <3>1, <4>1 DEF IsZero
    <3>. QED
      BY <1>0, <1>2, <3>1 DEF IsNan
  <2>2. res = Result(a, {}) \/ res = Result(nan, {"NV"})
    BY <1>2, <2>1 DEF Sqrt
  <2>. HIDE DEF res, positive
  <2>3. res.val \in {a, nan} /\ res.flags \subseteq {"NV"}
    BY <2>2, ResultFields
  <2>4. Yields(fmt, nan, {a}, res)
    BY <1>2, <2>3 DEF Yields, Flags
  <2>. QED
    BY <1>2, <2>3, <2>4 DEF res, positive
<1>3. CASE positive
  <2> DEFINE n == a.mag * One
             root == CHOOSE s \in 0..n : s * s <= n /\ n < (s + 1) * (s + 1)
             rest == IF root * root = n THEN 0
                     ELSE IF (2 * root + 1) * (2 * root + 1) > 4 * n THEN 1 ELSE 3
  <2>1. n \in Nat /\ ~IsNan(a) /\ ~IsZero(a) /\ ~a.neg /\ a.is # "inf"
    BY <1>3, NumberIs DEF One
  <2>2. res = Rounded(FALSE, 4 * root + rest, 4, fmt, mode)
    BY <2>1 DEF Sqrt
  <2>3. root \in 0..n /\ root * root <= n /\ n < (root + 1) * (root + 1)
    <3>. HIDE DEF n
    <3>1. \E s \in 0..n : s * s <= n /\ n < (s + 1) * (s + 1)
      BY <2>1, RootExists
    <3>. QED
      BY <3>1
  <2>. HIDE DEF n, root
  <2>4. root \in Nat /\ rest \in {0, 1, 3} /\ (rest = 0 <=> root * root = n)
    BY <2>1, <2>3
  <2>. HIDE DEF rest, res
  <2> DEFINE k == 4 * root + rest
  <2>5. k \in Nat /\ 4 \in Nat \ {0} /\ FALSE \in BOOLEAN
    BY <2>4
  <2>. HIDE DEF k
  <2>6. \/ Rounded(FALSE, k, 4, fmt, mode).val = Inf(FALSE)
        \/ \E m \in Magnitudes(fmt) : Rounded(FALSE, k, 4, fmt, mode).val = Finite(FALSE, m)
    BY <2>5, RoundedType, Zenon
  <2>7. Rounded(FALSE, k, 4, fmt, mode).flags \subseteq {"OF", "UF", "NX"}
    BY <2>5, RoundedType, Zenon
  <2>8. res = Rounded(FALSE, k, 4, fmt, mode)
    BY <2>2 DEF k
  <2>9. res.val \in Values(fmt) /\ ~IsNan(res.val)
    BY <2>5, <2>6, <2>8, InfIsValue, FiniteIsValue, FiniteFields, ZenonT(60)
  <2>10. Yields(fmt, nan, {a}, res)
    BY <2>1, <2>7, <2>8, <2>9 DEF Yields, Flags
  <2>11. \E r \in Nat, t \in {0, 1, 3} :
            /\ r * r <= n /\ n < (r + 1) * (r + 1)
            /\ t = 0 <=> r * r = n
            /\ res = Rounded(FALSE, 4 * r + t, 4, fmt, mode)
    BY <2>2, <2>3, <2>4
  <2>12. RoundsRootOf(n, fmt, mode, res)
    BY <2>11 DEF RoundsRootOf
  <2>. QED
    BY <1>3, <2>10, <2>12 DEF n, res
<1>. QED
  BY <1>1, <1>2, <1>3

-----------------------------------------------------------------------------
(* Registers and instructions                                              *)

\* The fields of a register.
LEMMA RegisterIs ==
    ASSUME NEW r \in Registers
    PROVE  /\ r.boxed \in BOOLEAN
           /\ r.boxed => r.single \in Values("S")
           /\ ~r.boxed => r.double \in Values("D")
<1>1. (\E v \in Values("S") : r = Boxed(v)) \/ (\E v \in Values("D") : r = Unboxed(v))
  BY DEF Registers
<1>2. ASSUME NEW v \in Values("S"), r = Boxed(v)
      PROVE  r.boxed = TRUE /\ r.single \in Values("S")
  BY <1>2 DEF Boxed
<1>3. ASSUME NEW v \in Values("D"), r = Unboxed(v)
      PROVE  r.boxed = FALSE /\ r.double \in Values("D")
  BY <1>3 DEF Unboxed
<1>. QED
  BY <1>1, <1>2, <1>3

\* A NaN is a value of either format, the canonical one among them.
LEMMA NanOfEither ==
    /\ Canonical \in Values("S") /\ Canonical \in Values("D") /\ IsNan(Canonical)
    /\ Nan(TRUE, "other") \in Values("S") /\ Nan(TRUE, "other") \in Values("D")
    /\ IsNan(Nan(TRUE, "other"))
    /\ \A nan \in HostNans : nan \in Values("S") /\ nan \in Values("D") /\ IsNan(nan)
<1>1. \A nan \in HostNans : nan \in Values("S") /\ IsNan(nan)
  BY FloatAssumption
<1>2. ASSUME NEW nan \in HostNans PROVE nan \in Values("D")
  <2>1. /\ nan = Nan(nan.neg, nan.payload) /\ nan.neg \in BOOLEAN
        /\ nan.payload \in {"default", "other", "signalling"}
    BY <1>1, ValueFields DEF IsNan
  <2>. QED
    BY <2>1, NanIsValue
<1>. QED
  BY <1>1, <1>2, NanIsValue DEF Canonical

\* rv_freg_read and rv_freg_read_f32: what is read is a value of the format.
LEMMA ReadIs ==
    ASSUME TypeOK, NEW n \in FRegs, NEW fmt \in Formats
    PROVE  /\ Read(n, fmt) \in Values(fmt)
           /\ fmt = "S" /\ ~fregs[n].boxed => Read(n, fmt) = Canonical
<1>1. fregs[n] \in Registers
  BY DEF TypeOK
<1>2. CASE fmt = "S"
  BY <1>1, <1>2, RegisterIs, NanOfEither DEF Read, ReadSingle
<1>3. CASE fmt = "D"
  BY <1>1, <1>3, RegisterIs, NanOfEither DEF Read, ReadDouble
<1>. QED
  BY <1>2, <1>3 DEF Formats

\* The fields of an instruction.
LEMMA InsnIs ==
    ASSUME NEW i \in Insns
    PROVE  /\ i.op = "CSR" => i.flags \subseteq Flags /\ i.frm \in 0..7
           /\ i.op # "CSR" => /\ i.op \in FloatOps /\ i.funct3 \in 0..7
                              /\ i.rd \in FRegs /\ i.rs1 \in FRegs /\ i.rs3 \in FRegs
                              /\ i.op \in TwoOperands => i.rs2 \in FRegs
                              /\ i.op \notin TwoOperands => i.rs2 \in Nat
<1>1. \/ i.op = "CSR" /\ i.flags \subseteq Flags /\ i.frm \in 0..7
      \/ /\ i.op \in FloatOps /\ i.funct3 \in 0..7
         /\ {i.rd, i.rs1, i.rs3} \subseteq FRegs
         /\ i.rs2 \in IF i.op \in TwoOperands THEN FRegs ELSE Nat
  BY FloatAssumption
<1>2. "CSR" \notin FloatOps
  BY DEF FloatOps, Arithmetic, FusedOps
<1>. QED
  BY <1>1, <1>2

\* Which operands make the result a number that is rounded, operation by operation.
LEMMA ComputableIs ==
    ASSUME NEW i
    PROVE  /\ i.op \in {"ADD", "SUB", "MUL"} =>
                (Computable(i) <=> /\ Read(i.rs1, i.fmt).is = "finite"
                                   /\ Read(i.rs2, i.fmt).is = "finite")
           /\ i.op = "DIV" =>
                (Computable(i) <=> /\ Read(i.rs1, i.fmt).is = "finite"
                                   /\ Read(i.rs2, i.fmt).is = "finite"
                                   /\ ~IsZero(Read(i.rs2, i.fmt)))
           /\ i.op = "SQRT" =>
                (Computable(i) <=> /\ Read(i.rs1, i.fmt).is = "finite"
                                   /\ Eighths(Read(i.rs1, i.fmt)) > 0)
           /\ i.op \in FusedOps =>
                (Computable(i) <=> /\ Read(i.rs1, i.fmt).is = "finite"
                                   /\ Read(i.rs2, i.fmt).is = "finite"
                                   /\ Read(i.rs3, i.fmt).is = "finite")
<1>1. i.op \in {"ADD", "SUB", "MUL", "DIV"} =>
        Operands(i) = {Read(i.rs1, i.fmt), Read(i.rs2, i.fmt)}
  <2>1. i.op \in {"ADD", "SUB", "MUL", "DIV"} =>
          Operands(i) = {Read(n, i.fmt) : n \in {i.rs1, i.rs2}}
    BY DEF Operands, FusedOps
  <2>. QED
    BY <2>1
<1>2. i.op = "SQRT" => Operands(i) = {Read(i.rs1, i.fmt)}
  <2>1. i.op = "SQRT" => Operands(i) = {Read(n, i.fmt) : n \in {i.rs1}}
    BY DEF Operands, FusedOps
  <2>. QED
    BY <2>1
<1>3. i.op \in FusedOps =>
        Operands(i) = {Read(i.rs1, i.fmt), Read(i.rs2, i.fmt), Read(i.rs3, i.fmt)}
  <2>1. i.op \in FusedOps => Operands(i) = {Read(n, i.fmt) : n \in {i.rs1, i.rs2, i.rs3}}
    BY DEF Operands, FusedOps
  <2>. QED
    BY <2>1
<1>4. i.op \in {"ADD", "SUB", "MUL"} \/ i.op \in FusedOps => i.op # "DIV" /\ i.op # "SQRT"
  BY DEF FusedOps
<1>5. i.op \in {"ADD", "SUB", "MUL"} =>
                (Computable(i) <=> /\ Read(i.rs1, i.fmt).is = "finite"
                                   /\ Read(i.rs2, i.fmt).is = "finite")
  BY <1>1, <1>4 DEF Computable
<1>6. i.op = "DIV" =>
                (Computable(i) <=> /\ Read(i.rs1, i.fmt).is = "finite"
                                   /\ Read(i.rs2, i.fmt).is = "finite"
                                   /\ ~IsZero(Read(i.rs2, i.fmt)))
  BY <1>1 DEF Computable
<1>7. i.op = "SQRT" =>
                (Computable(i) <=> /\ Read(i.rs1, i.fmt).is = "finite"
                                   /\ Eighths(Read(i.rs1, i.fmt)) > 0)
  BY <1>2 DEF Computable
<1>8. i.op \in FusedOps =>
                (Computable(i) <=> /\ Read(i.rs1, i.fmt).is = "finite"
                                   /\ Read(i.rs2, i.fmt).is = "finite"
                                   /\ Read(i.rs3, i.fmt).is = "finite")
  BY <1>3, <1>4 DEF Computable
<1>. QED
  BY <1>5, <1>6, <1>7, <1>8

\* What an arithmetic instruction computes, and how its exact result is bounded.
Fine(i, mode, nan, res) ==
    /\ res.val \in Values(i.fmt) /\ res.flags \in SUBSET Flags
    /\ IsNan(res.val) => res.val = nan
    /\ IsNan(Read(i.rs1, i.fmt)) => IsNan(res.val)
    /\ Computable(i) => Rightly(i, mode, res)
    /\ ~Computable(i) => res.flags \subseteq {"NV", "DZ"}

\* One and zero are numbers of both formats.
LEMMA OneAndZero ==
    ASSUME NEW fmt \in Formats, NEW neg \in BOOLEAN
    PROVE  /\ Finite(FALSE, One) \in Values(fmt) /\ Finite(FALSE, One).is = "finite"
           /\ Eighths(Finite(FALSE, One)) = 8
           /\ Finite(neg, 0) \in Values(fmt) /\ Finite(neg, 0).is = "finite"
           /\ Eighths(Finite(neg, 0)) = 0
           /\ ~IsNan(Finite(FALSE, One)) /\ ~IsNan(Finite(neg, 0))
<1>1. One \in Magnitudes(fmt) /\ 0 \in Magnitudes(fmt)
  BY Zero DEF Formats, Magnitudes, Largest, Spacing, One
<1>2. /\ Finite(FALSE, One).neg = FALSE /\ Finite(FALSE, One).mag = 8
      /\ Finite(FALSE, One).is = "finite" /\ ~IsNan(Finite(FALSE, One))
  BY FiniteFields DEF One
<1>3. /\ Finite(neg, 0).neg = neg /\ Finite(neg, 0).mag = 0 /\ Finite(neg, 0).is = "finite"
      /\ ~IsNan(Finite(neg, 0))
  BY FiniteFields
<1>4. Finite(FALSE, One) \in Values(fmt) /\ Finite(neg, 0) \in Values(fmt)
  BY <1>1, FiniteIsValue
<1>5. Eighths(Finite(FALSE, One)) = 8
  BY <1>2 DEF Eighths
<1>6. Eighths(Finite(neg, 0)) = 0
  BY <1>3 DEF Eighths
<1>. QED
  BY <1>2, <1>3, <1>4, <1>5, <1>6

\* rv_float_add and rv_float_sub: the second operand, or its negation, is added.
LEMMA AddIsFine ==
    ASSUME TypeOK, NEW i \in Insns, i.op \in {"ADD", "SUB"}, i.fmt \in Formats,
           NEW mode \in Modes, NEW nan \in HostNans
    PROVE  Fine(i, mode, nan, Computed(i, mode, nan))
<1> DEFINE a == Read(i.rs1, i.fmt)
           b == Read(i.rs2, i.fmt)
           c == IF i.op = "ADD" THEN b ELSE Negated(b)
           one == Finite(FALSE, One)
           res == Computed(i, mode, nan)
<1>1. i.rs1 \in FRegs /\ i.rs2 \in FRegs
  BY InsnIs DEF TwoOperands, Arithmetic
<1>2. a \in Values(i.fmt) /\ b \in Values(i.fmt)
  BY <1>1, ReadIs
<1>3. nan \in Values(i.fmt) /\ IsNan(nan)
  BY NanOfEither DEF Formats
<1>4. one \in Values(i.fmt) /\ one.is = "finite" /\ Eighths(one) = 8 /\ ~IsNan(one)
  BY OneAndZero
<1>5. res = MulAdd(one, a, c, i.fmt, mode, nan)
  BY DEF Computed, Add
<1>6. Computable(i) <=> a.is = "finite" /\ b.is = "finite"
  BY ComputableIs
<1>7. \A m : Excess(i, m) = IF i.op = "ADD" THEN Eighths(a) + Eighths(b) - m
                                             ELSE Eighths(a) - Eighths(b) - m
  BY DEF Excess
<1>. HIDE DEF a, b, one, res
<1>8. c \in Values(i.fmt) /\ c.is = b.is
  BY <1>2, NegatedIs
<1>9. b.is = "finite" => Eighths(c) = IF i.op = "ADD" THEN Eighths(b) ELSE -Eighths(b)
  BY <1>2, NegatedIs
<1>10. /\ Yields(i.fmt, nan, {one, a, c}, res)
       /\ ~(one.is = "finite" /\ a.is = "finite" /\ c.is = "finite")
            => res.flags \subseteq {"NV"}
  BY <1>2, <1>3, <1>4, <1>5, <1>8, MulAddIs
<1>11. ASSUME Computable(i) PROVE Rightly(i, mode, res)
  <2>1. a.is = "finite" /\ c.is = "finite" /\ Eighths(a) \in Int /\ Eighths(b) \in Int
    BY <1>2, <1>6, <1>8, <1>11, NumberIs
  <2> DEFINE t == Eighths(a) + Eighths(c)
  <2>2. t \in Int /\ MulAddSum(one, a, c) = 8 * t
    BY <1>4, <1>6, <1>9, <1>11, <2>1 DEF MulAddSum, One
  <2>3. \A m \in Int : Excess(i, m) = t - m
    BY <1>6, <1>7, <1>9, <1>11, <2>1
  <2>. HIDE DEF t, c
  <2>. QED
    BY <1>2, <1>3, <1>4, <1>5, <1>8, <2>1, <2>2, <2>3, MulAddRounds
<1>. HIDE DEF c
<1>12. Fine(i, mode, nan, res)
  BY <1>4, <1>6, <1>8, <1>10, <1>11 DEF Fine, Yields, a
<1>. QED
  BY <1>12 DEF res

\* rv_float_mul: the product, to which a zero of its sign is added.
LEMMA MulIsFine ==
    ASSUME TypeOK, NEW i \in Insns, i.op = "MUL", i.fmt \in Formats,
           NEW mode \in Modes, NEW nan \in HostNans
    PROVE  Fine(i, mode, nan, Computed(i, mode, nan))
<1> DEFINE a == Read(i.rs1, i.fmt)
           b == Read(i.rs2, i.fmt)
           neg == a.neg # b.neg
           c == Finite(neg, 0)
           res == Computed(i, mode, nan)
<1>1. i.rs1 \in FRegs /\ i.rs2 \in FRegs
  BY InsnIs DEF TwoOperands, Arithmetic
<1>2. a \in Values(i.fmt) /\ b \in Values(i.fmt)
  BY <1>1, ReadIs
<1>3. nan \in Values(i.fmt) /\ IsNan(nan)
  BY NanOfEither DEF Formats
<1>4. c \in Values(i.fmt) /\ c.is = "finite" /\ Eighths(c) = 0 /\ ~IsNan(c)
  <2>1. neg \in BOOLEAN
    OBVIOUS
  <2>. HIDE DEF neg
  <2>. QED
    BY <2>1, OneAndZero
<1>5. res = MulAdd(a, b, c, i.fmt, mode, nan)
  BY DEF Computed, Mul
<1>6. Computable(i) <=> a.is = "finite" /\ b.is = "finite"
  BY ComputableIs
<1>7. \A m : Excess(i, m) = Eighths(a) * Eighths(b) - m * One
  BY DEF Excess
<1>. HIDE DEF a, b, c, res
<1>8. /\ Yields(i.fmt, nan, {a, b, c}, res)
      /\ ~(a.is = "finite" /\ b.is = "finite" /\ c.is = "finite")
            => res.flags \subseteq {"NV"}
  BY <1>2, <1>3, <1>4, <1>5, MulAddIs
<1>9. ASSUME Computable(i) PROVE Rightly(i, mode, res)
  <2> DEFINE p == Eighths(a) * Eighths(b)
  <2>1. a.is = "finite" /\ b.is = "finite" /\ p \in Int
    BY <1>2, <1>6, <1>9, NumberIs
  <2>2. \A m : Excess(i, m) = p - m * 8
    BY <1>7 DEF One
  <2>3. MulAddSum(a, b, c) = p + 0 * 8
    BY <1>4 DEF MulAddSum, One
  <2>. HIDE DEF p
  <2>4. \A m \in Int : Excess(i, m) = MulAddSum(a, b, c) - m * 8
    BY <2>1, <2>2, <2>3
  <2>. QED
    BY <1>2, <1>3, <1>4, <1>5, <2>1, <2>4, MulAddRounds
<1>10. Fine(i, mode, nan, res)
  BY <1>4, <1>6, <1>8, <1>9 DEF Fine, Yields, a
<1>. QED
  BY <1>10 DEF res

\* rv_float_div
LEMMA DivIsFine ==
    ASSUME TypeOK, NEW i \in Insns, i.op = "DIV", i.fmt \in Formats,
           NEW mode \in Modes, NEW nan \in HostNans
    PROVE  Fine(i, mode, nan, Computed(i, mode, nan))
<1> DEFINE a == Read(i.rs1, i.fmt)
           b == Read(i.rs2, i.fmt)
           neg == a.neg # b.neg
           n == a.mag * One
           d == b.mag
           res == Computed(i, mode, nan)
<1>1. i.rs1 \in FRegs /\ i.rs2 \in FRegs
  BY InsnIs DEF TwoOperands, Arithmetic
<1>2. a \in Values(i.fmt) /\ b \in Values(i.fmt)
  BY <1>1, ReadIs
<1>3. nan \in Values(i.fmt) /\ IsNan(nan)
  BY NanOfEither DEF Formats
<1>4. res = Div(a, b, i.fmt, mode, nan)
  BY DEF Computed
<1>5. Computable(i) <=> a.is = "finite" /\ b.is = "finite" /\ ~IsZero(b)
  BY ComputableIs
<1>6. \A m : Excess(i, m) = (Eighths(a) * 8 - m * Eighths(b)) * Eighths(b)
  BY DEF Excess, One
<1>7. neg \in BOOLEAN
  OBVIOUS
<1>. HIDE DEF a, b, res
<1>8. /\ Yields(i.fmt, nan, {a, b}, res)
      /\ ~(a.is = "finite" /\ b.is = "finite" /\ ~IsZero(b)) => res.flags \subseteq {"NV", "DZ"}
      /\ a.is = "finite" /\ b.is = "finite" /\ ~IsZero(b) => res = Rounded(neg, n, d, i.fmt, mode)
  BY <1>2, <1>3, <1>4, DivIs
<1>9. ASSUME Computable(i) PROVE Rightly(i, mode, res)
  <2>1. Exact(i, neg, n, d)
    BY <1>2, <1>5, <1>6, <1>9, DivIsExact
  <2>2. n \in Nat /\ d \in Nat \ {0}
    BY <1>2, <1>5, <1>9, NumberIs DEF One
  <2>3. res = Rounded(neg, n, d, i.fmt, mode)
    BY <1>5, <1>8, <1>9
  <2>. HIDE DEF neg, n, d
  <2>. QED
    BY <1>7, <2>1, <2>2, <2>3 DEF Rightly
<1>10. Fine(i, mode, nan, res)
  BY <1>5, <1>8, <1>9 DEF Fine, Yields, a
<1>. QED
  BY <1>10 DEF res

\* rv_float_sqrt
LEMMA SqrtIsFine ==
    ASSUME TypeOK, NEW i \in Insns, i.op = "SQRT", i.fmt \in Formats,
           NEW mode \in Modes, NEW nan \in HostNans
    PROVE  Fine(i, mode, nan, Computed(i, mode, nan))
<1> DEFINE a == Read(i.rs1, i.fmt)
           n == a.mag * One
           res == Computed(i, mode, nan)
<1>1. i.rs1 \in FRegs
  BY InsnIs
<1>2. a \in Values(i.fmt)
  BY <1>1, ReadIs
<1>3. nan \in Values(i.fmt) /\ IsNan(nan)
  BY NanOfEither DEF Formats
<1>4. res = Sqrt(a, i.fmt, mode, nan)
  BY DEF Computed
<1>5. Computable(i) <=> a.is = "finite" /\ Eighths(a) > 0
  BY ComputableIs
<1>6. \A m : Excess(i, m) = IF m < 0 THEN 1 ELSE Eighths(a) * One - m * m
  BY DEF Excess
<1>. HIDE DEF a, res
<1>7. /\ Yields(i.fmt, nan, {a}, res)
      /\ ~(a.is = "finite" /\ Eighths(a) > 0) => res.flags \subseteq {"NV"}
      /\ a.is = "finite" /\ Eighths(a) > 0 => RoundsRootOf(n, i.fmt, mode, res)
  BY <1>2, <1>3, <1>4, SqrtIs
<1>8. ASSUME Computable(i) PROVE Rightly(i, mode, res)
  <2>1. PICK root \in Nat, rest \in {0, 1, 3} :
              /\ root * root <= n /\ n < (root + 1) * (root + 1)
              /\ rest = 0 <=> root * root = n
              /\ res = Rounded(FALSE, 4 * root + rest, 4, i.fmt, mode)
    BY <1>5, <1>7, <1>8 DEF RoundsRootOf
  <2>2. n \in Nat /\ Eighths(a) * One = n
    <3>1. a.mag \in Nat /\ Eighths(a) = a.mag
      BY <1>2, <1>5, <1>8, NumberIs
    <3>. QED
      BY <3>1 DEF One
  <2>. HIDE DEF n
  <2>3. \A m \in Int : Excess(i, m) = IF m < 0 THEN 1 ELSE n - m * m
    BY <1>6, <2>2
  <2>4. Exact(i, FALSE, 4 * root + rest, 4)
    BY <2>1, <2>2, <2>3, SqrtIsExact
  <2> DEFINE k == 4 * root + rest
  <2>5. k \in Nat /\ 4 \in Nat \ {0} /\ FALSE \in BOOLEAN
    OBVIOUS
  <2>. HIDE DEF k
  <2>6. Exact(i, FALSE, k, 4) /\ res = Rounded(FALSE, k, 4, i.fmt, mode)
    BY <2>1, <2>4 DEF k
  <2>. QED
    BY <2>5, <2>6 DEF Rightly
<1>9. Fine(i, mode, nan, res)
  BY <1>5, <1>7, <1>8 DEF Fine, Yields, a
<1>. QED
  BY <1>9 DEF res

\* What an operation yields is a value and its flags.
LEMMA MulAddIsResult ==
    ASSUME NEW fmt, NEW mode, NEW nan, NEW a, NEW b, NEW c
    PROVE  LET res == MulAdd(a, b, c, fmt, mode, nan) IN res = Result(res.val, res.flags)
<1>1. \A v, flags : Result(v, flags) = Result(Result(v, flags).val, Result(v, flags).flags)
  BY ResultFields
<1>2. \E v, flags : MulAdd(a, b, c, fmt, mode, nan) = Result(v, flags)
  BY DEF MulAdd, NanResult, Rounded
<1>. QED
  BY <1>1, <1>2

\* A negated operand is a value of the same format and kind.
LEMMA FlippedIs ==
    ASSUME NEW fmt \in Formats, NEW v \in Values(fmt), NEW flip \in BOOLEAN
    PROVE  /\ FlippedIf(v, flip) \in Values(fmt) /\ FlippedIf(v, flip).is = v.is
           /\ IsNan(FlippedIf(v, flip)) <=> IsNan(v)
           /\ v.is = "finite" => Eighths(FlippedIf(v, flip))
                                   = IF flip THEN -Eighths(v) ELSE Eighths(v)
BY NegatedIs DEF FlippedIf

\* What rv_float_fmadd leaves: NV is set for an infinity times a zero whatever the host says.
GuestFused(i, mode, nan) ==
    [Fused(i, mode, nan) EXCEPT !.flags = @ \cup IF Invalid(i) THEN {"NV"} ELSE {}]

\* rv_float_fmadd: the product, the addend or both are negated, and the sum is rounded once.
LEMMA FusedIsFine ==
    ASSUME TypeOK, NEW i \in Insns, i.op \in FusedOps, i.fmt \in Formats,
           NEW mode \in Modes, NEW nan \in HostNans
    PROVE  Fine(i, mode, nan, GuestFused(i, mode, nan))
<1> DEFINE a == Read(i.rs1, i.fmt)
           b == Read(i.rs2, i.fmt)
           c == Read(i.rs3, i.fmt)
           flipA == i.op \in {"NMSUB", "NMADD"}
           flipC == i.op \in {"MSUB", "NMADD"}
           fa == FlippedIf(a, flipA)
           fc == FlippedIf(c, flipC)
           sum == MulAdd(fa, b, fc, i.fmt, mode, nan)
           invalid == \/ a.is = "inf" /\ IsZero(b)
                      \/ b.is = "inf" /\ IsZero(a)
           res == GuestFused(i, mode, nan)
<1>1. i.rs1 \in FRegs /\ i.rs2 \in FRegs /\ i.rs3 \in FRegs
  BY InsnIs DEF TwoOperands, FusedOps
<1>2. a \in Values(i.fmt) /\ b \in Values(i.fmt) /\ c \in Values(i.fmt)
  BY <1>1, ReadIs
<1>3. nan \in Values(i.fmt) /\ IsNan(nan)
  BY NanOfEither DEF Formats
<1>4. res = [sum EXCEPT !.flags = @ \cup IF invalid THEN {"NV"} ELSE {}]
  BY DEF GuestFused, Fused, Invalid
<1>5. Computable(i) <=> a.is = "finite" /\ b.is = "finite" /\ c.is = "finite"
  BY ComputableIs
<1>6. /\ i.op = "MADD" => \A m : Excess(i, m)
                            = Eighths(a) * Eighths(b) + (Eighths(c) - m) * One
      /\ i.op = "MSUB" => \A m : Excess(i, m)
                            = Eighths(a) * Eighths(b) - (Eighths(c) + m) * One
      /\ i.op = "NMSUB" => \A m : Excess(i, m)
                            = (Eighths(c) - m) * One - Eighths(a) * Eighths(b)
      /\ i.op = "NMADD" => \A m : Excess(i, m)
                            = -(Eighths(a) * Eighths(b)) - (Eighths(c) + m) * One
  BY DEF Excess
<1>7. invalid => ~(a.is = "finite" /\ b.is = "finite")
  OBVIOUS
<1>. HIDE DEF a, b, c, res, invalid
<1>8. sum = Result(sum.val, sum.flags)
  BY MulAddIsResult
<1>. flipA \in BOOLEAN /\ flipC \in BOOLEAN
  OBVIOUS
<1>. HIDE DEF flipA, flipC
<1>9. /\ fa \in Values(i.fmt) /\ fa.is = a.is /\ (IsNan(fa) <=> IsNan(a))
      /\ fc \in Values(i.fmt) /\ fc.is = c.is
  BY <1>2, FlippedIs
<1>10. /\ a.is = "finite" => Eighths(fa) = IF flipA THEN -Eighths(a) ELSE Eighths(a)
       /\ c.is = "finite" => Eighths(fc) = IF flipC THEN -Eighths(c) ELSE Eighths(c)
  BY <1>2, FlippedIs
<1>. HIDE DEF fa, fc
<1>11. /\ Yields(i.fmt, nan, {fa, b, fc}, sum)
       /\ ~(fa.is = "finite" /\ b.is = "finite" /\ fc.is = "finite")
            => sum.flags \subseteq {"NV"}
  BY <1>2, <1>3, <1>9, MulAddIs
<1>12. ASSUME Computable(i) PROVE Rightly(i, mode, sum)
  <2> DEFINE p == Eighths(a) * Eighths(b)
  <2>1. /\ a.is = "finite" /\ b.is = "finite" /\ c.is = "finite"
        /\ Eighths(a) \in Int /\ Eighths(b) \in Int /\ Eighths(c) \in Int
    BY <1>2, <1>5, <1>12, NumberIs
  <2>2. p \in Int /\ (-Eighths(a)) * Eighths(b) = -p
    BY <2>1
  <2>3. MulAddSum(fa, b, fc)
          = (IF flipA THEN -p ELSE p) + (IF flipC THEN -Eighths(c) ELSE Eighths(c)) * 8
    <3>1. Eighths(fa) * Eighths(b) = IF flipA THEN -p ELSE p
      BY <1>10, <2>1, <2>2
    <3>2. Eighths(fc) = IF flipC THEN -Eighths(c) ELSE Eighths(c)
      BY <1>10, <2>1
    <3>. QED
      BY <3>1, <3>2 DEF MulAddSum, One
  <2>4. /\ i.op = "MADD" => \A m : Excess(i, m) = p + (Eighths(c) - m) * 8
        /\ i.op = "MSUB" => \A m : Excess(i, m) = p - (Eighths(c) + m) * 8
        /\ i.op = "NMSUB" => \A m : Excess(i, m) = (Eighths(c) - m) * 8 - p
        /\ i.op = "NMADD" => \A m : Excess(i, m) = -p - (Eighths(c) + m) * 8
    BY <1>6 DEF One
  <2>. HIDE DEF p
  <2>5. ASSUME NEW m \in Int PROVE Excess(i, m) = MulAddSum(fa, b, fc) - m * 8
    <3>1. CASE i.op = "MADD"
      <4>1. MulAddSum(fa, b, fc) = p + Eighths(c) * 8
        BY <2>3, <3>1 DEF flipA, flipC
      <4>2. Excess(i, m) = p + (Eighths(c) - m) * 8
        BY <2>4, <3>1
      <4>. QED
        BY <2>1, <2>2, <4>1, <4>2
    <3>2. CASE i.op = "MSUB"
      <4>1. MulAddSum(fa, b, fc) = p + (-Eighths(c)) * 8
        BY <2>3, <3>2 DEF flipA, flipC
      <4>2. Excess(i, m) = p - (Eighths(c) + m) * 8
        BY <2>4, <3>2
      <4>. QED
        BY <2>1, <2>2, <4>1, <4>2
    <3>3. CASE i.op = "NMSUB"
      <4>1. MulAddSum(fa, b, fc) = (-p) + Eighths(c) * 8
        BY <2>3, <3>3 DEF flipA, flipC
      <4>2. Excess(i, m) = (Eighths(c) - m) * 8 - p
        BY <2>4, <3>3
      <4>. QED
        BY <2>1, <2>2, <4>1, <4>2
    <3>4. CASE i.op = "NMADD"
      <4>1. MulAddSum(fa, b, fc) = (-p) + (-Eighths(c)) * 8
        BY <2>3, <3>4 DEF flipA, flipC
      <4>2. Excess(i, m) = (-p) - (Eighths(c) + m) * 8
        BY <2>4, <3>4
      <4>. QED
        BY <2>1, <2>2, <4>1, <4>2
    <3>. QED
      BY <3>1, <3>2, <3>3, <3>4 DEF FusedOps
  <2>. QED
    BY <1>2, <1>3, <1>9, <2>1, <2>5, MulAddRounds
<1>. HIDE DEF sum
<1>13. res.val = sum.val /\ res.flags = sum.flags \cup IF invalid THEN {"NV"} ELSE {}
  BY <1>4, <1>8 DEF Result
<1>14. Computable(i) => res = sum
  <2>1. Computable(i) => ~invalid
    BY <1>5, <1>7
  <2>2. ~invalid => res = sum
    BY <1>4, <1>8 DEF Result
  <2>. QED
    BY <2>1, <2>2
<1>15. Fine(i, mode, nan, res)
  <2>1. res.val \in Values(i.fmt) /\ (IsNan(res.val) => res.val = nan)
        /\ (IsNan(a) => IsNan(res.val))
    BY <1>9, <1>11, <1>13 DEF Yields
  <2>2. res.flags \in SUBSET Flags
    BY <1>11, <1>13 DEF Yields, Flags
  <2>3. ~Computable(i) => res.flags \subseteq {"NV", "DZ"}
    BY <1>5, <1>9, <1>11, <1>13
  <2>4. Computable(i) => Rightly(i, mode, res)
    BY <1>12, <1>14
  <2>. QED
    BY <2>1, <2>2, <2>3, <2>4 DEF Fine, a
<1>. QED
  BY <1>15 DEF res

-----------------------------------------------------------------------------
(* Steps                                                                   *)

\* Which action an executed instruction is.
Carries(i) ==
    \/ i.op = "EQ_LE_LT" /\ Compare(i)
    \/ i.op = "SGNJ" /\ InjectSign(i)
    \/ i.op = "MIN_MAX" /\ MinMax(i)
    \/ i.op \in Arithmetic /\ Compute(i)
    \/ i.op = "FCVT_FTOF" /\ FToF(i)
    \/ i.op = "FCVT_XTOF" /\ XToF(i)
    \/ i.op = "FCVT_FTOX" /\ FToX(i)
    \/ i.op = "MVXF_CLASS" /\ i.funct3 = 1 /\ Classify(i)
    \/ i.op = "MVXF_CLASS" /\ i.funct3 # 1 /\ MoveOut(i)
    \/ i.op = "MVFX" /\ MoveIn(i)
    \/ i.op \in FusedOps /\ Fmadd(i)
    \/ i.op = "CSR" /\ WriteFcsr(i)

\* A step is an instruction that is refused, undefined or carried out.
LEMMA StepIs ==
    ASSUME NEW i \in Insns,
           \/ Refuse(i) \/ Compare(i) \/ InjectSign(i) \/ MinMax(i)
           \/ Compute(i) \/ FToF(i) \/ XToF(i) \/ FToX(i)
           \/ Classify(i) \/ MoveOut(i) \/ MoveIn(i) \/ Undefined(i)
           \/ Fmadd(i) \/ WriteFcsr(i)
    PROVE  /\ insn' = i /\ left > 0 /\ left' = left - 1 /\ fs' = fs
           /\ Refuse(i) \/ Undefined(i) \/ Carries(i)
           /\ i.op # "CSR" => frm' = frm
           /\ Carries(i) /\ i.op # "CSR" => Allowed(i)
<1>1. CASE Refuse(i)
  <2>1. "CSR" \notin FloatOps
    BY DEF FloatOps, Arithmetic, FusedOps
  <2>2. ~Allowed(i) /\ insn' = i /\ left > 0 /\ left' = left - 1 /\ fs' = fs /\ frm' = frm
    BY <1>1 DEF Refuse, Begin
  <2>3. Carries(i) /\ i.op # "CSR" => Allowed(i)
    BY DEF Carries, Compare, InjectSign, MinMax, Compute, FToF, XToF, FToX, Classify,
           MoveOut, MoveIn, Fmadd, Rounding, Execute
  <2>. QED
    BY <1>1, <2>2, <2>3
<1>2. CASE Compare(i)
  BY <1>2 DEF Compare, Execute, Begin, Carries
<1>3. CASE InjectSign(i)
  BY <1>3 DEF InjectSign, Execute, Begin, Carries
<1>4. CASE MinMax(i)
  BY <1>4 DEF MinMax, Execute, Begin, Carries
<1>5. CASE Compute(i)
  BY <1>5 DEF Compute, Rounding, Execute, Begin, Carries
<1>6. CASE FToF(i)
  BY <1>6 DEF FToF, Rounding, Execute, Begin, Carries
<1>7. CASE XToF(i)
  BY <1>7 DEF XToF, Rounding, Execute, Begin, Carries
<1>8. CASE FToX(i)
  BY <1>8 DEF FToX, Rounding, Execute, Begin, Carries
<1>9. CASE Classify(i)
  BY <1>9 DEF Classify, Rounding, Execute, Begin, Carries
<1>10. CASE MoveOut(i)
  BY <1>10 DEF MoveOut, Rounding, Execute, Begin, Carries
<1>11. CASE MoveIn(i)
  BY <1>11 DEF MoveIn, Rounding, Execute, Begin, Carries
<1>12. CASE Undefined(i)
  BY <1>12 DEF Undefined, Rounding, Execute, Begin
<1>13. CASE Fmadd(i)
  BY <1>13 DEF Fmadd, Rounding, Execute, Begin, Carries
<1>14. CASE WriteFcsr(i)
  <2>1. i.op = "CSR" /\ insn' = i /\ left > 0 /\ left' = left - 1 /\ fs' = fs
    BY <1>14 DEF WriteFcsr, Begin
  <2>. QED
    BY <1>14, <2>1 DEF Carries
<1>. QED
  BY <1>1, <1>2, <1>3, <1>4, <1>5, <1>6, <1>7, <1>8, <1>9, <1>10, <1>11, <1>12, <1>13, <1>14

\* An instruction that is done is one of the ones that are carried out.
LEMMA ExecutedIs ==
    ASSUME TypeOK, [Next]_vars, NEW ops, Executes(ops)
    PROVE  /\ insn' \in Insns /\ insn'.op \in ops /\ Carries(insn')
           /\ insn'.op # "CSR" => frm' = frm /\ fs /\ insn'.fmt \in Formats
<1>1. left \in Nat /\ left' < left /\ outcome' = "done" /\ insn'.op \in ops
  BY DEF Executes, TypeOK
<1>2. Next
  BY <1>1 DEF vars
<1>3. PICK i \in Insns :
           \/ Refuse(i) \/ Compare(i) \/ InjectSign(i) \/ MinMax(i)
           \/ Compute(i) \/ FToF(i) \/ XToF(i) \/ FToX(i)
           \/ Classify(i) \/ MoveOut(i) \/ MoveIn(i) \/ Undefined(i)
           \/ Fmadd(i) \/ WriteFcsr(i)
  BY <1>2 DEF Next
<1>4. /\ insn' = i
      /\ Refuse(i) \/ Undefined(i) \/ Carries(i)
      /\ i.op # "CSR" => frm' = frm
      /\ Carries(i) /\ i.op # "CSR" => Allowed(i)
  BY <1>3, StepIs
<1>5. ~Refuse(i) /\ ~Undefined(i)
  BY <1>1 DEF Refuse, Undefined, Illegal
<1>. QED
  BY <1>1, <1>4, <1>5 DEF Allowed

\* What an instruction writes to a register is what is read back.
LEMMA WrittenIs ==
    ASSUME fregs \in [FRegs -> Registers], NEW i \in Insns, i = insn', i.rd \in FRegs,
           NEW v, WriteFreg(i, v)
    PROVE  Written = v
<1>1. fregs'[i.rd] = IF i.fmt = "S" THEN Boxed(v) ELSE Unboxed(v)
  BY DEF WriteFreg
<1>2. Boxed(v).single = v /\ Unboxed(v).double = v
  BY DEF Boxed, Unboxed
<1>. QED
  BY <1>1, <1>2 DEF Written

-----------------------------------------------------------------------------
(* Integers                                                                *)

\* Powers of two grow with their exponent.
LEMMA PowerGrows ==
    ASSUME NEW m \in Nat, NEW n \in Nat, m <= n
    PROVE  Pow(m) \in Nat /\ Pow(n) \in Nat /\ Pow(m) <= Pow(n)
<1>1. /\ IsFiniteSet(SUBSET (1..n)) /\ Cardinality(SUBSET (1..n)) = Pow(n)
      /\ Cardinality(SUBSET (1..m)) = Pow(m)
  BY PowerCounts
<1>2. SUBSET (1..m) \subseteq SUBSET (1..n)
  BY 1..m \subseteq 1..n
<1>3. Cardinality(SUBSET (1..m)) <= Cardinality(SUBSET (1..n))
  BY <1>1, <1>2, FS_Subset
<1>. QED
  BY <1>1, <1>3, PowIsPositive

\* The widths of the integers, their powers of two among them.
LEMMA WidthIs ==
    ASSUME NEW i
    PROVE  /\ Width(i) \in Nat /\ Width(i) - 1 \in Nat
           /\ Width(i) - 1 <= LongLen - 1 /\ LongLen - 1 \in Nat
           /\ Pow(Width(i)) = 2 * Pow(Width(i) - 1)
           /\ Pow(Width(i) - 1) \in Nat \ {0} /\ Pow(Width(i)) \in Nat \ {0}
           /\ Pow(Width(i) - 1) <= Pow(LongLen - 1) /\ Pow(LongLen - 1) \in Nat
<1>1. /\ Width(i) \in Nat /\ Width(i) - 1 \in Nat
      /\ Width(i) - 1 <= LongLen - 1 /\ LongLen - 1 \in Nat
  BY FloatAssumption DEF Width
<1> DEFINE w == Width(i) - 1
<1>2. Width(i) = w + 1 /\ w \in Nat
  BY <1>1
<1>. HIDE DEF w
<1>3. Pow(Width(i)) = 2 * Pow(w)
  BY <1>2, PowerDoubles
<1>. QED
  BY <1>1, <1>3, PowerGrows, PowIsPositive DEF w

\* The numbers that a signed word of n + 1 bits holds
Signeds(n) == (-Pow(n))..(Pow(n) - 1)

\* The numbers of the long width, zero and one among them.
LEMMA LongsAre ==
    /\ Longs = Signeds(LongLen - 1)
    /\ 0 \in Longs /\ 1 \in Longs
<1>1. Longs = Signeds(LongLen - 1)
  BY DEF Longs, Signeds, Pow
<1>2. Pow(1) = 2
  BY PowerDoubles, PowerOfZero
<1>3. 1 \in Nat /\ LongLen - 1 \in Nat /\ 1 <= LongLen - 1
  BY FloatAssumption
<1>4. Pow(1) <= Pow(LongLen - 1) /\ Pow(LongLen - 1) \in Nat
  BY <1>3, PowerGrows
<1>. QED
  BY <1>1, <1>2, <1>4 DEF Signeds

\* Sign extension keeps the low bits, and a number that fits.
LEMMA SignedToIs ==
    ASSUME NEW i, NEW res \in Int
    PROVE  /\ SignedTo(res, Width(i)) \in Signeds(Width(i) - 1)
           /\ SignedTo(res, Width(i)) \in Longs
           /\ SignedTo(res, Width(i)) % Pow(Width(i)) = res % Pow(Width(i))
           /\ res \in Signeds(Width(i) - 1) => SignedTo(res, Width(i)) = res
<1> DEFINE p == Pow(Width(i))
           h == Pow(Width(i) - 1)
           low == res % p
           s == IF low >= h THEN low - p ELSE low
<1>1. SignedTo(res, Width(i)) = s
  BY DEF SignedTo, Pow
<1>2. p \in Nat \ {0} /\ h \in Nat \ {0} /\ p = 2 * h /\ h <= Pow(LongLen - 1)
      /\ Pow(LongLen - 1) \in Nat
  BY WidthIs
<1>. HIDE DEF p, h
<1> DEFINE q == res \div p
<1>3. low \in 0..(p - 1) /\ q \in Int /\ p * q \in Int /\ res = p * q + low
  <2>1. low \in 0..(p - 1) /\ q \in Int /\ res = p * q + low
    BY <1>2, DivisionGives
  <2>. HIDE DEF low, q
  <2>2. p * q \in Int
    BY <1>2, <2>1
  <2>. QED
    BY <2>1, <2>2
<1>. HIDE DEF low, q
<1>4. s \in (-h)..(h - 1)
  BY <1>2, <1>3
<1>5. s % p = low
  <2>1. s = p * 0 + low \/ s = p * (-1) + low
    BY <1>2, <1>3
  <2>. QED
    BY <1>2, <1>3, <2>1, RemainderIsUnique
<1>6. ASSUME res \in (-h)..(h - 1) PROVE s = res
  <2>1. CASE res >= 0
    <3>1. res = p * 0 + res /\ res \in 0..(p - 1)
      BY <1>2, <1>6, <2>1
    <3>2. low = res
      BY <1>2, <3>1, RemainderIsUnique DEF low
    <3>. QED
      BY <1>2, <1>6, <3>2
  <2>2. CASE res < 0
    <3>1. res = p * (-1) + (res + p) /\ res + p \in 0..(p - 1)
      BY <1>2, <1>6, <2>2
    <3>2. low = res + p
      <4> DEFINE t == res + p
      <4>1. t \in 0..(p - 1) /\ res = p * (-1) + t
        BY <3>1
      <4>. HIDE DEF t
      <4>2. res % p = t
        BY <1>2, <4>1, RemainderIsUnique
      <4>. QED
        BY <4>2 DEF low, t
    <3>. QED
      BY <1>2, <1>6, <2>2, <3>2
  <2>. QED
    BY <1>6, <2>1, <2>2
<1>. HIDE DEF s
<1>7. s \in Longs
  BY <1>2, <1>4, LongsAre DEF Signeds
<1>. QED
  BY <1>1, <1>4, <1>5, <1>6, <1>7 DEF Signeds, p, h, low

\* rint(): the integer that the mode asks for
LEMMA RintIs ==
    ASSUME NEW fmt \in Formats, NEW v \in Values(fmt), v.is = "finite", NEW mode \in Modes
    PROVE  /\ Rint(v, mode) \in Int
           /\ \A a \in 0..3 : mode = ModeOf(a) => Rint(v, mode) = Nearest(Eighths(v), a)
<1> DEFINE mag == v.mag
           neg == v.neg
           q == mag \div 8
           rest == mag % 8
           away == CASE mode = "RNE" -> \/ 2 * rest > 8
                                        \/ 2 * rest = 8 /\ q % 2 = 1
                     [] mode = "RTZ" -> FALSE
                     [] mode = "RDN" -> rest > 0 /\ neg
                     [] mode = "RUP" -> rest > 0 /\ ~neg
           k == IF away THEN q + 1 ELSE q
           e == Eighths(v)
           floor == e \div 8
           ceiling == -((-e) \div 8)
<1>1. mag \in Nat /\ neg \in BOOLEAN /\ e = (IF neg THEN -mag ELSE mag)
  BY NumberIs
<1>2. Rint(v, mode) = IF neg THEN -k ELSE k
  BY DEF Rint, RoundQuotient, One
<1>3. \A a \in 0..3 : Nearest(e, a) = CASE a = 0 -> IF 2 * (e - floor * 8) < 8
                                                   \/ (2 * (e - floor * 8) = 8 /\ floor % 2 = 0)
                                                 THEN floor ELSE ceiling
                                       [] a = 1 -> IF e >= 0 THEN floor ELSE ceiling
                                       [] a = 2 -> floor
                                       [] a = 3 -> ceiling
  BY DEF Nearest, One
<1>. HIDE DEF e, mag, neg
<1>4. q \in Nat /\ rest \in 0..7 /\ mag = 8 * q + rest
  BY <1>1
<1>5. /\ ~neg => floor = q /\ ceiling = IF rest = 0 THEN q ELSE q + 1
      /\ neg => ceiling = -q /\ floor = IF rest = 0 THEN -q ELSE (-q) - 1
  BY <1>1
<1>. HIDE DEF q, rest, floor, ceiling
<1>6. k \in Nat /\ (away => k = q + 1) /\ (~away => k = q)
  <2>. HIDE DEF away
  <2>. QED
    BY <1>4
<1>7. \A a \in 0..3 : mode = ModeOf(a) => /\ a = 0 <=> mode = "RNE"
                                          /\ a = 1 <=> mode = "RTZ"
                                          /\ a = 2 <=> mode = "RDN"
                                          /\ a = 3 <=> mode = "RUP"
  BY DEF ModeOf
<1>8. ASSUME NEW a \in 0..3, mode = ModeOf(a)
      PROVE  (IF neg THEN -k ELSE k) = Nearest(e, a)
  <2>1. CASE a = 0
    <3>1. mode = "RNE" /\ (away <=> 2 * rest > 8 \/ (2 * rest = 8 /\ q % 2 = 1))
      BY <1>7, <1>8, <2>1
    <3>2. Nearest(e, a) = IF 2 * (e - floor * 8) < 8
                             \/ (2 * (e - floor * 8) = 8 /\ floor % 2 = 0)
                          THEN floor ELSE ceiling
      BY <1>3, <2>1
    <3>. HIDE DEF away, k
    <3>3. CASE ~neg
      <4>1. e - floor * 8 = rest /\ floor = q
        BY <1>1, <1>4, <1>5, <3>3
      <4>. QED
        BY <1>4, <1>5, <1>6, <3>1, <3>2, <3>3, <4>1
    <3>4. CASE neg /\ rest = 0
      <4>1. e - floor * 8 = 0 /\ floor = -q /\ ceiling = -q
        BY <1>1, <1>4, <1>5, <3>4
      <4>. QED
        BY <1>4, <1>6, <3>1, <3>2, <3>4, <4>1
    <3>5. CASE neg /\ rest # 0
      <4>1. e - floor * 8 = 8 - rest /\ floor = (-q) - 1 /\ ceiling = -q
        BY <1>1, <1>4, <1>5, <3>5
      <4>2. floor % 2 = 0 <=> q % 2 = 1
        BY <1>4, <4>1
      <4>. QED
        BY <1>4, <1>6, <3>1, <3>2, <3>5, <4>1, <4>2
    <3>. QED
      BY <1>1, <3>3, <3>4, <3>5
  <2>2. CASE a = 1
    <3>1. mode = "RTZ" /\ ~away
      BY <1>7, <1>8, <2>2
    <3>2. Nearest(e, a) = IF e >= 0 THEN floor ELSE ceiling
      BY <1>3, <2>2
    <3>. HIDE DEF away, k
    <3>. QED
      BY <1>1, <1>4, <1>5, <1>6, <3>1, <3>2
  <2>3. CASE a = 2
    <3>1. mode = "RDN" /\ (away <=> rest > 0 /\ neg)
      BY <1>7, <1>8, <2>3
    <3>2. Nearest(e, a) = floor
      BY <1>3, <2>3
    <3>. HIDE DEF away, k
    <3>. QED
      BY <1>1, <1>4, <1>5, <1>6, <3>1, <3>2
  <2>4. CASE a = 3
    <3>1. mode = "RUP" /\ (away <=> rest > 0 /\ ~neg)
      BY <1>7, <1>8, <2>4
    <3>2. Nearest(e, a) = ceiling
      BY <1>3, <2>4
    <3>. HIDE DEF away, k
    <3>. QED
      BY <1>1, <1>4, <1>5, <1>6, <3>1, <3>2
  <2>. HIDE DEF away, k
  <2>. QED
    BY <2>1, <2>2, <2>3, <2>4
<1>. HIDE DEF k
<1>. QED
  BY <1>2, <1>6, <1>8 DEF e

\* The ends of the integer type of a conversion
LEMMA EndsAre ==
    ASSUME NEW i
    PROVE  /\ Low(i) \in Int /\ High(i) \in Int /\ Low(i) <= 0 /\ High(i) >= 0
           /\ IsUnsigned(i) => Low(i) = 0 /\ High(i) = Pow(Width(i)) - 1
           /\ ~IsUnsigned(i) => /\ Low(i) = -Pow(Width(i) - 1)
                                /\ High(i) = Pow(Width(i) - 1) - 1
<1>1. /\ IsUnsigned(i) => Low(i) = 0 /\ High(i) = Pow(Width(i)) - 1
      /\ ~IsUnsigned(i) => Low(i) = -Pow(Width(i) - 1) /\ High(i) = Pow(Width(i) - 1) - 1
  BY DEF Low, High, Pow
<1>. QED
  BY <1>1, WidthIs

\* FTOX_HELPER, case by case
LEMMA ToIntegerIs ==
    ASSUME NEW i, NEW fmt \in Formats, NEW v \in Values(fmt), NEW mode \in Modes
    PROVE  LET res == ToInteger(i, v, mode)
           IN  /\ res.val \in Low(i)..High(i)
               /\ res.flags \in {{}, {"NV"}, {"NX"}}
               /\ IF v.is = "finite" /\ Rint(v, mode) \in Low(i)..High(i)
                  THEN res.val = Rint(v, mode)
                  ELSE /\ res.flags = {"NV"}
                       /\ IsNan(v) \/ ~v.neg => res.val = High(i)
                       /\ ~IsNan(v) /\ v.neg => res.val = Low(i)
<1> DEFINE res == ToInteger(i, v, mode)
           n == IF v.is = "finite" THEN Rint(v, mode) ELSE 0
<1>1. v.is \in {"nan", "inf", "finite"} /\ v.neg \in BOOLEAN
  BY ValueFields
<1>2. Low(i) \in Int /\ High(i) \in Int /\ Low(i) <= 0 /\ High(i) >= 0
  BY EndsAre
<1>3. n \in Int
  BY RintIs
<1>4. v.is = "finite" => (v.neg => n <= 0) /\ (~v.neg => n >= 0)
  <2>1. ASSUME v.is = "finite"
        PROVE  \E k \in Nat : n = IF v.neg THEN -k ELSE k
    <3>1. v.mag \in Nat /\ 8 \in Nat \ {0}
      BY <2>1, NumberIs
    <3>2. v.mag \div 8 \in Nat
      BY <3>1
    <3>3. RoundQuotient(v.neg, v.mag, One, mode) \in {v.mag \div 8, v.mag \div 8 + 1}
      BY DEF RoundQuotient, One
    <3>. QED
      BY <2>1, <3>2, <3>3 DEF Rint
  <2>. QED
    BY <1>3, <2>1
<1>5. CASE IsNan(v)
  <2>1. res = Result(High(i), {"NV"}) /\ v.is = "nan"
    BY <1>5 DEF ToInteger, IsNan
  <2>. HIDE DEF res
  <2>2. res.val = High(i) /\ res.flags = {"NV"}
    BY <2>1, ResultFields
  <2>. QED
    BY <1>2, <1>5, <2>1, <2>2 DEF res
<1>6. CASE v.is = "inf"
  <2>1. res = Result(IF v.neg THEN Low(i) ELSE High(i), {"NV"}) /\ ~IsNan(v)
    BY <1>6 DEF ToInteger, IsNan
  <2>. HIDE DEF res
  <2>2. res.val = (IF v.neg THEN Low(i) ELSE High(i)) /\ res.flags = {"NV"}
    BY <2>1, ResultFields
  <2>. QED
    BY <1>1, <1>2, <1>6, <2>1, <2>2 DEF res
<1>7. CASE v.is = "finite"
  <2> DEFINE inexact == v.is = "finite" /\ n * One # Eighths(v)
  <2>1. ~IsNan(v)
    BY <1>7 DEF IsNan
  <2>2. /\ n < Low(i) => res = Result(Low(i), {"NV"})
        /\ n > High(i) => res = Result(High(i), {"NV"})
        /\ ~(n < Low(i)) /\ ~(n > High(i)) => res = Result(n, IF inexact THEN {"NX"} ELSE {})
    <3>1. ToInteger(i, v, mode) =
             CASE IsNan(v) -> Result(High(i), {"NV"})
               [] v.is = "inf" -> Result(IF v.neg THEN Low(i) ELSE High(i), {"NV"})
               [] v.is = "finite" /\ n < Low(i) -> Result(Low(i), {"NV"})
               [] v.is = "finite" /\ n > High(i) -> Result(High(i), {"NV"})
               [] OTHER -> Result(n, IF inexact THEN {"NX"} ELSE {})
      BY DEF ToInteger
    <3>2. ~(n < Low(i) /\ n > High(i))
      BY <1>2, <1>3
    <3>. HIDE DEF n, inexact
    <3>3. n < Low(i) => res = Result(Low(i), {"NV"})
      BY <1>7, <2>1, <3>1, <3>2
    <3>4. n > High(i) => res = Result(High(i), {"NV"})
      BY <1>7, <2>1, <3>1, <3>2
    <3>. QED
      BY <1>7, <2>1, <3>1, <3>3, <3>4
  <2>3. n = Rint(v, mode)
    BY <1>7
  <2>. HIDE DEF res, n, inexact
  <2>4. /\ n < Low(i) => res.val = Low(i) /\ res.flags = {"NV"}
        /\ n > High(i) => res.val = High(i) /\ res.flags = {"NV"}
        /\ ~(n < Low(i)) /\ ~(n > High(i)) => res.val = n /\ res.flags \in {{}, {"NX"}}
    BY <2>2, ResultFields
  <2>5. n \in Low(i)..High(i) <=> ~(n < Low(i)) /\ ~(n > High(i))
    BY <1>2, <1>3
  <2>6. n < Low(i) => v.neg
    BY <1>1, <1>2, <1>3, <1>4, <1>7
  <2>7. n > High(i) => ~v.neg
    BY <1>1, <1>2, <1>3, <1>4, <1>7
  <2>8. res.val \in Low(i)..High(i) /\ res.flags \in {{}, {"NV"}, {"NX"}}
    BY <1>2, <2>4, <2>5
  <2>9. IF n \in Low(i)..High(i) THEN res.val = n
        ELSE /\ res.flags = {"NV"}
             /\ IsNan(v) \/ ~v.neg => res.val = High(i)
             /\ ~IsNan(v) /\ v.neg => res.val = Low(i)
    BY <2>1, <2>4, <2>5, <2>6, <2>7
  <2>. QED
    BY <1>7, <2>3, <2>8, <2>9 DEF res
<1>. QED
  BY <1>1, <1>5, <1>6, <1>7 DEF IsNan

-----------------------------------------------------------------------------
(* What the actions write                                                  *)

\* Every operation that computes a number, from the lemmas about each.
LEMMA OperationIsFine ==
    ASSUME TypeOK, NEW i \in Insns, i.fmt \in Formats, NEW mode \in Modes, NEW nan \in HostNans
    PROVE  /\ i.op \in Arithmetic => Fine(i, mode, nan, Computed(i, mode, nan))
           /\ i.op \in FusedOps => Fine(i, mode, nan, GuestFused(i, mode, nan))
BY AddIsFine, MulIsFine, DivIsFine, SqrtIsFine, FusedIsFine DEF Arithmetic

\* What is rounded is a value of the format and no NaN.
LEMMA RoundedValue ==
    ASSUME NEW fmt \in Formats, NEW neg \in BOOLEAN, NEW n \in Nat, NEW d \in Nat \ {0},
           NEW mode \in Modes
    PROVE  /\ Rounded(neg, n, d, fmt, mode).val \in Values(fmt)
           /\ ~IsNan(Rounded(neg, n, d, fmt, mode).val)
           /\ Rounded(neg, n, d, fmt, mode).flags \in SUBSET Flags
<1>1. \/ Rounded(neg, n, d, fmt, mode).val = Inf(neg)
      \/ \E m \in Magnitudes(fmt) : Rounded(neg, n, d, fmt, mode).val = Finite(neg, m)
  BY RoundedType, ZenonT(60)
<1>2. Rounded(neg, n, d, fmt, mode).flags \subseteq {"OF", "UF", "NX"}
  BY RoundedType, Zenon
<1>. QED
  BY <1>1, <1>2, InfIsValue, FiniteIsValue, FiniteFields DEF Flags

\* rv_float_ftof: a converted value is one of the format; a NaN becomes the host's.
LEMMA ConvertedIs ==
    ASSUME NEW fmt \in Formats, NEW from \in Formats, NEW a \in Values(from),
           NEW mode \in Modes, NEW nan \in HostNans
    PROVE  /\ Converted(a, fmt, mode, nan).val \in Values(fmt)
           /\ Converted(a, fmt, mode, nan).flags \in SUBSET Flags
<1> DEFINE res == Converted(a, fmt, mode, nan)
<1>1. a.is \in {"nan", "inf", "finite"} /\ a.neg \in BOOLEAN
  BY ValueFields
<1>2. CASE IsNan(a)
  <2>1. res = NanResult({a}, nan)
    BY <1>2 DEF Converted, IsNan
  <2>. HIDE DEF res
  <2>2. res.val = nan /\ res.flags \subseteq {"NV"}
    BY <2>1, NanResultIs
  <2>. QED
    BY <2>2, NanOfEither DEF res, Formats, Flags
<1>3. CASE a.is = "inf"
  <2>1. res = Result(a, {}) /\ a = Inf(a.neg)
    BY <1>3, ValueFields DEF Converted, IsNan
  <2>. HIDE DEF res
  <2>2. res.val = a /\ res.flags = {}
    BY <2>1, ResultFields
  <2>3. Inf(a.neg) \in Values(fmt)
    BY <1>1, InfIsValue
  <2>. QED
    BY <2>1, <2>2, <2>3 DEF res
<1>4. CASE a.is = "finite"
  <2> DEFINE neg == a.neg
             mag == a.mag
  <2>1. res = Rounded(neg, mag, 1, fmt, mode)
    BY <1>4 DEF Converted, IsNan
  <2>2. mag \in Nat /\ neg \in BOOLEAN /\ 1 \in Nat \ {0}
    BY <1>4, NumberIs
  <2>. HIDE DEF neg, mag, res
  <2>3. res.val \in Values(fmt) /\ res.flags \in SUBSET Flags
    BY <2>1, <2>2, RoundedValue
  <2>. QED
    BY <2>3 DEF res
<1>. QED
  BY <1>1, <1>2, <1>3, <1>4 DEF IsNan

\* rv_float_xtof: the source is an integer.
LEMMA SourceIs ==
    ASSUME TypeOK, NEW i, "int" \in DOMAIN x
    PROVE  Source(i) \in Int
<1>1. x.int \in Longs
  BY DEF TypeOK, IntRegisters
<1>2. Longs \subseteq Int
  BY LongsAre DEF Signeds
<1>3. x.int % Pow(Width(i)) \in Int
  <2> DEFINE n == x.int
             p == Pow(Width(i))
  <2>1. n \in Int /\ p \in Nat \ {0}
    BY <1>1, <1>2, WidthIs
  <2>. HIDE DEF n, p
  <2>2. n % p \in Int
    BY <2>1, DivisionGives
  <2>. QED
    BY <2>2 DEF n, p
<1>4. SignedTo(x.int, Width(i)) \in Int
  BY <1>1, <1>2, SignedToIs
<1>. QED
  BY <1>3, <1>4 DEF Source, Pow

\* rv_float_xtof: an integer is converted to a number of the format.
LEMMA FromIntegerIs ==
    ASSUME NEW fmt \in Formats, NEW n \in Int, NEW mode \in Modes
    PROVE  LET res == Rounded(n < 0, (IF n < 0 THEN -n ELSE n) * One, 1, fmt, mode)
           IN  res.val \in Values(fmt) /\ ~IsNan(res.val) /\ res.flags \in SUBSET Flags
<1> DEFINE neg == n < 0
           mag == (IF n < 0 THEN -n ELSE n) * One
<1>1. mag \in Nat /\ neg \in BOOLEAN /\ 1 \in Nat \ {0}
  BY DEF One
<1>. HIDE DEF neg, mag
<1>2. /\ Rounded(neg, mag, 1, fmt, mode).val \in Values(fmt)
      /\ ~IsNan(Rounded(neg, mag, 1, fmt, mode).val)
      /\ Rounded(neg, mag, 1, fmt, mode).flags \in SUBSET Flags
  BY <1>1, RoundedValue
<1>. QED
  BY <1>2 DEF neg, mag

\* rv_float_op_fp, MIN_MAX: the result is a value of the format.
LEMMA ExtremeIs ==
    ASSUME NEW fmt \in Formats, NEW a \in Values(fmt), NEW b \in Values(fmt),
           NEW isMin \in BOOLEAN
    PROVE  Extreme(a, b, isMin) \in Values(fmt)
<1>1. Canonical \in Values(fmt) /\ Finite(isMin, 0) \in Values(fmt)
  BY NanOfEither, OneAndZero DEF Formats
<1>2. IsNan(a) \/ IsNan(b) => Extreme(a, b, isMin) \in {Canonical, a, b}
  BY DEF Extreme, IsNan, IsZero
<1>3. ~IsNan(a) /\ ~IsNan(b) => Extreme(a, b, isMin) \in {Finite(isMin, 0), a, b}
  BY DEF Extreme, IsNan, IsZero, HostLesser, HostGreater
<1>. QED
  BY <1>1, <1>2, <1>3

\* A change of sign keeps a value in its format and of its kind.
LEMMA SignChangeIs ==
    ASSUME NEW fmt \in Formats, NEW v \in Values(fmt), NEW neg \in BOOLEAN
    PROVE  [v EXCEPT !.neg = neg] \in Values(fmt) /\ [v EXCEPT !.neg = neg].is = v.is
<1>1. v.is \in {"nan", "inf", "finite"}
  BY ValueFields
<1>2. CASE v.is = "nan"
  <2>1. v = Nan(v.neg, v.payload) /\ v.payload \in {"default", "other", "signalling"}
    BY <1>2, ValueFields
  <2>2. [v EXCEPT !.neg = neg] = Nan(neg, v.payload)
    BY <2>1 DEF Nan
  <2>. QED
    BY <1>2, <2>1, <2>2, NanIsValue DEF IsNan
<1>3. CASE v.is = "inf"
  <2>1. v = Inf(v.neg)
    BY <1>3, ValueFields
  <2>2. [v EXCEPT !.neg = neg] = Inf(neg)
    BY <2>1 DEF Inf
  <2>. QED
    BY <1>3, <2>2, InfIsValue
<1>4. CASE v.is = "finite"
  <2>1. v = Finite(v.neg, v.mag) /\ v.mag \in Magnitudes(fmt)
    BY <1>4, ValueFields
  <2>2. [v EXCEPT !.neg = neg] = Finite(neg, v.mag)
    BY <2>1 DEF Finite
  <2>. QED
    BY <1>4, <2>1, <2>2, FiniteIsValue, FiniteFields
<1>. QED
  BY <1>1, <1>2, <1>3, <1>4

\* rv_float_op_fp, SGNJ: the result is a register, a single of the kind of its source.
LEMMA SignedIs ==
    ASSUME NEW fmt \in Formats, NEW r \in Registers, NEW v \in Values(fmt), NEW neg \in BOOLEAN
    PROVE  /\ Signed(r, v, neg, fmt) \in Registers
           /\ fmt = "S" => /\ Signed(r, v, neg, fmt).single.is = v.is
<1> DEFINE w == [v EXCEPT !.neg = neg]
<1>1. w \in Values(fmt) /\ w.is = v.is
  BY SignChangeIs
<1>2. Signed(r, v, neg, fmt) = CASE fmt = "S" -> Boxed(w)
                                 [] fmt = "D" /\ r.boxed /\ neg -> r
                                 [] OTHER -> Unboxed(w)
  BY DEF Signed
<1>. HIDE DEF w
<1>3. CASE fmt = "S"
  <2>1. Signed(r, v, neg, fmt) = Boxed(w)
    BY <1>2, <1>3
  <2>2. Boxed(w).single = w /\ Boxed(w) \in Registers
    BY <1>1, <1>3 DEF Boxed, Registers
  <2>. QED
    BY <1>1, <2>1, <2>2
<1>4. CASE fmt = "D"
  <2>1. Signed(r, v, neg, fmt) = Unboxed(w) \/ Signed(r, v, neg, fmt) = r
    BY <1>2, <1>4
  <2>2. Unboxed(w) \in Registers
    BY <1>1, <1>4 DEF Registers
  <2>. QED
    BY <1>4, <2>1, <2>2
<1>. QED
  BY <1>3, <1>4 DEF Formats

\* Writing a value of the format keeps the registers well-formed.
LEMMA WritesRegister ==
    ASSUME fregs \in [FRegs -> Registers], NEW i, i.fmt \in Formats, NEW v \in Values(i.fmt),
           WriteFreg(i, v)
    PROVE  fregs' \in [FRegs -> Registers]
<1>1. (IF i.fmt = "S" THEN Boxed(v) ELSE Unboxed(v)) \in Registers
  BY DEF Registers, Formats
<1>. QED
  BY <1>1 DEF WriteFreg

\* CANON_NAN_F32 and CANON_NAN_F64: only NaNs change.
LEMMA CanonizedIs ==
    ASSUME NEW fmt \in Formats, NEW v \in Values(fmt)
    PROVE  /\ Canonized(v) \in Values(fmt)
           /\ IsNan(Canonized(v)) <=> IsNan(v)
           /\ IsNan(v) => Canonized(v) = Canonical
           /\ ~IsNan(v) => Canonized(v) = v
BY NanOfEither DEF Canonized, Formats

\* apply_frm: the mode that is asked for, where the host has it.
LEMMA AppliedIs ==
    ASSUME TypeOK, NEW i
    PROVE  /\ Applied(i) \in Modes
           /\ Asked(i) \in 0..3 => Applied(i) = ModeOf(Asked(i))
BY DEF Applied, ModeOf, TypeOK, Modes

-----------------------------------------------------------------------------
(* Type correctness                                                        *)

\* What an instruction may change
State ==
    /\ fregs \in [FRegs -> Registers] /\ x \in IntRegisters
    /\ fflags \subseteq Flags /\ host \in Modes /\ excepts \subseteq Flags
    /\ outcome \in {"none", "done", "illegal"}

\* feclearexcept: what the host has is what this instruction raised, and check_fflags
\* adds just that to what the guest has.
LEMMA Accrues ==
    ASSUME TypeOK, NEW i, NEW raised
    PROVE  /\ Raise(i, raised) => excepts' = raised
           /\ Accrue(i, raised) => excepts' = raised /\ fflags' = fflags \cup raised
<1>1. Cleared(i) = {}
  BY DEF Cleared, TypeOK
<1>. QED
  BY <1>1 DEF Raise, Accrue

\* Nothing raised, nothing gained
LEMMA AccruesNothing ==
    ASSUME TypeOK, NEW i, Accrue(i, {})
    PROVE  fflags' = fflags /\ excepts' = {}
<1>1. fflags' = fflags \cup {} /\ excepts' = {}
  BY Accrues
<1>. QED
  BY <1>1

\* What the host says of a signalling NaN
LEMMA LookingIs ==
    ASSUME NEW values, NEW raised \in Looking(values)
    PROVE  raised \subseteq {"NV"} /\ (raised # {} => \E v \in values : IsSnan(v))
BY DEF Looking

\* rv_float_fmadd in the guest's terms
LEMMA FmaddLeaves ==
    ASSUME TypeOK, NEW i, Fmadd(i)
    PROVE  \E nan \in HostNans :
             LET res == GuestFused(i, host', nan)
             IN  WriteFreg(i, res.val) /\ fflags' = fflags \cup res.flags
                 /\ excepts' \subseteq res.flags
<1>1. PICK nan \in HostNans :
         /\ WriteFreg(i, Fused(i, host', nan).val)
         /\ Raise(i, Fused(i, host', nan).flags)
         /\ fflags' = fflags \cup excepts' \cup IF Invalid(i) THEN {"NV"} ELSE {}
  BY DEF Fmadd
<1> DEFINE sum == Fused(i, host', nan)
<1>2. sum = Result(sum.val, sum.flags)
  BY MulAddIsResult DEF Fused
<1>3. excepts' = sum.flags
  BY <1>1, Accrues
<1>. HIDE DEF sum
<1>4. /\ [sum EXCEPT !.flags = @ \cup IF Invalid(i) THEN {"NV"} ELSE {}].val = sum.val
      /\ [sum EXCEPT !.flags = @ \cup IF Invalid(i) THEN {"NV"} ELSE {}].flags
           = sum.flags \cup IF Invalid(i) THEN {"NV"} ELSE {}
  <2> DEFINE v == sum.val
             f == sum.flags
  <2>1. sum = Result(v, f)
    BY <1>2
  <2>. HIDE DEF v, f
  <2>. QED
    BY <2>1 DEF Result
<1>5. GuestFused(i, host', nan).val = sum.val
      /\ GuestFused(i, host', nan).flags = sum.flags \cup IF Invalid(i) THEN {"NV"} ELSE {}
  BY <1>4 DEF GuestFused, sum
<1>. QED
  BY <1>1, <1>3, <1>5 DEF sum

\* Types after a comparison.
LEMMA CompareTypes ==
    ASSUME TypeOK, NEW i \in Insns, i.fmt \in Formats, Compare(i)
    PROVE  State'
<1>1. \A n \in {0, 1} : [int |-> n] \in IntRegisters
  BY LongsAre DEF IntRegisters
<1>2. \A a, b : /\ Equal(a, b).flags \subseteq Flags /\ Less(a, b).flags \subseteq Flags
                /\ LessOrEqual(a, b).flags = Less(a, b).flags
  BY DEF Equal, Less, LessOrEqual, Flags
<1>3. fregs' = fregs /\ host' = host /\ outcome' \in {"done", "illegal"}
  BY DEF Compare, Illegal, Done
<1> DEFINE a == Read(i.rs1, i.fmt)
           b == Read(i.rs2, i.fmt)
           res == CASE i.funct3 = 2 -> Equal(a, b)
                    [] i.funct3 = 1 -> Less(a, b)
                    [] OTHER -> LessOrEqual(a, b)
<1>4. \/ /\ x' = [int |-> IF res.holds THEN 1 ELSE 0] /\ fflags' = fflags \cup res.flags
         /\ excepts' = res.flags
      \/ x' = x /\ fflags' = fflags /\ excepts' = {}
  BY Accrues DEF Compare, Illegal
<1>5. res \in {Equal(a, b), Less(a, b), LessOrEqual(a, b)}
  <2>. HIDE DEF a, b
  <2>. QED
    OBVIOUS
<1>. HIDE DEF res, a, b
<1>6. res.flags \subseteq Flags
  BY <1>2, <1>5
<1>7. x' \in IntRegisters
  BY <1>1, <1>4 DEF TypeOK
<1>8. fflags' \subseteq Flags /\ excepts' \subseteq Flags
  BY <1>4, <1>6 DEF TypeOK
<1>. QED
  BY <1>3, <1>7, <1>8 DEF State, TypeOK

\* Types after a sign injection.
LEMMA InjectSignTypes ==
    ASSUME TypeOK, NEW i \in Insns, i.fmt \in Formats, InjectSign(i)
    PROVE  State'
<1> DEFINE a == Read(i.rs1, i.fmt)
           b == Read(i.rs2, i.fmt)
           neg == CASE i.funct3 = 0 -> b.neg
                    [] i.funct3 = 1 -> ~b.neg
                    [] OTHER -> a.neg # b.neg
<1>1. i.op = "SGNJ"
  BY DEF InjectSign, Execute, Begin
<1>2. i.rs1 \in FRegs /\ i.rs2 \in FRegs /\ i.rd \in FRegs
  BY <1>1, InsnIs DEF TwoOperands
<1>3. a \in Values(i.fmt) /\ b \in Values(i.fmt)
  BY <1>2, ReadIs
<1>4. \/ fregs' = [fregs EXCEPT ![i.rd] = Signed(fregs[i.rs1], a, neg, i.fmt)]
      \/ fregs' = fregs
  BY DEF InjectSign, Illegal
<1>5. /\ x' = x /\ fflags' = fflags /\ host' = host /\ outcome' \in {"done", "illegal"}
      /\ excepts' = {}
  BY Accrues DEF InjectSign, Illegal, Done
<1>6. neg \in BOOLEAN
  <2>1. a.neg \in BOOLEAN /\ b.neg \in BOOLEAN
    BY <1>3, ValueFields
  <2>. HIDE DEF a, b
  <2>. QED
    BY <2>1
<1>. HIDE DEF a, b, neg
<1>7. Signed(fregs[i.rs1], a, neg, i.fmt) \in Registers
  BY <1>2, <1>3, <1>6, SignedIs DEF TypeOK
<1>8. fregs' \in [FRegs -> Registers]
  BY <1>4, <1>7 DEF TypeOK
<1>. QED
  BY <1>5, <1>8 DEF State, TypeOK

\* Types after a minimum or a maximum.
LEMMA MinMaxTypes ==
    ASSUME TypeOK, NEW i \in Insns, i.fmt \in Formats, MinMax(i)
    PROVE  State'
<1> DEFINE v == Extreme(Read(i.rs1, i.fmt), Read(i.rs2, i.fmt), i.funct3 = 0)
<1>1. i.op = "MIN_MAX"
  BY DEF MinMax, Execute, Begin
<1>2. i.rs1 \in FRegs /\ i.rs2 \in FRegs
  BY <1>1, InsnIs DEF TwoOperands
<1>3. v \in Values(i.fmt)
  BY <1>2, ReadIs, ExtremeIs
<1>4. /\ host' = host /\ x' = x /\ outcome' \in {"done", "illegal"}
      /\ fflags' = fflags \/ fflags' = fflags \cup {"NV"}
      /\ excepts' \subseteq {"NV"}
      /\ WriteFreg(i, v) \/ fregs' = fregs
  BY Accrues, LookingIs DEF MinMax, Illegal, Done
<1>. HIDE DEF v
<1>5. fregs' \in [FRegs -> Registers]
  BY <1>3, <1>4, WritesRegister DEF TypeOK
<1>6. fflags' \subseteq Flags /\ excepts' \subseteq Flags
  BY <1>4 DEF TypeOK, Flags
<1>. QED
  BY <1>4, <1>5, <1>6 DEF State, TypeOK

\* Types after arithmetic, fused or not.
LEMMA ComputeTypes ==
    ASSUME TypeOK, NEW i \in Insns, i.fmt \in Formats, Compute(i) \/ Fmadd(i)
    PROVE  State'
<1>1. host' \in Modes /\ x' = x /\ outcome' = "done"
  BY AppliedIs DEF Compute, Fmadd, Rounding, Done
<1>2. \E nan \in HostNans :
        \E res \in {Computed(i, host', nan), GuestFused(i, host', nan)} :
          /\ Fine(i, host', nan, res) /\ fflags' = fflags \cup res.flags
          /\ excepts' \subseteq res.flags
          /\ WriteFreg(i, Canonized(res.val)) \/ WriteFreg(i, res.val)
  <2>1. CASE Compute(i)
    <3>1. i.op \in Arithmetic
      BY <2>1 DEF Compute, Rounding, Execute, Begin
    <3>2. PICK nan \in HostNans : /\ WriteFreg(i, Canonized(Computed(i, host', nan).val))
                                  /\ Accrue(i, Computed(i, host', nan).flags)
      BY <2>1 DEF Compute
    <3>3. Fine(i, host', nan, Computed(i, host', nan))
      BY <1>1, <3>1, OperationIsFine
    <3>. QED
      BY <3>2, <3>3, Accrues
  <2>2. CASE Fmadd(i)
    <3>1. i.op \in FusedOps
      BY <2>2 DEF Fmadd, Rounding, Execute, Begin
    <3>2. PICK nan \in HostNans : LET res == GuestFused(i, host', nan)
                                  IN  /\ WriteFreg(i, res.val)
                                      /\ fflags' = fflags \cup res.flags
                                      /\ excepts' \subseteq res.flags
      BY <2>2, FmaddLeaves
    <3>3. Fine(i, host', nan, GuestFused(i, host', nan))
      BY <1>1, <3>1, OperationIsFine
    <3>. QED
      BY <3>2, <3>3
  <2>. QED
    BY <2>1, <2>2
<1>3. \E v \in Values(i.fmt), flags \in SUBSET Flags :
         WriteFreg(i, v) /\ fflags' = fflags \cup flags /\ excepts' \subseteq flags
  BY <1>2, CanonizedIs DEF Fine
<1>4. fregs' \in [FRegs -> Registers]
  BY <1>3, WritesRegister DEF TypeOK
<1>5. fflags' \subseteq Flags /\ excepts' \subseteq Flags
  BY <1>3 DEF TypeOK
<1>. QED
  BY <1>1, <1>4, <1>5 DEF State, TypeOK

\* Types after a conversion to a floating-point format.
LEMMA ConversionTypes ==
    ASSUME TypeOK, NEW i \in Insns, i.fmt \in Formats, FToF(i) \/ XToF(i)
    PROVE  State'
<1>1. host' \in Modes /\ x' = x /\ outcome' = "done" /\ i.rs1 \in FRegs
  <2>1. i.op \in {"FCVT_FTOF", "FCVT_XTOF"}
    BY DEF FToF, XToF, Rounding, Execute, Begin
  <2>. QED
    BY <2>1, AppliedIs, InsnIs DEF FToF, XToF, Rounding, Done
<1>2. \E v \in Values(i.fmt), flags \in SUBSET Flags : WriteFreg(i, v) /\ Accrue(i, flags)
  <2>1. CASE FToF(i)
    <3> DEFINE wide == i.rs2 = 1
               r == fregs[i.rs1]
               arg == CASE i.fmt = "D" -> IF wide THEN LowHalf(r) ELSE ReadSingle(r)
                        [] i.fmt = "S" -> IF wide THEN ReadDouble(r) ELSE Nan(TRUE, "other")
    <3>1. r \in Registers
      BY <1>1 DEF TypeOK
    <3>2. arg \in Values("S") \/ arg \in Values("D")
      <4>1. LowHalf(r) \in Values("S") /\ ReadSingle(r) \in Values("S")
        BY <3>1, RegisterIs, NanOfEither, OneAndZero DEF LowHalf, ReadSingle, Formats
      <4>2. ReadDouble(r) \in Values("D") /\ Nan(TRUE, "other") \in Values("D")
        BY <3>1, RegisterIs, NanOfEither DEF ReadDouble
      <4>. HIDE DEF r, wide
      <4>. QED
        BY <4>1, <4>2 DEF Formats
    <3>3. PICK nan \in HostNans :
             /\ WriteFreg(i, Canonized(Converted(arg, i.fmt, host', nan).val))
             /\ Accrue(i, Converted(arg, i.fmt, host', nan).flags)
      BY <2>1 DEF FToF
    <3>. HIDE DEF arg
    <3>4. /\ Converted(arg, i.fmt, host', nan).val \in Values(i.fmt)
          /\ Converted(arg, i.fmt, host', nan).flags \in SUBSET Flags
      BY <1>1, <3>2, ConvertedIs DEF Formats
    <3>5. Canonized(Converted(arg, i.fmt, host', nan).val) \in Values(i.fmt)
      BY <3>4, CanonizedIs
    <3>. QED
      BY <3>3, <3>4, <3>5
  <2>2. CASE XToF(i)
    <3> DEFINE n == Source(i)
               res == Rounded(n < 0, (IF n < 0 THEN -n ELSE n) * One, 1, i.fmt, host')
    <3>1. WriteFreg(i, res.val) /\ Accrue(i, res.flags) /\ "int" \in DOMAIN x
      BY <2>2 DEF XToF
    <3>2. n \in Int
      BY <3>1, SourceIs
    <3>3. res.val \in Values(i.fmt) /\ res.flags \in SUBSET Flags
      BY <1>1, <3>2, FromIntegerIs
    <3>. QED
      BY <3>1, <3>3
  <2>. QED
    BY <2>1, <2>2
<1>3. fregs' \in [FRegs -> Registers]
  BY <1>2, WritesRegister DEF TypeOK
<1>4. fflags' \subseteq Flags /\ excepts' \subseteq Flags
  BY <1>2, Accrues DEF TypeOK
<1>. QED
  BY <1>1, <1>3, <1>4 DEF State, TypeOK

\* rv_float_ftox: a signalling NaN is invalid by hand too, so what the host says of it
\* adds nothing.
LEMMA FToXLeaves ==
    ASSUME TypeOK, NEW i, FToX(i)
    PROVE  LET res == ToInteger(i, Read(i.rs1, i.fmt), host')
           IN  /\ x' = [int |-> SignedTo(res.val, Width(i))]
               /\ fflags' = fflags \cup res.flags
               /\ excepts' \subseteq res.flags
<1> DEFINE v == Read(i.rs1, i.fmt)
           res == ToInteger(i, v, host')
<1>1. PICK raised \in Looking({v}) : Raise(i, raised \cup (res.flags \ {"NV"}))
  BY DEF FToX
<1>2. /\ x' = [int |-> SignedTo(res.val, Width(i))]
      /\ fflags' = fflags \cup res.flags \cup excepts'
  BY DEF FToX
<1>3. raised \subseteq res.flags
  <2>1. IsNan(v) => res.flags = {"NV"}
    BY ResultFields DEF ToInteger
  <2>2. raised # {} => IsNan(v)
    BY LookingIs DEF IsSnan
  <2>3. raised \subseteq {"NV"}
    BY LookingIs
  <2>. HIDE DEF res, v
  <2>. QED
    BY <2>1, <2>2, <2>3
<1>4. excepts' = raised \cup (res.flags \ {"NV"})
  BY <1>1, Accrues
<1>. HIDE DEF res
<1>5. excepts' \subseteq res.flags
  BY <1>3, <1>4
<1>. QED
  BY <1>2, <1>5 DEF res, v

\* Types after a conversion to an integer.
LEMMA ToIntegerTypes ==
    ASSUME TypeOK, NEW i \in Insns, i.fmt \in Formats, FToX(i)
    PROVE  State'
<1> DEFINE v == Read(i.rs1, i.fmt)
           res == ToInteger(i, v, host')
<1>1. i.rs1 \in FRegs /\ host' \in Modes /\ fregs' = fregs /\ outcome' = "done"
  <2>1. i.op = "FCVT_FTOX"
    BY DEF FToX, Rounding, Execute, Begin
  <2>2. i.rs1 \in FRegs
    BY <2>1, InsnIs
  <2>. QED
    BY <2>2, AppliedIs DEF FToX, Rounding, Done
<1>2. v \in Values(i.fmt)
  BY <1>1, ReadIs
<1>3. /\ x' = [int |-> SignedTo(res.val, Width(i))] /\ fflags' = fflags \cup res.flags
      /\ excepts' \subseteq res.flags
  BY FToXLeaves
<1>. HIDE DEF v
<1>4. res.val \in Low(i)..High(i) /\ res.flags \in {{}, {"NV"}, {"NX"}}
  BY <1>1, <1>2, ToIntegerIs
<1>. HIDE DEF res
<1>5. res.val \in Int
  BY <1>4, EndsAre
<1>6. x' \in IntRegisters
  BY <1>3, <1>5, SignedToIs DEF IntRegisters
<1>7. fflags' \subseteq Flags /\ excepts' \subseteq Flags
  BY <1>3, <1>4 DEF TypeOK, Flags
<1>. QED
  BY <1>1, <1>6, <1>7 DEF State, TypeOK

\* Types after a classification or a move.
LEMMA MoveTypes ==
    ASSUME TypeOK, NEW i \in Insns, i.fmt \in Formats, Classify(i) \/ MoveOut(i) \/ MoveIn(i)
    PROVE  State'
<1>1. i.rs1 \in FRegs /\ i.rd \in FRegs /\ host' \in Modes /\ outcome' = "done"
  <2>1. i.op \in {"MVXF_CLASS", "MVFX"}
    BY DEF Classify, MoveOut, MoveIn, Rounding, Execute, Begin
  <2>. QED
    BY <2>1, InsnIs, AppliedIs DEF Classify, MoveOut, MoveIn, Rounding, Done
<1>2. fregs[i.rs1] \in Registers
  BY <1>1 DEF TypeOK
<1>3. CASE Classify(i)
  <2>1. fregs' = fregs /\ x' = [class |-> Classes(Read(i.rs1, i.fmt), i.fmt)]
        /\ (fflags' = fflags \/ fflags' = fflags \cup {"NV"}) /\ excepts' \subseteq {"NV"}
    <3>1. PICK raised \in Looking({Read(i.rs1, i.fmt)}) : Accrue(i, raised)
      BY <1>3 DEF Classify
    <3>2. raised \subseteq {"NV"} /\ fflags' = fflags \cup raised /\ excepts' = raised
      BY <3>1, Accrues, LookingIs
    <3>. QED
      BY <1>3, <3>2 DEF Classify
  <2>2. Classes(Read(i.rs1, i.fmt), i.fmt) \in SUBSET (0..9)
    BY DEF Classes
  <2>3. x' \in IntRegisters
    BY <2>1, <2>2 DEF IntRegisters
  <2>. QED
    BY <1>1, <2>1, <2>3 DEF State, TypeOK, Flags
<1>4. CASE MoveOut(i)
  <2>1. LowHalf(fregs[i.rs1]) \in Values("S")
    BY <1>2, RegisterIs, OneAndZero DEF LowHalf, Formats
  <2>2. x' \in {[word |-> LowHalf(fregs[i.rs1])], [doubleword |-> fregs[i.rs1]]}
        /\ fregs' = fregs /\ fflags' = fflags /\ excepts' = {}
    BY <1>4, AccruesNothing DEF MoveOut
  <2>3. x' \in IntRegisters
    BY <1>2, <2>1, <2>2 DEF IntRegisters
  <2>. QED
    BY <1>1, <2>2, <2>3 DEF State, TypeOK
<1>5. CASE MoveIn(i)
  <2>1. x' = x /\ fflags' = fflags /\ excepts' = {}
    BY <1>5, AccruesNothing DEF MoveIn
  <2>2. CASE i.fmt = "S"
    <3>1. "word" \in DOMAIN x /\ WriteFreg(i, x.word)
      BY <1>5, <2>2 DEF MoveIn
    <3>2. x.word \in Values(i.fmt)
      BY <2>2, <3>1 DEF TypeOK, IntRegisters
    <3>3. fregs' \in [FRegs -> Registers]
      BY <3>1, <3>2, WritesRegister DEF TypeOK
    <3>. QED
      BY <1>1, <2>1, <3>3 DEF State, TypeOK
  <2>3. CASE i.fmt = "D"
    <3>1. "doubleword" \in DOMAIN x /\ fregs' = [fregs EXCEPT ![i.rd] = x.doubleword]
      BY <1>5, <2>3 DEF MoveIn
    <3>2. x.doubleword \in Registers
      BY <3>1 DEF TypeOK, IntRegisters
    <3>3. fregs' \in [FRegs -> Registers]
      BY <3>1, <3>2 DEF TypeOK
    <3>. QED
      BY <1>1, <2>1, <3>3 DEF State, TypeOK
  <2>. QED
    BY <2>2, <2>3 DEF Formats
<1>. QED
  BY <1>3, <1>4, <1>5

\* Types after a refusal, an undefined instruction or a write to fcsr.
LEMMA OtherTypes ==
    ASSUME TypeOK, NEW i \in Insns, Refuse(i) \/ Undefined(i) \/ WriteFcsr(i)
    PROVE  State'
<1>1. CASE Refuse(i)
  BY <1>1, Accrues DEF Refuse, Illegal, State, TypeOK
<1>2. CASE Undefined(i)
  BY <1>2, AppliedIs, Accrues DEF Undefined, Rounding, Illegal, State, TypeOK
<1>3. CASE WriteFcsr(i)
  <2>1. i.op = "CSR"
    BY <1>3 DEF WriteFcsr, Begin
  <2>2. i.flags \subseteq Flags
    BY <2>1, InsnIs
  <2>. QED
    BY <1>3, <2>2 DEF WriteFcsr, Done, State, TypeOK
<1>. QED
  BY <1>1, <1>2, <1>3

\* Every step keeps the types.
LEMMA TypesKept == TypeOK /\ [Next]_vars => TypeOK'
<1>1. SUFFICES ASSUME TypeOK, [Next]_vars PROVE TypeOK'
  OBVIOUS
<1>2. CASE UNCHANGED vars
  BY <1>1, <1>2 DEF TypeOK, vars
<1>3. ASSUME NEW i \in Insns,
             \/ Refuse(i) \/ Compare(i) \/ InjectSign(i) \/ MinMax(i)
             \/ Compute(i) \/ FToF(i) \/ XToF(i) \/ FToX(i)
             \/ Classify(i) \/ MoveOut(i) \/ MoveIn(i) \/ Undefined(i)
             \/ Fmadd(i) \/ WriteFcsr(i)
      PROVE  TypeOK'
  <2>1. /\ insn' = i /\ left > 0 /\ left' = left - 1 /\ fs' = fs
        /\ Refuse(i) \/ Undefined(i) \/ Carries(i)
        /\ i.op # "CSR" => frm' = frm
        /\ Carries(i) /\ i.op # "CSR" => Allowed(i)
    BY <1>3, StepIs
  <2>2. State'
    <3>1. CASE Refuse(i) \/ Undefined(i) \/ WriteFcsr(i)
      BY <1>1, <3>1, OtherTypes
    <3>2. CASE Carries(i) /\ i.op # "CSR"
      <4>1. i.fmt \in Formats
        BY <2>1, <3>2 DEF Allowed
      <4>. QED
        BY <1>1, <3>2, <4>1, CompareTypes, InjectSignTypes, MinMaxTypes, ComputeTypes,
           ConversionTypes, ToIntegerTypes, MoveTypes DEF Carries
    <3>3. Carries(i) /\ i.op = "CSR" => WriteFcsr(i)
      BY DEF Carries, Arithmetic, FusedOps
    <3>. QED
      BY <2>1, <3>1, <3>2, <3>3
  <2>3. frm' \in 0..7
    <3>1. CASE i.op = "CSR"
      <4>1. WriteFcsr(i) \/ frm' = frm
        BY <2>1, <3>1 DEF Carries, Arithmetic, FusedOps, Refuse, Undefined, Rounding, Execute
      <4>2. i.frm \in 0..7
        BY <3>1, InsnIs
      <4>. QED
        BY <1>1, <4>1, <4>2 DEF WriteFcsr, TypeOK
    <3>. QED
      BY <1>1, <2>1, <3>1 DEF TypeOK
  <2>4. left' \in Nat /\ fs' \in BOOLEAN /\ insn' \in Insns
    BY <1>1, <2>1 DEF TypeOK
  <2>. QED
    BY <2>2, <2>3, <2>4 DEF State, TypeOK
<1>. QED
  BY <1>1, <1>2, <1>3 DEF Next

\* Whatever mixture of single and double instructions a hart executes, each register holds
\* a value of a format, the integer register a sign-extended integer, and fcsr its fields
\* (cpu/rv_impl/float.c).
THEOREM FloatTypeCorrect == Spec => []TypeOK
<1>1. Init => TypeOK
  <2>1. SUFFICES ASSUME Init PROVE TypeOK
    OBVIOUS
  <2>2. PICK s \in Starts : fregs = s.fregs /\ x = s.x /\ frm = s.frm /\ fs = s.fs
                            /\ excepts = s.excepts /\ left = s.insns
    BY <2>1 DEF Init
  <2>3. /\ s.fregs \in [FRegs -> Registers] /\ s.x \in IntRegisters
        /\ s.frm \in 0..7 /\ s.fs \in BOOLEAN /\ s.excepts \subseteq Flags /\ s.insns \in Nat
    BY FloatAssumption
  <2>4. fflags = {} /\ host = "RNE" /\ insn = [op |-> "RESET"] /\ outcome = "none"
    BY <2>1 DEF Init
  <2>. QED
    BY <2>2, <2>3, <2>4 DEF TypeOK, Modes, Flags
<1>. QED
  BY <1>1, TypesKept, PTL DEF Spec

-----------------------------------------------------------------------------
(* Rounding and flags                                                      *)

\* What an arithmetic instruction leaves: its result, canonized or not, and its flags.
LEMMA ComputedIs ==
    ASSUME TypeOK, [Next]_vars, Executes(Arithmetic \cup FusedOps)
    PROVE  /\ insn' \in Insns /\ insn'.fmt \in Formats /\ frm' = frm
           /\ \E nan \in HostNans :
                \E res \in {Computed(insn', host', nan), GuestFused(insn', host', nan)} :
                  /\ Fine(insn', host', nan, res) /\ fflags' = fflags \cup res.flags
                  /\ \/ insn'.op \in Arithmetic /\ Written = Canonized(res.val)
                     \/ insn'.op \in FusedOps /\ Written = res.val
           /\ host' = Applied(insn') /\ host' \in Modes
<1>1. PICK i \in Insns : i = insn'
  BY ExecutedIs
<1>2. /\ i.op \in Arithmetic \cup FusedOps /\ Carries(i)
      /\ i.op # "CSR" => frm' = frm /\ fs /\ i.fmt \in Formats
  BY <1>1, ExecutedIs
<1>3. i.op # "CSR" /\ ((Compute(i) /\ i.op \in Arithmetic) \/ (Fmadd(i) /\ i.op \in FusedOps))
  BY <1>2 DEF Carries, Arithmetic, FusedOps
<1>4. i.rd \in FRegs /\ i.fmt \in Formats /\ frm' = frm
  BY <1>2, <1>3, InsnIs
<1>5. host' = Applied(i) /\ host' \in Modes
  BY <1>3, AppliedIs DEF Compute, Fmadd, Rounding
<1>6. fregs \in [FRegs -> Registers]
  BY DEF TypeOK
<1>7. CASE Compute(i) /\ i.op \in Arithmetic
  <2>1. PICK nan \in HostNans : /\ WriteFreg(i, Canonized(Computed(i, host', nan).val))
                                /\ Accrue(i, Computed(i, host', nan).flags)
    BY <1>7 DEF Compute
  <2>2. Written = Canonized(Computed(i, host', nan).val)
    BY <1>1, <1>4, <1>6, <2>1, WrittenIs
  <2>3. Fine(i, host', nan, Computed(i, host', nan))
    BY <1>4, <1>5, <1>7, OperationIsFine
  <2>. QED
    BY <1>1, <1>4, <1>5, <1>7, <2>1, <2>2, <2>3, Accrues
<1>8. CASE Fmadd(i) /\ i.op \in FusedOps
  <2>1. PICK nan \in HostNans : LET res == GuestFused(i, host', nan)
                                IN  /\ WriteFreg(i, res.val)
                                    /\ fflags' = fflags \cup res.flags
    BY <1>8, FmaddLeaves
  <2>2. Written = GuestFused(i, host', nan).val
    BY <1>1, <1>4, <1>6, <2>1, WrittenIs
  <2>3. Fine(i, host', nan, GuestFused(i, host', nan))
    BY <1>4, <1>5, <1>8, OperationIsFine
  <2>. QED
    BY <1>1, <1>4, <1>5, <1>8, <2>1, <2>2, <2>3
<1>. QED
  BY <1>3, <1>7, <1>8

\* rv_float_op_fp and rv_float_fmadd: what is computed is the exact result rounded the way
\* the instruction's rounding mode field or fcsr.frm asks, whatever mode apply_frm left the
\* host in before.
THEOREM RoundingIsAsked == Spec => RoundsAsAsked
<1>1. ASSUME TypeOK, [Next]_vars, Executes(Arithmetic \cup FusedOps), Computable(insn'),
             Asked(insn') \in 0..3, Written.is = "finite"
      PROVE  RoundsTo(insn', Eighths(Written), Asked(insn'))
  <2>1. PICK i \in Insns : i = insn'
    BY <1>1, ComputedIs
  <2>2. i.fmt \in Formats /\ host' = Applied(i) /\ host' \in Modes
    BY <1>1, <2>1, ComputedIs
  <2>3. PICK nan \in HostNans :
          \E res \in {Computed(i, host', nan), GuestFused(i, host', nan)} :
             /\ Fine(i, host', nan, res)
             /\ Written = Canonized(res.val) \/ Written = res.val
    BY <1>1, <2>1, ComputedIs
  <2>4. PICK res \in {Computed(i, host', nan), GuestFused(i, host', nan)} :
             /\ Fine(i, host', nan, res)
             /\ Written = Canonized(res.val) \/ Written = res.val
    BY <2>3
  <2> DEFINE a == Asked(i)
  <2>5. a \in 0..3 /\ host' = ModeOf(a)
    BY <1>1, <2>1, <2>2, AppliedIs
  <2>6. res.val \in Values(i.fmt) /\ Rightly(i, host', res)
    BY <1>1, <2>1, <2>4 DEF Fine
  <2>7. Written = res.val
    <3>1. CASE IsNan(res.val)
      <4>1. Canonized(res.val) = Canonical /\ IsNan(Canonical)
        BY <3>1, NanOfEither DEF Canonized
      <4>. QED
        BY <1>1, <2>4, <3>1, <4>1 DEF IsNan
    <3>2. CASE ~IsNan(res.val)
      BY <2>4, <3>2 DEF Canonized
    <3>. QED
      BY <3>1, <3>2
  <2>. HIDE DEF a
  <2>8. RoundsTo(i, Eighths(res.val), a)
    <3>1. CASE \E neg \in BOOLEAN, n \in Nat, d \in Nat \ {0} :
                  Exact(i, neg, n, d) /\ res = Rounded(neg, n, d, i.fmt, host')
      <4>1. PICK neg \in BOOLEAN, n \in Nat, d \in Nat \ {0} :
                  Exact(i, neg, n, d) /\ res = Rounded(neg, n, d, i.fmt, ModeOf(a))
        BY <2>5, <3>1
      <4>2. Rounded(neg, n, d, i.fmt, ModeOf(a)).val.is = "finite"
        BY <1>1, <2>7, <4>1
      <4>. QED
        BY <2>2, <2>5, <4>1, <4>2, RoundsRight
    <3>2. CASE /\ \E d \in Nat \ {0} : Exact(i, FALSE, 0, d)
               /\ Eighths(res.val) = 0
      BY <2>2, <2>5, <3>2, ZeroRounds
    <3>. QED
      BY <2>6, <3>1, <3>2 DEF Rightly
  <2>. QED
    BY <2>1, <2>7, <2>8 DEF a
<1>2. TypeOK /\ [Next]_vars
        => [Executes(Arithmetic \cup FusedOps) /\ Computable(insn') /\ Asked(insn') \in 0..3
              => LET r == Written
                 IN  r.is = "finite" => RoundsTo(insn', Eighths(r), Asked(insn'))]_vars
  BY <1>1
<1>. QED
  BY <1>2, FloatTypeCorrect, PTL DEF Spec, RoundsAsAsked

\* A step of the conversion to an integer
LEMMA ConvertsToInteger ==
    ASSUME TypeOK, [Next]_vars, Executes({"FCVT_FTOX"})
    PROVE  /\ insn' \in Insns /\ insn'.fmt \in Formats /\ frm' = frm
           /\ Read(insn'.rs1, insn'.fmt) \in Values(insn'.fmt)
           /\ host' = Applied(insn') /\ host' \in Modes
           /\ LET res == ToInteger(insn', Read(insn'.rs1, insn'.fmt), host')
              IN  /\ x' = [int |-> SignedTo(res.val, Width(insn'))]
                  /\ fflags' = fflags \cup res.flags
<1>1. PICK i \in Insns : i = insn'
  BY ExecutedIs
<1>2. /\ i.op = "FCVT_FTOX" /\ Carries(i)
      /\ i.op # "CSR" => frm' = frm /\ fs /\ i.fmt \in Formats
  BY <1>1, ExecutedIs
<1>3. FToX(i) /\ i.rs1 \in FRegs /\ i.fmt \in Formats /\ frm' = frm
  BY <1>2, InsnIs DEF Carries, Arithmetic, FusedOps
<1>4. host' = Applied(i) /\ host' \in Modes
  BY <1>3, AppliedIs DEF FToX, Rounding
<1>5. Read(i.rs1, i.fmt) \in Values(i.fmt)
  BY <1>3, ReadIs
<1>6. LET res == ToInteger(i, Read(i.rs1, i.fmt), host')
      IN  /\ x' = [int |-> SignedTo(res.val, Width(i))]
          /\ fflags' = fflags \cup res.flags
  BY <1>3, FToXLeaves
<1>. QED
  BY <1>1, <1>3, <1>4, <1>5, <1>6

\* No instruction but a write to fcsr takes a flag away.
LEMMA FlagsStay ==
    ASSUME TypeOK, [Next]_vars, Executes(FloatOps)
    PROVE  fflags \subseteq fflags'
<1>1. PICK i \in Insns : i = insn'
  BY ExecutedIs
<1>2. i.op \in FloatOps /\ Carries(i)
  BY <1>1, ExecutedIs
<1>3. i.op # "CSR"
  BY <1>2 DEF FloatOps, Arithmetic, FusedOps
<1>. QED
  BY <1>2, <1>3 DEF Carries, Compare, InjectSign, MinMax, Compute, FToF, XToF, FToX,
     Classify, MoveOut, MoveIn, Fmadd, Accrue

\* Comparisons, minima and maxima: at most the invalid flag, and only for a NaN.
LEMMA ComparedFlags ==
    ASSUME TypeOK, [Next]_vars, Executes({"EQ_LE_LT", "MIN_MAX"})
    PROVE  fflags' \ fflags \subseteq
             IF \E v \in Operands(insn') : IsNan(v) THEN {"NV"} ELSE {}
<1>1. PICK i \in Insns : i = insn'
  BY ExecutedIs
<1>2. i.op \in {"EQ_LE_LT", "MIN_MAX"} /\ Carries(i) /\ outcome' = "done"
  BY <1>1, ExecutedIs DEF Executes
<1> DEFINE a == Read(i.rs1, i.fmt)
           b == Read(i.rs2, i.fmt)
           nan == IsNan(a) \/ IsNan(b)
<1>3. Operands(i) = {a, b}
  BY <1>2 DEF Operands, FusedOps
<1>4. CASE i.op = "EQ_LE_LT"
  <2> DEFINE res == CASE i.funct3 = 2 -> Equal(a, b)
                      [] i.funct3 = 1 -> Less(a, b)
                      [] OTHER -> LessOrEqual(a, b)
  <2>1. Compare(i)
    BY <1>2, <1>4 DEF Carries, Arithmetic, FusedOps
  <2>2. fflags' = fflags \cup res.flags
    BY <1>2, <2>1, Accrues DEF Compare, Illegal
  <2>. HIDE DEF a, b
  <2>3. res \in {Equal(a, b), Less(a, b), LessOrEqual(a, b)}
    OBVIOUS
  <2>4. \A r \in {Equal(a, b), Less(a, b), LessOrEqual(a, b)} :
            r.flags \subseteq IF nan THEN {"NV"} ELSE {}
    BY DEF Equal, Less, LessOrEqual, IsSnan, IsNan
  <2>. HIDE DEF res
  <2>. QED
    BY <1>1, <1>3, <2>2, <2>3, <2>4
<1>5. CASE i.op = "MIN_MAX"
  <2>1. MinMax(i)
    BY <1>2, <1>5 DEF Carries, Arithmetic, FusedOps
  <2>2. fflags' = fflags \cup IF IsSnan(a) \/ IsSnan(b) THEN {"NV"} ELSE {}
    BY <2>1 DEF MinMax
  <2>3. IsSnan(a) \/ IsSnan(b) => nan
    BY DEF IsSnan, IsNan
  <2>. HIDE DEF a, b
  <2>. QED
    BY <1>1, <1>3, <2>2, <2>3
<1>. QED
  BY <1>2, <1>4, <1>5

\* Bits that are moved raise nothing.
LEMMA MovedFlags ==
    ASSUME TypeOK, [Next]_vars, Executes({"SGNJ", "MVFX", "MVXF_CLASS"})
    PROVE  fflags' = fflags \/ (insn'.op = "MVXF_CLASS" /\ insn'.funct3 = 1)
<1>1. PICK i \in Insns : i = insn'
  BY ExecutedIs
<1>2. i.op \in {"SGNJ", "MVFX", "MVXF_CLASS"} /\ Carries(i)
  BY <1>1, ExecutedIs
<1>3. \/ InjectSign(i) \/ MoveIn(i) \/ MoveOut(i)
      \/ i.op = "MVXF_CLASS" /\ i.funct3 = 1
  BY <1>2 DEF Carries, Arithmetic, FusedOps
<1>. QED
  BY <1>1, <1>3, AccruesNothing DEF InjectSign, MoveIn, MoveOut

\* The flags of a result that is rounded rightly
LEMMA RightFlags ==
    ASSUME NEW i, i.fmt \in Formats, NEW mode \in Modes, NEW res, Rightly(i, mode, res),
           res.val \in Values(i.fmt)
    PROVE  /\ "NX" \in res.flags <=> res.val.is = "inf" \/ Excess(i, Eighths(res.val)) # 0
           /\ res.val.is = "inf" => "OF" \in res.flags
           /\ res.flags \subseteq {"OF", "UF", "NX"}
           /\ ~IsNan(res.val)
<1>1. CASE \E neg \in BOOLEAN, n \in Nat, d \in Nat \ {0} :
              Exact(i, neg, n, d) /\ res = Rounded(neg, n, d, i.fmt, mode)
  <2>1. PICK neg \in BOOLEAN, n \in Nat, d \in Nat \ {0} :
              Exact(i, neg, n, d) /\ res = Rounded(neg, n, d, i.fmt, mode)
    BY <1>1
  <2>2. /\ "NX" \in Rounded(neg, n, d, i.fmt, mode).flags
             <=> \/ Rounded(neg, n, d, i.fmt, mode).val.is = "inf"
                 \/ Excess(i, Eighths(Rounded(neg, n, d, i.fmt, mode).val)) # 0
        /\ Rounded(neg, n, d, i.fmt, mode).val.is = "inf"
             => "OF" \in Rounded(neg, n, d, i.fmt, mode).flags
    BY <2>1, FlagsRight, Zenon
  <2>3. Rounded(neg, n, d, i.fmt, mode).flags \subseteq {"OF", "UF", "NX"}
    BY RoundedType, Zenon
  <2>4. ~IsNan(Rounded(neg, n, d, i.fmt, mode).val)
    BY RoundedValue
  <2>. QED
    BY <2>1, <2>2, <2>3, <2>4
<1>2. CASE /\ \E d \in Nat \ {0} : Exact(i, FALSE, 0, d)
           /\ res.val.is = "finite" /\ Eighths(res.val) = 0 /\ res.flags = {}
  <2>1. Excess(i, 0) = 0
    <3>1. PICK d \in Nat \ {0} : Exact(i, FALSE, 0, d)
      BY <1>2
    <3>. QED
      BY <3>1, ZeroRounds, 0 \in 0..3
  <2>. QED
    BY <1>2, <2>1 DEF IsNan
<1>. QED
  BY <1>1, <1>2 DEF Rightly

\* check_fflags after arithmetic: the flags that are gained, for a number and otherwise.
LEMMA ComputedFlags ==
    ASSUME TypeOK, [Next]_vars, Executes(Arithmetic \cup FusedOps)
    PROVE  /\ Computable(insn') =>
                /\ "NX" \in fflags' <=> \/ Written.is = "inf"
                                        \/ Excess(insn', Eighths(Written)) # 0
                                        \/ "NX" \in fflags
                /\ Written.is = "inf" => "OF" \in fflags'
                /\ fflags' \ fflags \subseteq {"OF", "UF", "NX"}
           /\ ~Computable(insn') => fflags' \ fflags \subseteq {"NV", "DZ"}
<1>1. PICK i \in Insns : i = insn'
  BY ComputedIs
<1>2. i.fmt \in Formats /\ host' \in Modes
  BY <1>1, ComputedIs
<1>3. PICK nan \in HostNans :
        \E res \in {Computed(i, host', nan), GuestFused(i, host', nan)} :
           /\ Fine(i, host', nan, res) /\ fflags' = fflags \cup res.flags
           /\ Written = Canonized(res.val) \/ Written = res.val
  BY <1>1, ComputedIs
<1>4. PICK res \in {Computed(i, host', nan), GuestFused(i, host', nan)} :
           /\ Fine(i, host', nan, res) /\ fflags' = fflags \cup res.flags
           /\ Written = Canonized(res.val) \/ Written = res.val
  BY <1>3
<1>5. ASSUME Computable(i)
      PROVE  /\ "NX" \in fflags' <=> \/ Written.is = "inf"
                                     \/ Excess(i, Eighths(Written)) # 0
                                     \/ "NX" \in fflags
             /\ Written.is = "inf" => "OF" \in fflags'
             /\ fflags' \ fflags \subseteq {"OF", "UF", "NX"}
  <2>1. Rightly(i, host', res) /\ res.val \in Values(i.fmt)
    BY <1>4, <1>5 DEF Fine
  <2>2. /\ "NX" \in res.flags <=> res.val.is = "inf" \/ Excess(i, Eighths(res.val)) # 0
        /\ res.val.is = "inf" => "OF" \in res.flags
        /\ res.flags \subseteq {"OF", "UF", "NX"}
        /\ ~IsNan(res.val)
    BY <1>2, <2>1, RightFlags
  <2>3. Written = res.val
    BY <1>4, <2>2 DEF Canonized
  <2>. QED
    BY <1>4, <2>2, <2>3
<1>6. ~Computable(i) => fflags' \ fflags \subseteq {"NV", "DZ"}
  BY <1>4 DEF Fine
<1>. QED
  BY <1>1, <1>5, <1>6

\* feclearexcept, check_fflags and FTOX_HELPER: whatever exceptions the thread has when an
\* instruction begins, the guest's flags gain what that instruction raised and nothing else:
\* inexact exactly where the result is not the exact one, invalid alone from a failed
\* conversion, nothing from numbers that are compared and bits that are moved.
THEOREM FlagsCorrect == Spec => FlagsAreExact
<1>1. ASSUME TypeOK, [Next]_vars, Executes(Arithmetic \cup FusedOps), Computable(insn')
      PROVE  LET r == Written
                 inexact == r.is = "inf" \/ Excess(insn', Eighths(r)) # 0
             IN  /\ ("NX" \in fflags') = (inexact \/ "NX" \in fflags)
                 /\ r.is = "inf" => "OF" \in fflags'
                 /\ fflags' \ fflags \subseteq {"OF", "UF", "NX"}
  BY <1>1, ComputedFlags
<1>2. ASSUME TypeOK, [Next]_vars, Executes({"FCVT_FTOX"})
      PROVE  /\ Cardinality(fflags' \ fflags) <= 1
             /\ fflags' \ fflags \subseteq {"NV", "NX"}
  <2> DEFINE res == ToInteger(insn', Read(insn'.rs1, insn'.fmt), host')
  <2>1. fflags' = fflags \cup res.flags
    BY <1>2, ConvertsToInteger
  <2>2. res.flags \in {{}, {"NV"}, {"NX"}}
    BY <1>2, ConvertsToInteger, ToIntegerIs
  <2>. HIDE DEF res
  <2>3. fflags' \ fflags \in {{}, {"NV"}, {"NX"}}
    BY <2>1, <2>2
  <2>4. Cardinality({}) = 0 /\ Cardinality({"NV"}) = 1 /\ Cardinality({"NX"}) = 1
    BY FS_EmptySet, FS_Singleton
  <2>. QED
    BY <2>3, <2>4
<1>3. TypeOK /\ [Next]_vars
        => [/\ Executes(FloatOps) => fflags \subseteq fflags'
            /\ Executes(Arithmetic \cup FusedOps) /\ Computable(insn')
                 => LET r == Written
                        inexact == r.is = "inf" \/ Excess(insn', Eighths(r)) # 0
                    IN  /\ ("NX" \in fflags') = (inexact \/ "NX" \in fflags)
                        /\ r.is = "inf" => "OF" \in fflags'
                        /\ fflags' \ fflags \subseteq {"OF", "UF", "NX"}
            /\ Executes(Arithmetic \cup FusedOps) /\ ~Computable(insn')
                 => fflags' \ fflags \subseteq {"NV", "DZ"}
            /\ Executes({"FCVT_FTOX"})
                 => /\ Cardinality(fflags' \ fflags) <= 1
                    /\ fflags' \ fflags \subseteq {"NV", "NX"}
            /\ Executes({"EQ_LE_LT", "MIN_MAX"})
                 => fflags' \ fflags \subseteq
                      IF \E v \in Operands(insn') : IsNan(v) THEN {"NV"} ELSE {}
            /\ Executes({"SGNJ", "MVFX", "MVXF_CLASS"})
                 => \/ fflags' = fflags
                    \/ insn'.op = "MVXF_CLASS" /\ insn'.funct3 = 1]_vars
  BY <1>1, <1>2, FlagsStay, ComputedFlags, ComparedFlags, MovedFlags
<1>. QED
  BY <1>3, FloatTypeCorrect, PTL DEF Spec, FlagsAreExact

\* FTOX_HELPER: a conversion to an integer gives the integer that the mode asks for, or the
\* nearest end of its type and the invalid flag; 32-bit results are sign-extended.
THEOREM ConversionsCorrect == Spec => ConversionsSaturate
<1>1. ASSUME TypeOK, [Next]_vars, Executes({"FCVT_FTOX"}), Asked(insn') \in 0..3
      PROVE  LET v == Read(insn'.rs1, insn'.fmt)
                 n == Nearest(Eighths(v), Asked(insn'))
                 end == IF ~IsNan(v) /\ v.neg THEN Low(insn') ELSE High(insn')
                 got == IF IsUnsigned(insn') THEN x'.int % 2^Width(insn') ELSE x'.int
             IN  IF v.is = "finite" /\ n \in Low(insn')..High(insn')
                 THEN got = n
                 ELSE got = end /\ "NV" \in fflags'
  <2>1. PICK i \in Insns : i = insn'
    BY <1>1, ConvertsToInteger
  <2> DEFINE v == Read(i.rs1, i.fmt)
             n == Nearest(Eighths(v), Asked(i))
             end == IF ~IsNan(v) /\ v.neg THEN Low(i) ELSE High(i)
             p == Pow(Width(i))
             got == IF IsUnsigned(i) THEN x'.int % p ELSE x'.int
             res == ToInteger(i, v, host')
             s == SignedTo(res.val, Width(i))
  <2>2. /\ i.fmt \in Formats /\ v \in Values(i.fmt) /\ host' = Applied(i) /\ host' \in Modes
        /\ x' = [int |-> s] /\ fflags' = fflags \cup res.flags
    BY <1>1, <2>1, ConvertsToInteger
  <2>3. host' = ModeOf(Asked(i)) /\ Asked(i) \in 0..3
    BY <1>1, <2>1, <2>2, AppliedIs
  <2>. HIDE DEF v
  <2>4. v.is = "finite" => Rint(v, host') = n
    BY <2>2, <2>3, RintIs
  <2>5. v.neg \in BOOLEAN
    BY <2>2, ValueFields
  <2>6. /\ res.val \in Low(i)..High(i)
        /\ IF v.is = "finite" /\ Rint(v, host') \in Low(i)..High(i)
           THEN res.val = Rint(v, host')
           ELSE /\ res.flags = {"NV"}
                /\ IsNan(v) \/ ~v.neg => res.val = High(i)
                /\ ~IsNan(v) /\ v.neg => res.val = Low(i)
    BY <2>2, ToIntegerIs
  <2>. HIDE DEF res, n
  <2>7. got = res.val
    <3> DEFINE k == res.val
    <3>1. k \in Int
      BY <2>6, EndsAre
    <3>2. x'.int = s
      BY <2>2
    <3>3. CASE IsUnsigned(i)
      <4>1. k \in 0..(p - 1) /\ p \in Nat \ {0}
        BY <2>6, <3>3, EndsAre, WidthIs
      <4>2. s % p = k % p
        BY <3>1, SignedToIs
      <4>. HIDE DEF k, p, s
      <4>3. k % p = k
        <5>1. k = p * 0 + k
          BY <4>1
        <5>. QED
          BY <4>1, <5>1, RemainderIsUnique
      <4>. QED
        BY <3>2, <3>3, <4>2, <4>3 DEF k
    <3>4. CASE ~IsUnsigned(i)
      <4>1. k \in Signeds(Width(i) - 1)
        BY <2>6, <3>4, EndsAre DEF Signeds
      <4>2. s = k
        BY <3>1, <4>1, SignedToIs
      <4>. QED
        BY <3>2, <3>4, <4>2
    <3>. QED
      BY <3>3, <3>4
  <2>. HIDE DEF got
  <2>8. IF v.is = "finite" /\ n \in Low(i)..High(i)
        THEN got = n ELSE got = end /\ "NV" \in fflags'
    BY <2>2, <2>4, <2>5, <2>6, <2>7
  <2>. QED
    BY <2>1, <2>8 DEF v, n, got, Pow
<1>2. TypeOK /\ [Next]_vars
        => [Executes({"FCVT_FTOX"}) /\ Asked(insn') \in 0..3
              => LET v == Read(insn'.rs1, insn'.fmt)
                     n == Nearest(Eighths(v), Asked(insn'))
                     end == IF ~IsNan(v) /\ v.neg THEN Low(insn') ELSE High(insn')
                     got == IF IsUnsigned(insn') THEN x'.int % 2^Width(insn') ELSE x'.int
                 IN  IF v.is = "finite" /\ n \in Low(insn')..High(insn')
                     THEN got = n
                     ELSE got = end /\ "NV" \in fflags']_vars
  BY <1>1
<1>. QED
  BY <1>2, FloatTypeCorrect, PTL DEF Spec, ConversionsSaturate

-----------------------------------------------------------------------------
(* NaNs, minima and maxima, classes                                        *)

\* CANON_NAN_F32 and CANON_NAN_F64: whatever NaN the host computes, the register gets the
\* canonical one.
THEOREM NansCorrect == Spec => NansAreCanonical
<1>1. ASSUME TypeOK, [Next]_vars, Executes(Arithmetic \cup {"FCVT_FTOF", "FCVT_XTOF"}),
             IsNan(Written)
      PROVE  Written = Canonical
  <2>1. PICK i \in Insns : i = insn'
    BY <1>1, ExecutedIs
  <2>2. /\ i.op \in Arithmetic \cup {"FCVT_FTOF", "FCVT_XTOF"} /\ Carries(i)
        /\ i.op # "CSR" => frm' = frm /\ fs /\ i.fmt \in Formats
    BY <1>1, <2>1, ExecutedIs
  <2>3. /\ i.op # "CSR" /\ i.fmt \in Formats /\ i.rd \in FRegs
        /\ Compute(i) \/ FToF(i) \/ XToF(i)
    BY <2>2, InsnIs DEF Carries, Arithmetic, FusedOps
  <2>4. fregs \in [FRegs -> Registers]
    BY <1>1 DEF TypeOK
  <2>5. CASE Compute(i) \/ FToF(i)
    <3>1. \E v : WriteFreg(i, Canonized(v))
      BY <2>5 DEF Compute, FToF
    <3>2. PICK v : Written = Canonized(v)
      BY <2>1, <2>3, <2>4, <3>1, WrittenIs
    <3>. QED
      BY <1>1, <3>2 DEF Canonized
  <2>6. CASE XToF(i)
    <3> DEFINE n == Source(i)
               res == Rounded(n < 0, (IF n < 0 THEN -n ELSE n) * One, 1, i.fmt, host')
    <3>1. WriteFreg(i, res.val) /\ "int" \in DOMAIN x /\ host' \in Modes
      BY <1>1, <2>6, AppliedIs DEF XToF, Rounding
    <3>2. n \in Int
      BY <1>1, <3>1, SourceIs
    <3>3. ~IsNan(res.val)
      BY <2>3, <3>1, <3>2, FromIntegerIs
    <3>. HIDE DEF res
    <3>4. Written = res.val
      BY <2>1, <2>3, <2>4, <3>1, WrittenIs
    <3>. QED
      BY <1>1, <3>3, <3>4
  <2>. QED
    BY <2>3, <2>5, <2>6
<1>2. TypeOK /\ [Next]_vars
        => [Executes(Arithmetic \cup {"FCVT_FTOF", "FCVT_XTOF"})
              => (IsNan(Written) => Written = Canonical)]_vars
  BY <1>1
<1>. QED
  BY <1>2, FloatTypeCorrect, PTL DEF Spec, NansAreCanonical

\* The rank of what is not a NaN is an integer, zero for both zeros.
LEMMA RankIs ==
    ASSUME NEW fmt \in Formats, NEW v \in Values(fmt), ~IsNan(v)
    PROVE  /\ Rank(v) \in Int
           /\ IsZero(v) => Rank(v) = 0 /\ v \in {Finite(FALSE, 0), Finite(TRUE, 0)}
<1>1. v.is \in {"inf", "finite"}
  BY ValueFields DEF IsNan
<1>2. CASE v.is = "inf"
  BY <1>2 DEF Rank, IsZero
<1>3. CASE v.is = "finite"
  <2>1. Rank(v) = Eighths(v)
    BY <1>3 DEF Rank
  <2>2. v = Finite(v.neg, v.mag) /\ v.neg \in BOOLEAN
    BY <1>3, ValueFields
  <2>3. IsZero(v) => v.mag = 0
    BY DEF IsZero
  <2>. QED
    BY <1>3, <2>1, <2>2, <2>3, NumberIs
<1>. QED
  BY <1>1, <1>2, <1>3

\* The least or the greatest of a and b that is a number, two zeros set apart
IsExtreme(a, b, isMin, r) ==
    LET numbers == {v \in {a, b} : ~IsNan(v)}
    IN  IF numbers = {} THEN r = Canonical
        ELSE /\ IF IsZero(a) /\ IsZero(b) THEN r = Finite(isMin, 0) ELSE r \in numbers
             /\ \A v \in numbers : IF isMin THEN Rank(r) <= Rank(v) ELSE Rank(r) >= Rank(v)

\* The minimum or maximum of two operands is ordered as it should be.
LEMMA ExtremeOrders ==
    ASSUME NEW fmt \in Formats, NEW a \in Values(fmt), NEW b \in Values(fmt),
           NEW isMin \in BOOLEAN
    PROVE  IsExtreme(a, b, isMin, Extreme(a, b, isMin))
<1> DEFINE numbers == {v \in {a, b} : ~IsNan(v)}
           r == Extreme(a, b, isMin)
           zeros == IsZero(a) /\ IsZero(b)
<1>1. zeros => ~IsNan(a) /\ ~IsNan(b)
  BY DEF IsZero, IsNan
<1>. SUFFICES IF numbers = {} THEN r = Canonical
              ELSE /\ IF zeros THEN r = Finite(isMin, 0) ELSE r \in numbers
                   /\ \A v \in numbers : IF isMin THEN Rank(r) <= Rank(v)
                                                  ELSE Rank(r) >= Rank(v)
  BY DEF IsExtreme
<1>2. CASE IsNan(a) /\ IsNan(b)
  <2>1. r = Canonical /\ numbers = {}
    BY <1>2 DEF Extreme, IsNan, IsZero
  <2>. QED
    BY <2>1
<1>3. CASE (IsNan(a) /\ ~IsNan(b)) \/ (~IsNan(a) /\ IsNan(b))
  <2>1. PICK v \in {a, b} : r = v /\ numbers = {v} /\ ~IsNan(v)
    BY <1>3 DEF Extreme, IsNan, IsZero
  <2>2. Rank(v) \in Int /\ ~zeros
    BY <1>1, <1>3, <2>1, RankIs
  <2>. HIDE DEF r, numbers, zeros
  <2>. QED
    BY <2>1, <2>2
<1>4. CASE zeros
  <2>1. r = Finite(isMin, 0)
    BY <1>1, <1>4 DEF Extreme
  <2>2. numbers = {a, b} /\ Rank(a) = 0 /\ Rank(b) = 0
    BY <1>1, <1>4, RankIs
  <2>3. Rank(Finite(isMin, 0)) = 0
    <3>1. Finite(isMin, 0).is = "finite" /\ Eighths(Finite(isMin, 0)) = 0
      BY OneAndZero
    <3>. QED
      BY <3>1, FiniteFields DEF Rank
  <2>. HIDE DEF r, numbers, zeros
  <2>. QED
    BY <1>4, <2>1, <2>2, <2>3
<1>5. CASE ~IsNan(a) /\ ~IsNan(b) /\ ~zeros
  <2>1. r = IF isMin THEN HostLesser(a, b) ELSE HostGreater(a, b)
    BY <1>5 DEF Extreme
  <2>2. numbers = {a, b} /\ Rank(a) \in Int /\ Rank(b) \in Int
    BY <1>5, RankIs
  <2>3. /\ r \in {a, b}
        /\ isMin => Rank(r) <= Rank(a) /\ Rank(r) <= Rank(b)
        /\ ~isMin => Rank(r) >= Rank(a) /\ Rank(r) >= Rank(b)
    BY <2>1, <2>2 DEF HostLesser, HostGreater
  <2>. HIDE DEF r, numbers, zeros
  <2>. QED
    BY <1>5, <2>2, <2>3
<1>. QED
  BY <1>1, <1>2, <1>3, <1>4, <1>5

\* rv_float_op_fp, minimum and maximum: the register gets the operand that is the least or
\* the greatest of those that are numbers; of two zeros a minimum is the negative one and a
\* maximum the positive one, which need not be an operand.
THEOREM MinMaxCorrect == Spec => MinMaxOrders
<1>1. ASSUME TypeOK, [Next]_vars, Executes({"MIN_MAX"})
      PROVE  IsExtreme(Read(insn'.rs1, insn'.fmt), Read(insn'.rs2, insn'.fmt),
                       insn'.funct3 = 0, Written)
  <2>1. PICK i \in Insns : i = insn'
    BY <1>1, ExecutedIs
  <2>2. /\ i.op = "MIN_MAX" /\ Carries(i)
        /\ i.op # "CSR" => frm' = frm /\ fs /\ i.fmt \in Formats
    BY <1>1, <2>1, ExecutedIs
  <2>3. /\ MinMax(i) /\ i.fmt \in Formats
        /\ i.rd \in FRegs /\ i.rs1 \in FRegs /\ i.rs2 \in FRegs
    BY <2>2, InsnIs DEF Carries, Arithmetic, FusedOps, TwoOperands
  <2> DEFINE a == Read(i.rs1, i.fmt)
             b == Read(i.rs2, i.fmt)
             isMin == i.funct3 = 0
  <2>4. a \in Values(i.fmt) /\ b \in Values(i.fmt)
    BY <1>1, <2>3, ReadIs
  <2>5. WriteFreg(i, Extreme(a, b, isMin))
    BY <1>1, <2>3 DEF MinMax, Executes, Illegal
  <2>6. isMin \in BOOLEAN
    OBVIOUS
  <2>. HIDE DEF a, b, isMin
  <2>7. Written = Extreme(a, b, isMin)
    BY <1>1, <2>1, <2>3, <2>5, WrittenIs DEF TypeOK
  <2>8. IsExtreme(a, b, isMin, Extreme(a, b, isMin))
    BY <2>3, <2>4, <2>6, ExtremeOrders
  <2>. QED
    BY <2>1, <2>7, <2>8 DEF a, b, isMin
<1>2. TypeOK /\ [Next]_vars
        => [Executes({"MIN_MAX"})
              => LET a == Read(insn'.rs1, insn'.fmt)
                     b == Read(insn'.rs2, insn'.fmt)
                     numbers == {v \in {a, b} : ~IsNan(v)}
                     isMin == insn'.funct3 = 0
                 IN  IF numbers = {} THEN Written = Canonical
                     ELSE /\ IF IsZero(a) /\ IsZero(b) THEN Written = Finite(isMin, 0)
                             ELSE Written \in numbers
                          /\ \A v \in numbers : IF isMin THEN Rank(Written) <= Rank(v)
                                                         ELSE Rank(Written) >= Rank(v)]_vars
  BY <1>1 DEF IsExtreme
<1>. QED
  BY <1>2, FloatTypeCorrect, PTL DEF Spec, MinMaxOrders

-----------------------------------------------------------------------------
(* Classes, boxes and mstatus.FS                                           *)

\* fclass: every value has one class.
LEMMA ClassIs ==
    ASSUME NEW fmt \in Formats, NEW v \in Values(fmt)
    PROVE  \E n \in 0..9 : Classes(v, fmt) = {n}
<1>1. /\ v.is \in {"nan", "inf", "finite"} /\ v.neg \in BOOLEAN
      /\ v.is = "finite" => v.mag \in Nat
  BY ValueFields DEF Magnitudes
<1> DEFINE Chosen(n) ==
        CASE n \in {0, 7} -> v.is = "inf" /\ v.neg = (n = 0)
          [] n \in {1, 6} -> /\ v.is = "finite" /\ v.neg = (n = 1)
                             /\ ~IsZero(v) /\ ~Subnormal(v, fmt)
          [] n \in {2, 5} -> Subnormal(v, fmt) /\ v.neg = (n = 2)
          [] n \in {3, 4} -> IsZero(v) /\ v.neg = (n = 3)
          [] n = 8 -> IsSnan(v)
          [] n = 9 -> IsNan(v) /\ ~IsSnan(v)
<1>2. Classes(v, fmt) = {n \in 0..9 : Chosen(n)}
  BY DEF Classes
<1>3. /\ Chosen(0) <=> v.is = "inf" /\ v.neg
      /\ Chosen(7) <=> v.is = "inf" /\ ~v.neg
      /\ Chosen(1) <=> v.is = "finite" /\ v.neg /\ ~IsZero(v) /\ ~Subnormal(v, fmt)
      /\ Chosen(6) <=> v.is = "finite" /\ ~v.neg /\ ~IsZero(v) /\ ~Subnormal(v, fmt)
      /\ Chosen(2) <=> Subnormal(v, fmt) /\ v.neg
      /\ Chosen(5) <=> Subnormal(v, fmt) /\ ~v.neg
      /\ Chosen(3) <=> IsZero(v) /\ v.neg
      /\ Chosen(4) <=> IsZero(v) /\ ~v.neg
      /\ Chosen(8) <=> IsSnan(v)
      /\ Chosen(9) <=> IsNan(v) /\ ~IsSnan(v)
  BY <1>1
<1>4. /\ IsZero(v) => v.is = "finite" /\ ~Subnormal(v, fmt)
      /\ Subnormal(v, fmt) => v.is = "finite"
      /\ IsSnan(v) => IsNan(v)
      /\ IsNan(v) <=> v.is = "nan"
  BY DEF IsZero, Subnormal, IsSnan, IsNan
<1>. HIDE DEF Chosen
<1>5. \E n \in 0..9 : \A m \in 0..9 : Chosen(m) <=> m = n
  <2>1. CASE v.is = "inf" /\ v.neg
    <3>. WITNESS 0 \in 0..9
    <3>. QED
      BY <1>3, <1>4, <2>1
  <2>2. CASE v.is = "inf" /\ ~v.neg
    <3>. WITNESS 7 \in 0..9
    <3>. QED
      BY <1>3, <1>4, <2>2
  <2>3. CASE IsZero(v) /\ v.neg
    <3>. WITNESS 3 \in 0..9
    <3>. QED
      BY <1>3, <1>4, <2>3
  <2>4. CASE IsZero(v) /\ ~v.neg
    <3>. WITNESS 4 \in 0..9
    <3>. QED
      BY <1>3, <1>4, <2>4
  <2>5. CASE Subnormal(v, fmt) /\ v.neg
    <3>. WITNESS 2 \in 0..9
    <3>. QED
      BY <1>3, <1>4, <2>5
  <2>6. CASE Subnormal(v, fmt) /\ ~v.neg
    <3>. WITNESS 5 \in 0..9
    <3>. QED
      BY <1>3, <1>4, <2>6
  <2>7. CASE v.is = "finite" /\ ~IsZero(v) /\ ~Subnormal(v, fmt) /\ v.neg
    <3>. WITNESS 1 \in 0..9
    <3>. QED
      BY <1>3, <1>4, <2>7
  <2>8. CASE v.is = "finite" /\ ~IsZero(v) /\ ~Subnormal(v, fmt) /\ ~v.neg
    <3>. WITNESS 6 \in 0..9
    <3>. QED
      BY <1>3, <1>4, <2>8
  <2>9. CASE IsSnan(v)
    <3>. WITNESS 8 \in 0..9
    <3>. QED
      BY <1>3, <1>4, <2>9
  <2>10. CASE IsNan(v) /\ ~IsSnan(v)
    <3>. WITNESS 9 \in 0..9
    <3>. QED
      BY <1>3, <1>4, <2>10
  <2>. QED
    BY <1>1, <1>4, <2>1, <2>2, <2>3, <2>4, <2>5, <2>6, <2>7, <2>8, <2>9, <2>10
<1>. QED
  BY <1>2, <1>5

\* rv_float_mvxf_fclass: whatever value a register holds, fclass sets exactly one bit.
THEOREM ClassCorrect == Spec => []ClassIsUnique
<1>1. Init => ClassIsUnique
  <2>1. \A s \in Starts : "class" \in DOMAIN s.x => Cardinality(s.x.class) = 1
    BY FloatAssumption
  <2>. QED
    BY <2>1 DEF Init, ClassIsUnique
<1>2. ASSUME TypeOK, ClassIsUnique, [Next]_vars PROVE ClassIsUnique'
  <2>1. CASE x' = x
    BY <1>2, <2>1 DEF ClassIsUnique
  <2>2. CASE Next /\ x' # x
    <3>1. PICK i \in Insns :
             \/ Refuse(i) \/ Compare(i) \/ InjectSign(i) \/ MinMax(i)
             \/ Compute(i) \/ FToF(i) \/ XToF(i) \/ FToX(i)
             \/ Classify(i) \/ MoveOut(i) \/ MoveIn(i) \/ Undefined(i)
             \/ Fmadd(i) \/ WriteFcsr(i)
      BY <2>2 DEF Next
    <3>2. Compare(i) \/ FToX(i) \/ MoveOut(i) \/ Classify(i)
      BY <2>2, <3>1 DEF Refuse, Illegal, InjectSign, MinMax, Compute, FToF, XToF, MoveIn,
         Undefined, Fmadd, WriteFcsr
    <3>3. CASE Compare(i)
      <4>1. \E n : x' = [int |-> n]
        BY <2>2, <3>3 DEF Compare, Illegal
      <4>. QED
        BY <4>1 DEF ClassIsUnique
    <3>4. CASE FToX(i)
      <4>1. \E n : x' = [int |-> n]
        BY <3>4 DEF FToX
      <4>. QED
        BY <4>1 DEF ClassIsUnique
    <3>5. CASE MoveOut(i)
      <4>1. (\E v : x' = [word |-> v]) \/ (\E v : x' = [doubleword |-> v])
        BY <3>5 DEF MoveOut
      <4>. QED
        BY <4>1 DEF ClassIsUnique
    <3>6. CASE Classify(i)
      <4>1. i.op = "MVXF_CLASS" /\ i.fmt \in Formats
            /\ x' = [class |-> Classes(Read(i.rs1, i.fmt), i.fmt)]
        BY <3>6 DEF Classify, Rounding, Execute, Begin, Allowed
      <4>2. Read(i.rs1, i.fmt) \in Values(i.fmt)
        BY <1>2, <4>1, InsnIs, ReadIs
      <4>3. PICK n \in 0..9 : x'.class = {n}
        BY <4>1, <4>2, ClassIs
      <4>4. Cardinality({n}) = 1
        BY FS_Singleton
      <4>. QED
        BY <4>3, <4>4 DEF ClassIsUnique
    <3>. QED
      BY <3>2, <3>3, <3>4, <3>5, <3>6
  <2>. QED
    BY <1>2, <2>1, <2>2 DEF vars
<1>. QED
  BY <1>1, <1>2, FloatTypeCorrect, PTL DEF Spec

\* rv_float_op_fp and rv_float_fmadd while mstatus.FS is off, and every instruction that ends
\* in rv_do_iillegal: what an instruction that is refused may not touch.
THEOREM OffCorrect == Spec => OffTouchesNothing
<1>1. ASSUME [Next]_vars
      PROVE  /\ ~fs => UNCHANGED <<fregs, fflags, frm, host, x>>
             /\ outcome' = "illegal" => UNCHANGED <<fregs, x>>
  <2>1. CASE UNCHANGED vars
    BY <2>1 DEF vars
  <2>2. CASE Next
    <3>1. PICK i \in Insns :
             \/ Refuse(i) \/ Compare(i) \/ InjectSign(i) \/ MinMax(i)
             \/ Compute(i) \/ FToF(i) \/ XToF(i) \/ FToX(i)
             \/ Classify(i) \/ MoveOut(i) \/ MoveIn(i) \/ Undefined(i)
             \/ Fmadd(i) \/ WriteFcsr(i)
      BY <2>2 DEF Next
    <3>2. /\ Refuse(i) \/ Undefined(i) \/ Carries(i)
          /\ Carries(i) /\ i.op # "CSR" => Allowed(i)
      BY <3>1, StepIs
    <3>3. Carries(i) /\ i.op = "CSR" => WriteFcsr(i)
      BY DEF Carries, Arithmetic, FusedOps
    <3>4. ASSUME ~fs PROVE UNCHANGED <<fregs, fflags, frm, host, x>>
      <4>1. ~Allowed(i)
        BY <3>4 DEF Allowed
      <4>2. Refuse(i) \/ WriteFcsr(i)
        BY <3>2, <3>3, <4>1 DEF Undefined, Rounding, Execute
      <4>. QED
        BY <3>4, <4>2 DEF Refuse, Illegal, WriteFcsr
    <3>5. ASSUME outcome' = "illegal" PROVE UNCHANGED <<fregs, x>>
      <4>1. \/ Refuse(i) \/ Undefined(i) \/ WriteFcsr(i)
            \/ Compare(i) \/ InjectSign(i) \/ MinMax(i)
        BY <3>1, <3>5 DEF Compute, FToF, XToF, FToX, Classify, MoveOut, MoveIn, Fmadd, Done
      <4>. QED
        BY <3>5, <4>1 DEF Refuse, Undefined, WriteFcsr, Compare, InjectSign, MinMax,
           Illegal, Done
    <3>. QED
      BY <3>4, <3>5
  <2>. QED
    BY <1>1, <2>1, <2>2
<1>2. [Next]_vars
        => [/\ ~fs => UNCHANGED <<fregs, fflags, frm, host, x>>
            /\ outcome' = "illegal" => UNCHANGED <<fregs, x>>]_vars
  BY <1>1
<1>. QED
  BY <1>2, PTL DEF Spec, OffTouchesNothing

\* rv_freg_read_f32: a register that holds no boxed single is the canonical NaN to every
\* single-precision instruction that computes, whatever its low half holds.
THEOREM BoxesCorrect == Spec => UnboxedIsNan
<1>1. ASSUME TypeOK, [Next]_vars, Executes(FloatOps), insn'.fmt = "S",
             ~fregs[insn'.rs1].boxed
      PROVE  /\ insn'.op \in Arithmetic \cup FusedOps => IsNan(Written)
             /\ insn'.op = "EQ_LE_LT" => x' = [int |-> 0]
             /\ insn'.op = "FCVT_FTOX" => x'.int \in {High(insn'), -1} /\ "NV" \in fflags'
             /\ insn'.op = "MVXF_CLASS" /\ insn'.funct3 = 1 => x' = [class |-> {9}]
             /\ insn'.op = "SGNJ" => Written.is = "nan"
  <2>1. PICK i \in Insns : i = insn'
    BY <1>1, ExecutedIs
  <2>2. i.op \in FloatOps /\ Carries(i) /\ outcome' = "done"
    BY <1>1, <2>1, ExecutedIs DEF Executes
  <2>3. i.op # "CSR"
    BY <2>2 DEF FloatOps, Arithmetic, FusedOps
  <2>4. /\ i.fmt \in Formats /\ i.fmt = "S" /\ i.rs1 \in FRegs /\ i.rd \in FRegs
        /\ i.op \in TwoOperands => i.rs2 \in FRegs
    BY <1>1, <2>1, <2>3, InsnIs DEF Formats
  <2> DEFINE v == Read(i.rs1, i.fmt)
  <2>5. v = Canonical /\ v \in Values(i.fmt) /\ IsNan(v)
    BY <1>1, <2>1, <2>4, ReadIs, NanOfEither
  <2>6. v.is = "nan" /\ v.payload = "default"
    BY <2>5 DEF Canonical, Nan
  <2>. HIDE DEF v
  <2>7. ASSUME i.op \in Arithmetic \cup FusedOps PROVE IsNan(Written)
    <3>1. PICK nan \in HostNans : \E res \in {Computed(i, host', nan), GuestFused(i, host', nan)} :
             /\ Fine(i, host', nan, res)
             /\ Written = Canonized(res.val) \/ Written = res.val
      <4>1. Executes(Arithmetic \cup FusedOps)
        BY <1>1, <2>1, <2>7 DEF Executes
      <4>. QED
        BY <1>1, <2>1, <4>1, ComputedIs
    <3>2. PICK res \in {Computed(i, host', nan), GuestFused(i, host', nan)} :
             /\ Fine(i, host', nan, res)
             /\ Written = Canonized(res.val) \/ Written = res.val
      BY <3>1
    <3>3. IsNan(res.val)
      BY <2>5, <3>2 DEF Fine, v
    <3>. QED
      BY <3>2, <3>3, NanOfEither DEF Canonized
  <2>8. ASSUME i.op = "EQ_LE_LT" PROVE x' = [int |-> 0]
    <3> DEFINE b == Read(i.rs2, i.fmt)
               res == CASE i.funct3 = 2 -> Equal(v, b)
                        [] i.funct3 = 1 -> Less(v, b)
                        [] OTHER -> LessOrEqual(v, b)
    <3>1. Compare(i)
      BY <2>2, <2>8 DEF Carries, Arithmetic, FusedOps
    <3>2. x' = [int |-> IF res.holds THEN 1 ELSE 0]
      BY <2>2, <3>1 DEF Compare, Illegal, v
    <3>. HIDE DEF b
    <3>3. ~Equal(v, b).holds /\ ~Less(v, b).holds /\ ~LessOrEqual(v, b).holds
      <4>1. ~Equal(v, b).holds /\ ~Less(v, b).holds
        BY <2>5 DEF Equal, Less
      <4>2. LessOrEqual(v, b).holds = (Less(v, b).holds \/ Equal(v, b).holds)
        BY DEF LessOrEqual, Less
      <4>. QED
        BY <4>1, <4>2
    <3>4. res \in {Equal(v, b), Less(v, b), LessOrEqual(v, b)}
      OBVIOUS
    <3>. HIDE DEF res
    <3>5. ~res.holds
      BY <3>3, <3>4
    <3>. QED
      BY <3>2, <3>5
  <2>9. ASSUME i.op = "FCVT_FTOX" PROVE x'.int \in {High(i), -1} /\ "NV" \in fflags'
    <3> DEFINE res == ToInteger(i, v, host')
    <3>1. /\ host' \in Modes /\ x' = [int |-> SignedTo(res.val, Width(i))]
          /\ fflags' = fflags \cup res.flags
      <4>1. Executes({"FCVT_FTOX"})
        BY <1>1, <2>1, <2>9 DEF Executes
      <4>. QED
        BY <1>1, <2>1, <4>1, ConvertsToInteger DEF v
    <3>2. /\ res.val \in Low(i)..High(i)
          /\ IF v.is = "finite" /\ Rint(v, host') \in Low(i)..High(i)
             THEN res.val = Rint(v, host')
             ELSE /\ res.flags = {"NV"}
                  /\ IsNan(v) \/ ~v.neg => res.val = High(i)
                  /\ ~IsNan(v) /\ v.neg => res.val = Low(i)
      <4>1. i.fmt \in Formats /\ v \in Values(i.fmt) /\ host' \in Modes
        BY <2>4, <2>5, <3>1
      <4>. QED
        BY <4>1, ToIntegerIs
    <3>. HIDE DEF res
    <3>3. res.val = High(i) /\ res.flags = {"NV"}
      BY <2>5, <2>6, <3>2
    <3>4. SignedTo(High(i), Width(i)) \in {High(i), -1}
      <4>1. High(i) \in Int
        BY EndsAre
      <4>2. CASE ~IsUnsigned(i)
        <5>1. High(i) \in Signeds(Width(i) - 1)
          BY <4>2, EndsAre, WidthIs DEF Signeds
        <5>. QED
          BY <4>1, <5>1, SignedToIs
      <4>3. CASE IsUnsigned(i)
        <5> DEFINE p == Pow(Width(i))
                   h == Pow(Width(i) - 1)
        <5>1. p \in Nat \ {0} /\ h \in Nat \ {0} /\ p = 2 * h
          BY WidthIs
        <5>2. High(i) = p - 1
          BY <4>3, EndsAre
        <5>3. SignedTo(High(i), Width(i))
                = IF High(i) % p >= h THEN (High(i) % p) - p ELSE High(i) % p
          BY DEF SignedTo, Pow
        <5>. HIDE DEF p, h
        <5>4. (p - 1) % p = p - 1
          <6>1. p - 1 = p * 0 + (p - 1) /\ p - 1 \in 0..(p - 1)
            BY <5>1
          <6>. QED
            BY <5>1, <6>1, RemainderIsUnique
        <5>. QED
          BY <5>1, <5>2, <5>3, <5>4
      <4>. QED
        BY <4>2, <4>3
    <3>. QED
      BY <3>1, <3>3, <3>4
  <2>10. ASSUME i.op = "MVXF_CLASS", i.funct3 = 1 PROVE x' = [class |-> {9}]
    <3>1. x' = [class |-> Classes(v, i.fmt)]
      BY <2>2, <2>10 DEF Carries, Arithmetic, FusedOps, Classify, v
    <3>2. IsNan(v) /\ ~IsSnan(v)
      BY <2>5, <2>6 DEF IsSnan
    <3>3. 9 \in Classes(v, i.fmt)
      BY <3>2 DEF Classes
    <3>4. \E n \in 0..9 : Classes(v, i.fmt) = {n}
      BY <2>4, <2>5, ClassIs
    <3>. QED
      BY <3>1, <3>3, <3>4
  <2>11. ASSUME i.op = "SGNJ" PROVE Written.is = "nan"
    <3> DEFINE b == Read(i.rs2, i.fmt)
               neg == CASE i.funct3 = 0 -> b.neg
                        [] i.funct3 = 1 -> ~b.neg
                        [] OTHER -> v.neg # b.neg
               w == Signed(fregs[i.rs1], v, neg, i.fmt)
    <3>1. InjectSign(i)
      BY <2>2, <2>11 DEF Carries, Arithmetic, FusedOps
    <3>2. fregs' = [fregs EXCEPT ![i.rd] = w]
      BY <2>2, <3>1 DEF InjectSign, Illegal, v
    <3>3. b.neg \in BOOLEAN
      <4>1. i.rs2 \in FRegs
        BY <2>4, <2>11 DEF TwoOperands
      <4>. QED
        BY <1>1, <2>4, <4>1, ReadIs, ValueFields
    <3>. HIDE DEF b
    <3>4. neg \in BOOLEAN
      <4>1. (~b.neg) \in BOOLEAN /\ (v.neg # b.neg) \in BOOLEAN
        OBVIOUS
      <4>. QED
        BY <3>3, <4>1
    <3>. HIDE DEF neg
    <3>5. fregs[i.rs1] \in Registers /\ fregs \in [FRegs -> Registers]
      BY <1>1, <2>4 DEF TypeOK
    <3>6. w.single.is = "nan"
      BY <2>4, <2>5, <2>6, <3>4, <3>5, SignedIs
    <3>. HIDE DEF w
    <3>7. fregs'[i.rd] = w
      BY <2>4, <3>2, <3>5
    <3>. QED
      BY <2>1, <2>4, <3>6, <3>7 DEF Written
  <2>. QED
    BY <2>1, <2>7, <2>8, <2>9, <2>10, <2>11
<1>2. TypeOK /\ [Next]_vars
        => [Executes(FloatOps) /\ insn'.fmt = "S" /\ ~fregs[insn'.rs1].boxed
              => /\ insn'.op \in Arithmetic \cup FusedOps => IsNan(Written)
                 /\ insn'.op = "EQ_LE_LT" => x' = [int |-> 0]
                 /\ insn'.op = "FCVT_FTOX"
                      => x'.int \in {High(insn'), -1} /\ "NV" \in fflags'
                 /\ insn'.op = "MVXF_CLASS" /\ insn'.funct3 = 1 => x' = [class |-> {9}]
                 /\ insn'.op = "SGNJ" => Written.is = "nan"]_vars
  BY <1>1
<1>. QED
  BY <1>2, FloatTypeCorrect, PTL DEF Spec, UnboxedIsNan
=============================================================================
