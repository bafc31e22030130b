---------------------------- MODULE WordProofs -----------------------------
(***************************************************************************)
(* What is proved of the two components that compute on the bits of words: *)
(* the physical memory protection, for any number of entries and any width *)
(* of an address, and the execution of one instruction, for registers of   *)
(* any width. They share the lemmas about powers of two and remainders,    *)
(* and no state: Pmp has the specification PmpSpec, Core the one called    *)
(* Spec.                                                                   *)
(***************************************************************************)
EXTENDS Core, Pmp, FiniteSetTheorems, TLAPS

\* Software names regions that begin within the address space: bits 62 and 63 of what
\* it writes to a pmpaddr are zero. (The code keeps them and shifts them out.)
AddressesExist == \A x \in AddrWrites : 4 * x < AddressLimit

\* The accesses of the hart itself have 8 bytes at most: no entry lies amid one.
\* (That of a page which is going to be cached has more: rv_walk_page_table.)
AccessesAreNarrow == \A acc \in Accesses : acc[2] <= 8

-----------------------------------------------------------------------------
(* Sets of numbers                                                         *)

\* A set of natural numbers has a least element: the sets of the elements below each of
\* its elements are finite, and strict inclusion among finite sets is well-founded.
LEMMA MinExists ==
    ASSUME NEW S \in SUBSET Nat, S # {}
    PROVE  \E x \in S : \A y \in S : x <= y
<1> DEFINE Below(x) == {y \in S : y < x}
           T == {Below(x) : x \in S}
<1>1. T \subseteq FiniteSubsetsOf(S)
  <2> SUFFICES ASSUME NEW x \in S PROVE Below(x) \in SUBSET S /\ IsFiniteSet(Below(x))
    BY DEF FiniteSubsetsOf
  <2>1. x \in Nat
    OBVIOUS
  <2>2. \A y \in Below(x) : y \in Nat /\ y <= x
    OBVIOUS
  <2>3. Below(x) \in SUBSET Nat
    BY <2>2
  <2>. QED
    BY <2>1, <2>2, <2>3, FS_BoundedSetOfNaturals
<1>2. T # {}
  OBVIOUS
<1>3. IsWellFoundedOn(StrictSubsetOrdering(S), FiniteSubsetsOf(S))
  BY FS_StrictSubsetOrderingWellFounded
<1>4. PICK t \in T : \A u \in T : <<u, t>> \notin StrictSubsetOrdering(S)
  <2> HIDE DEF T
  <2>. QED
    BY <1>1, <1>2, <1>3, WFMin
<1>5. PICK x \in S : t = Below(x)
  BY <1>4
<1>6. ASSUME NEW y \in S, y < x PROVE FALSE
  <2>0. x \in Nat /\ y \in Nat
    OBVIOUS
  <2>1. /\ \A z \in S : z < y => z < x
        /\ ~(y < y)
    BY <1>6, <2>0
  <2>2. y \in Below(x) /\ y \notin Below(y)
    BY <1>6, <2>1
  <2>3. Below(y) \subseteq Below(x)
    BY <2>1
  <2>4. <<Below(y), Below(x)>> \in StrictSubsetOrdering(S)
    BY <2>2, <2>3 DEF StrictSubsetOrdering
  <2>. QED
    BY <1>4, <1>5, <2>4
<1>. QED
  BY <1>6

LEMMA MinIsLeast ==
    ASSUME NEW S \in SUBSET Nat, S # {}
    PROVE  Min(S) \in S /\ \A y \in S : Min(S) <= y
BY MinExists DEF Min

\* What is least, or greatest, is the minimum, or the maximum.
LEMMA MinIs ==
    ASSUME NEW S \in SUBSET Nat, NEW x \in S, \A y \in S : x <= y
    PROVE  Min(S) = x
<1>1. Min(S) \in S /\ Min(S) <= x
  BY MinIsLeast
<1>2. x \in Nat /\ Min(S) \in Nat /\ x <= Min(S)
  BY <1>1
<1>. QED
  BY <1>1, <1>2

LEMMA MaxIs ==
    ASSUME NEW S \in SUBSET Nat, NEW x \in S, \A y \in S : x >= y
    PROVE  Max(S) = x
<1>1. Max(S) \in S /\ \A y \in S : Max(S) >= y
  BY DEF Max
<1>2. x \in Nat /\ Max(S) \in Nat /\ x >= Max(S) /\ Max(S) >= x
  BY <1>1
<1>. QED
  BY <1>2

-----------------------------------------------------------------------------
(* Powers of two                                                           *)

Pow(n) == 2^n

LEMMA PowersArePow ==
    /\ Powers = {Pow(n) : n \in 0..AddressBits}
    /\ AddressLimit = Pow(AddressBits)
BY DEF Powers, AddressLimit, Pow

\* 2^n is the number of subsets of a set of n elements.
LEMMA PowerCounts ==
    ASSUME NEW n \in Nat
    PROVE  /\ IsFiniteSet(SUBSET (1..n)) /\ Cardinality(SUBSET (1..n)) = Pow(n)
           /\ Pow(n) \in Nat \ {0}
<1>1. IsFiniteSet(1..n) /\ Cardinality(1..n) = n
  BY FS_Interval
<1>2. IsFiniteSet(SUBSET (1..n)) /\ Cardinality(SUBSET (1..n)) = Pow(n)
  BY <1>1, FS_SUBSET DEF Pow
<1>3. SUBSET (1..n) # {}
  OBVIOUS
<1>4. Cardinality(SUBSET (1..n)) \in Nat /\ Cardinality(SUBSET (1..n)) # 0
  BY <1>2, <1>3, FS_CardinalityType, FS_EmptySet
<1>. QED
  BY <1>2, <1>4

LEMMA PowIsPositive ==
    ASSUME NEW n \in Nat
    PROVE  Pow(n) \in Nat \ {0}
BY PowerCounts

LEMMA PowerOfZero == Pow(0) = 1
<1>1. SUBSET (1..0) = {{}}
  OBVIOUS
<1>. QED
  BY <1>1, PowerCounts, FS_Singleton

\* A subset of 1..n+1 has n+1 in it or has not.
LEMMA PowerDoubles ==
    ASSUME NEW n \in Nat
    PROVE  Pow(n + 1) = 2 * Pow(n)
<1> DEFINE S == SUBSET (1..n)
           With(s) == s \cup {n + 1}
           T == {With(s) : s \in S}
           f == [s \in S |-> With(s)]
<1>1. IsFiniteSet(S) /\ Cardinality(S) = Pow(n) /\ Pow(n) \in Nat
  BY PowerCounts
<1>2. Cardinality(SUBSET (1..(n + 1))) = Pow(n + 1)
  <2>1. n + 1 \in Nat
    OBVIOUS
  <2>. QED
    BY <2>1, PowerCounts
<1>3. \A s \in S : n + 1 \notin s
  OBVIOUS
<1>4. SUBSET (1..(n + 1)) = S \cup T
  <2>1. 1..(n + 1) = (1..n) \cup {n + 1}
    OBVIOUS
  <2>2. ASSUME NEW u \in SUBSET (1..(n + 1)) PROVE u \in S \cup T
    <3>1. CASE n + 1 \in u
      <4>1. u \ {n + 1} \in S /\ With(u \ {n + 1}) = u
        BY <2>1, <3>1
      <4>. QED
        BY <4>1
    <3>2. CASE n + 1 \notin u
      BY <2>1, <3>2
    <3>. QED
      BY <3>1, <3>2
  <2>3. S \cup T \subseteq SUBSET (1..(n + 1))
    BY <2>1
  <2>. QED
    BY <2>2, <2>3
<1>5. S \cap T = {}
  BY <1>3
<1>6. ExistsBijection(S, T)
  <2>1. f \in [S -> T] /\ \A u \in T : \E s \in S : f[s] = u
    OBVIOUS
  <2>2. ASSUME NEW s \in S, NEW u \in S, f[s] = f[u] PROVE s = u
    <3>1. With(s) = With(u) /\ n + 1 \notin s /\ n + 1 \notin u
      BY <1>3, <2>2
    <3>. QED
      BY <3>1
  <2> HIDE DEF f, S, T
  <2>3. f \in Injection(S, T)
    BY <2>1, <2>2 DEF Injection, IsInjective
  <2>4. f \in Surjection(S, T)
    BY <2>1 DEF Surjection
  <2>. QED
    BY <2>3, <2>4 DEF ExistsBijection, Bijection
<1>7. IsFiniteSet(T) /\ Cardinality(T) = Pow(n)
  <2> HIDE DEF S, T
  <2>. QED
    BY <1>1, <1>6, FS_Bijection
<1>8. Cardinality(S \cup T) = Pow(n) + Pow(n) - 0
  <2> HIDE DEF S, T
  <2>1. Cardinality(S \cup T) = Cardinality(S) + Cardinality(T) - Cardinality(S \cap T)
    BY <1>1, <1>7, FS_Union
  <2>2. Cardinality(S \cap T) = 0
    BY <1>5, FS_EmptySet
  <2>. QED
    BY <1>1, <1>7, <2>1, <2>2
<1>9. \A p \in Nat : p + p - 0 = 2 * p
  OBVIOUS
<1>10. Cardinality(SUBSET (1..(n + 1))) = Cardinality(S \cup T)
  BY <1>4
<1> HIDE DEF S, T
<1>. QED
  BY <1>1, <1>2, <1>8, <1>9, <1>10

LEMMA Associates ==
    ASSUME NEW a \in Int, NEW b \in Int
    PROVE  2 * (a * b) = a * (2 * b) /\ 2 * (a * b) = (2 * a) * b
OBVIOUS

\* Of two powers of two the smaller divides the greater.
LEMMA PowerDivides ==
    ASSUME NEW m \in Nat, NEW n \in Nat, m <= n
    PROVE  \E c \in Nat \ {0} : Pow(n) = Pow(m) * c
<1> DEFINE Good(k) == \E c \in Nat \ {0} : Pow(k) = Pow(m) * c
           Bad == {k \in Nat : m <= k /\ ~Good(k)}
<1>1. SUFFICES ASSUME Bad # {} PROVE FALSE
  OBVIOUS
<1>2. PICK k \in Bad : \A j \in Bad : k <= j
  <2>1. Bad \in SUBSET Nat
    OBVIOUS
  <2> HIDE DEF Bad
  <2>. QED
    BY <1>1, <2>1, MinExists
<1>3. k # m
  <2>1. Pow(m) = Pow(m) * 1
    BY PowIsPositive
  <2>. QED
    BY <2>1
<1>4. k - 1 \in Nat /\ m <= k - 1 /\ ~(k <= k - 1)
  BY <1>3
<1>5. Good(k - 1)
  BY <1>2, <1>4
<1>6. PICK c \in Nat \ {0} : Pow(k - 1) = Pow(m) * c
  BY <1>5
<1>7. Pow(k) = 2 * Pow(k - 1)
  <2>1. Pow((k - 1) + 1) = 2 * Pow(k - 1)
    BY <1>4, PowerDoubles
  <2>2. (k - 1) + 1 = k
    BY <1>4
  <2>. QED
    BY <2>1, <2>2
<1>8. 2 * (Pow(m) * c) = Pow(m) * (2 * c)
  <2>1. Pow(m) \in Int
    BY PowIsPositive
  <2>. QED
    BY <2>1, Associates
<1>9. Pow(k) = Pow(m) * (2 * c) /\ 2 * c \in Nat \ {0}
  BY <1>6, <1>7, <1>8
<1>. QED
  BY <1>9

-----------------------------------------------------------------------------
(* Products and remainders                                                 *)

LEMMA RemainderIsUnique ==
    ASSUME NEW m \in Nat \ {0}, NEW c \in 0..(m - 1), NEW q \in Int
    PROVE  (m * q + c) % m = c
  OBVIOUS

\* A number is its quotient and its remainder.
LEMMA DivisionGives ==
    ASSUME NEW b \in Int, NEW m \in Nat \ {0}
    PROVE  /\ b \div m \in Int /\ b % m \in 0..(m - 1)
           /\ b = m * (b \div m) + (b % m)
  OBVIOUS

LEMMA MultipleLeavesNothing ==
    ASSUME NEW m \in Nat \ {0}, NEW q \in Int
    PROVE  (m * q) % m = 0
<1>1. m * q \in Int /\ 0 \in 0..(m - 1) /\ (m * q + 0) % m = 0
  BY RemainderIsUnique
<1> DEFINE a == m * q
<1>2. a \in Int /\ (a + 0) % m = 0
  BY <1>1
<1> HIDE DEF a
<1>3. a + 0 = a
  BY <1>2
<1>4. a % m = 0
  BY <1>2, <1>3
<1>. QED
  BY <1>4 DEF a

LEMMA Cancel ==
    ASSUME NEW m \in Nat \ {0}, NEW a \in Int, NEW b \in Int, m * a = m * b
    PROVE  a = b
OBVIOUS

LEMMA ProductGrows ==
    ASSUME NEW m \in Nat \ {0}, NEW q \in Int
    PROVE  /\ m * q \in Int
           /\ q > 0 => m * q >= m
           /\ m * q > 0 => q > 0
           /\ q >= 0 => m * q >= 0
           /\ m * q >= 0 => q >= 0
OBVIOUS

LEMMA OddProduct ==
    ASSUME NEW t \in Int, NEW e \in Int
    PROVE  t * (2 * e + 1) = 2 * (t * e) + t
OBVIOUS

LEMMA Regroup ==
    ASSUME NEW p \in Int, NEW c \in Int, NEW d \in Int
    PROVE  (2 * (p * c)) * d = p * (2 * (c * d))
OBVIOUS

\* A number of which the half is one, and one of which it is none
LEMMA Parity ==
    ASSUME NEW q \in Int
    PROVE  /\ \E h \in Int : q = 2 * h \/ q = 2 * h + 1
           /\ \A a, b \in Int : 2 * a # 2 * b + 1
<1>1. /\ q \div 2 \in Int /\ q % 2 \in 0..1
      /\ q = 2 * (q \div 2) + (q % 2)
  OBVIOUS
<1>2. q = 2 * (q \div 2) \/ q = 2 * (q \div 2) + 1
  BY <1>1
<1>3. \A a, b \in Int : 2 * a # 2 * b + 1
  OBVIOUS
<1>. QED
  BY <1>1, <1>2, <1>3

-----------------------------------------------------------------------------
(* The odd part of a number                                                *)

\* A number is an odd one times the greatest power of two that divides it.
LEMMA OddPart ==
    ASSUME NEW y \in 1..AddressLimit
    PROVE  \E n \in 0..AddressBits, e \in Nat :
             /\ y = Pow(n) * (2 * e + 1)
             /\ Max({k \in Powers : y % k = 0}) = Pow(n)
<1> DEFINE E == {n \in 0..AddressBits : y % Pow(n) = 0}
           D == {AddressBits - n : n \in E}
<1>0. AddressBits \in Nat /\ AddressLimit \in Nat \ {0} /\ y \in Nat \ {0} /\ y <= AddressLimit
  BY PmpAssumption, PowIsPositive, PowersArePow
<1>1. 0 \in E
  <2>1. y % 1 = 0
    BY <1>0
  <2>. QED
    BY <1>0, <2>1, PowerOfZero
<1>2. PICK n \in E : \A j \in E : j <= n
  <2>1. D # {} /\ D \in SUBSET Nat
    BY <1>0, <1>1
  <2>2. PICK d \in D : \A j \in D : d <= j
    <3> HIDE DEF D
    <3>. QED
      BY <2>1, MinExists
  <2>3. PICK n \in E : d = AddressBits - n
    BY <2>2
  <2>4. ASSUME NEW j \in E PROVE j <= n
    <3>1. AddressBits - n <= AddressBits - j
      BY <2>2, <2>3
    <3>. QED
      BY <1>0, <3>1
  <2>. QED
    BY <2>4
<1> DEFINE t == Pow(n)
           q == y \div t
<1>3. n \in 0..AddressBits /\ t \in Nat \ {0} /\ y % t = 0
  BY <1>0, <1>2, PowIsPositive
<1>4. q \in Int /\ y = t * q
  <2> HIDE DEF t
  <2>. QED
    BY <1>0, <1>3, DivisionGives
<1>5. q > 0
  BY <1>0, <1>3, <1>4, ProductGrows
<1>6. PICK h \in Int : q = 2 * h \/ q = 2 * h + 1
  BY <1>4, Parity
<1>7. h >= 0 /\ (q = 2 * h => h > 0)
  BY <1>5, <1>6
<1>8. q # 2 * h
  <2> SUFFICES ASSUME q = 2 * h PROVE FALSE
    OBVIOUS
  <2>1. y = 2 * (t * h) /\ 2 * (t * h) = (2 * t) * h
    <3>1. t * (2 * h) = 2 * (t * h) /\ 2 * (t * h) = (2 * t) * h
      BY <1>3, Associates
    <3>. QED
      BY <1>4, <3>1
  <2>2. CASE n = AddressBits
    <3>1. t * h \in Int /\ t * h >= t /\ t = AddressLimit
      BY <1>3, <1>7, <2>2, ProductGrows, PowersArePow
    <3>. QED
      BY <1>0, <2>1, <3>1
  <2>3. CASE n # AddressBits
    <3>1. n + 1 \in 0..AddressBits /\ Pow(n + 1) = 2 * t
      BY <1>0, <1>3, <2>3, PowerDoubles
    <3>2. ((2 * t) * h) % (2 * t) = 0
      <4>1. 2 * t \in Nat \ {0}
        BY <1>3
      <4>. QED
        BY <4>1, MultipleLeavesNothing
    <3>3. n + 1 \in E
      BY <2>1, <3>1, <3>2
    <3>. QED
      BY <1>2, <1>3, <3>3
  <2>. QED
    BY <2>2, <2>3
<1>9. h \in Nat /\ y = t * (2 * h + 1)
  BY <1>4, <1>6, <1>7, <1>8
<1> DEFINE K == {k \in Powers : y % k = 0}
<1>10. Max(K) = t
  <2>1. K \in SUBSET Nat
    BY PowIsPositive, PowersArePow
  <2>2. t \in K
    BY <1>3, PowersArePow
  <2>3. ASSUME NEW k \in K PROVE t >= k
    <3>1. PICK j \in 0..AddressBits : k = Pow(j)
      BY PowersArePow
    <3>2. j \in E /\ j <= n /\ j \in Nat /\ n \in Nat
      BY <1>0, <1>2, <1>3, <3>1
    <3>3. PICK c \in Nat \ {0} : t = Pow(j) * c
      BY <3>2, PowerDivides
    <3>. QED
      BY <3>1, <3>2, <3>3, PowIsPositive, ProductGrows
  <2> HIDE DEF K, t
  <2>. QED
    BY <2>1, <2>2, <2>3, MaxIs
<1>. QED
  BY <1>3, <1>9, <1>10

LEMMA OddPartsDiffer ==
    ASSUME NEW m \in Nat, NEW n \in Nat, m < n, NEW e \in Nat, NEW f \in Nat,
           Pow(n) * (2 * e + 1) = Pow(m) * (2 * f + 1)
    PROVE  FALSE
<1> DEFINE p == Pow(m)
<1>1. p \in Nat \ {0} /\ m + 1 \in Nat /\ m + 1 <= n /\ Pow(m + 1) = 2 * p
  BY PowIsPositive, PowerDoubles
<1>2. PICK c \in Nat \ {0} : Pow(n) = (2 * p) * c
  BY <1>1, PowerDivides
<1>3. Pow(n) = 2 * (p * c)
  BY <1>1, <1>2, Associates
<1> DEFINE d == 2 * e + 1
<1>4. d \in Int /\ c * d \in Int /\ c \in Int
  OBVIOUS
<1>5. Pow(n) * d = p * (2 * (c * d))
  <2>1. (2 * (p * c)) * d = p * (2 * (c * d))
    BY <1>1, <1>4, Regroup
  <2>. QED
    BY <1>3, <2>1
<1>6. p * (2 * (c * d)) = p * (2 * f + 1)
  BY <1>5
<1> HIDE DEF p, d
<1> DEFINE j == c * d
<1>7. j \in Int
  BY <1>4
<1> HIDE DEF j
<1>8. 2 * j = 2 * f + 1
  BY <1>1, <1>6, <1>7, Cancel DEF j
<1>. QED
  BY <1>7, <1>8, Parity

LEMMA OddPartIsUnique ==
    ASSUME NEW m \in Nat, NEW n \in Nat, NEW e \in Nat, NEW f \in Nat,
           Pow(n) * (2 * e + 1) = Pow(m) * (2 * f + 1)
    PROVE  Pow(n) = Pow(m) /\ e = f
<1>1. m = n
  <2>1. m < n \/ n < m \/ m = n
    OBVIOUS
  <2>. QED
    BY <2>1, OddPartsDiffer
<1>2. Pow(m) \in Nat \ {0} /\ Pow(m) * (2 * e + 1) = Pow(m) * (2 * f + 1)
  BY <1>1, PowIsPositive
<1>3. 2 * e + 1 = 2 * f + 1
  BY <1>2, Cancel
<1>. QED
  BY <1>1, <1>3

-----------------------------------------------------------------------------
(* The region of an entry                                                  *)

LEMMA Widths ==
    /\ AddressBits \in Nat /\ AddressLimit \in Nat \ {0}
    /\ \E c \in Nat \ {0} : AddressLimit = 8 * c
<1>1. AddressBits \in Nat /\ 3 <= AddressBits
  BY PmpAssumption
<1>2. Pow(1) = 2 /\ Pow(2) = 4 /\ Pow(3) = 8
  <2>1. Pow(0 + 1) = 2 * Pow(0) /\ Pow(1 + 1) = 2 * Pow(1) /\ Pow(2 + 1) = 2 * Pow(2)
    BY PowerDoubles
  <2>2. 0 + 1 = 1 /\ 1 + 1 = 2 /\ 2 + 1 = 3
    OBVIOUS
  <2>. QED
    BY <2>1, <2>2, PowerOfZero
<1>3. \E c \in Nat \ {0} : Pow(AddressBits) = Pow(3) * c
  BY <1>1, PowerDivides
<1>. QED
  BY <1>1, <1>2, <1>3, PowIsPositive, PowersArePow

\* x + 1 is 2e + 1 times the power of two t.
Shape(x, t, e) ==
    /\ t \in Powers /\ t \in Nat \ {0} /\ e \in Nat
    /\ x + 1 = t * (2 * e + 1)
    /\ RegionSize[x] = Min({8 * t, AddressLimit})

LEMMA EveryShape ==
    ASSUME NEW x \in Addresses
    PROVE  \E t, e : Shape(x, t, e)
<1>1. x + 1 \in 1..AddressLimit
  BY Widths DEF Addresses
<1>2. PICK n \in 0..AddressBits, e \in Nat :
        /\ x + 1 = Pow(n) * (2 * e + 1)
        /\ Max({k \in Powers : (x + 1) % k = 0}) = Pow(n)
  BY <1>1, OddPart
<1>3. Pow(n) \in Powers /\ Pow(n) \in Nat \ {0}
  <2>1. n \in Nat
    OBVIOUS
  <2>. QED
    BY <2>1, PowIsPositive, PowersArePow
<1>4. RegionSize[x] = Min({8 * Pow(n), AddressLimit})
  BY <1>2 DEF RegionSize
<1>. QED
  BY <1>2, <1>3, <1>4 DEF Shape

\* Where the region of an entry is.
LEMMA RegionIs ==
    ASSUME NEW x \in Addresses, NEW t, NEW e, Shape(x, t, e)
    PROVE  /\ t * e \in Nat /\ x + 1 = 2 * (t * e) + t
           /\ Region[x] = (8 * (t * e))..(8 * (t * e) + 8 * t - 1)
<1> DEFINE u == t * e
           Fits(r) == r[1] % r[2] = 0 /\ 4 * x = r[1] + (r[2] \div 2) - 4
           R == {r \in (0..(4 * x)) \X {8 * k : k \in Powers} : Fits(r)}
<1>1. /\ x \in Nat /\ t \in Nat \ {0} /\ t \in Powers /\ e \in Nat
      /\ x + 1 = t * (2 * e + 1)
  BY Widths DEF Shape, Addresses
<1>2. u \in Nat /\ x + 1 = 2 * u + t
  <2>1. u \in Int /\ u >= 0
    BY <1>1, ProductGrows
  <2>2. x + 1 = 2 * u + t
    BY <1>1, OddProduct
  <2>. QED
    BY <2>1, <2>2
<1>3. <<8 * u, 8 * t>> \in R
  <2>1. (8 * u) % (8 * t) = 0
    <3> DEFINE w == 8 * t
               b == 8 * u
    <3>1. w \in Nat \ {0} /\ e \in Int /\ w * e = b
      BY <1>1
    <3> HIDE DEF w, b
    <3>2. b % w = 0
      BY <3>1, MultipleLeavesNothing
    <3>. QED
      BY <3>2 DEF w, b
  <2> HIDE DEF u
  <2>2. (8 * t) \div 2 = 4 * t
    BY <1>1
  <2>3. 4 * x = 8 * u + 4 * t - 4 /\ 8 * u \in 0..(4 * x)
    BY <1>1, <1>2
  <2>. QED
    BY <1>1, <2>1, <2>2, <2>3
<1>4. ASSUME NEW r \in R PROVE r = <<8 * u, 8 * t>>
  <2>1. PICK k \in Powers : r[2] = 8 * k
    OBVIOUS
  <2>2. /\ r = <<r[1], r[2]>> /\ r[1] \in Nat /\ r[1] % (8 * k) = 0
        /\ 4 * x = r[1] + ((8 * k) \div 2) - 4
    BY <1>1, <2>1
  <2>3. PICK m \in 0..AddressBits : k = Pow(m)
    BY PowersArePow
  <2>4. PICK n \in 0..AddressBits : t = Pow(n)
    BY <1>1, PowersArePow
  <2>5. m \in Nat /\ n \in Nat /\ k \in Nat \ {0}
    <3>1. m \in Nat /\ n \in Nat
      BY Widths
    <3>. QED
      BY <2>3, <3>1, PowIsPositive
  <2> DEFINE b == r[1]
             g == b \div (8 * k)
  <2>6. g \in Int /\ b = (8 * k) * g
    <3>1. 8 * k \in Nat \ {0} /\ b \in Int /\ b % (8 * k) = 0
      BY <2>2, <2>5
    <3> HIDE DEF b
    <3>2. g \in Int /\ b = (8 * k) * g + (b % (8 * k)) /\ (8 * k) * g \in Int
      BY <3>1, DivisionGives, ProductGrows
    <3>. QED
      BY <3>1, <3>2
  <2>7. g \in Nat
    <3>1. 8 * k \in Nat \ {0} /\ (8 * k) * g >= 0
      BY <2>2, <2>5, <2>6
    <3>. QED
      BY <2>6, <3>1, ProductGrows
  <2> DEFINE v == k * g
  <2>8. v \in Int /\ b = 8 * v
    BY <2>5, <2>6
  <2>9. x + 1 = 2 * v + k
    <3>1. 4 * x = 8 * v + ((8 * k) \div 2) - 4
      BY <2>2, <2>8
    <3>2. (8 * k) \div 2 = 4 * k
      BY <2>5
    <3> HIDE DEF v
    <3>. QED
      BY <1>1, <2>5, <2>8, <3>1, <3>2
  <2>10. x + 1 = k * (2 * g + 1)
    BY <2>5, <2>7, <2>9, OddProduct
  <2>11. Pow(n) * (2 * e + 1) = Pow(m) * (2 * g + 1)
    BY <1>1, <2>3, <2>4, <2>10
  <2>12. t = k /\ e = g
    <3> HIDE DEF g
    <3>1. Pow(n) = Pow(m) /\ e = g
      BY <1>1, <2>5, <2>7, <2>11, OddPartIsUnique
    <3>. QED
      BY <2>3, <2>4, <3>1
  <2>. QED
    BY <2>1, <2>2, <2>8, <2>12
<1>5. R = {<<8 * u, 8 * t>>}
  BY <1>3, <1>4
<1>6. Region[x] = UNION {region[1]..(region[1] + region[2] - 1) : region \in R}
  BY DEF Region
<1>7. Region[x] = (8 * u)..(8 * u + 8 * t - 1)
  <2> HIDE DEF R, u
  <2>1. {region[1]..(region[1] + region[2] - 1) : region \in R}
          = {(8 * u)..(8 * u + 8 * t - 1)}
    BY <1>5
  <2>. QED
    BY <1>6, <2>1
<1>. QED
  BY <1>2, <1>7

\* The code's comparison of masked addresses holds for the bytes of the region.
LEMMA MatchesRegion ==
    ASSUME NEW x \in Addresses, 4 * x < AddressLimit, NEW p \in Addresses
    PROVE  Matches(p, x) <=> p \in Region[x]
<1>1. PICK t, e : Shape(x, t, e)
  BY EveryShape
<1> DEFINE u == t * e
           S == RegionSize[x]
           L == AddressLimit
<1>2. /\ u \in Nat /\ x + 1 = 2 * u + t
      /\ Region[x] = (8 * u)..(8 * u + 8 * t - 1)
  BY <1>1, RegionIs
<1>3. /\ t \in Nat \ {0} /\ e \in Nat /\ S = Min({8 * t, L})
      /\ x \in Nat /\ p \in Nat /\ p < L /\ L \in Nat \ {0}
  BY <1>1, Widths DEF Shape, Addresses
<1>4. 4 * x = 8 * u + 4 * t - 4
  <2> HIDE DEF u
  <2>. QED
    BY <1>2, <1>3
<1>5. CASE 8 * t <= L
  <2>1. S = 8 * t
    <3> DEFINE two == {8 * t, L}
    <3>1. two \in SUBSET Nat /\ 8 * t \in two /\ \A y \in two : 8 * t <= y
      BY <1>3, <1>5
    <3> HIDE DEF two
    <3>2. Min(two) = 8 * t
      BY <3>1, MinIs
    <3>. QED
      BY <1>3, <3>2 DEF two
  <2> DEFINE w == 8 * t
  <2>2. w \in Nat \ {0} /\ w * e \in Int /\ w * e = 8 * u
    BY <1>3
  <2>3. (4 * x) % w = 4 * t - 4
    <3> DEFINE c == 4 * t - 4
    <3>1. c \in 0..(w - 1) /\ 4 * x = w * e + c
      BY <1>2, <1>3, <1>4, <2>2
    <3> HIDE DEF w, c
    <3>0. ASSUME NEW d \in 0..(w - 1) PROVE (w * e + d) % w = d
      BY <1>3, <2>2, RemainderIsUnique
    <3>2. (w * e + c) % w = c
      BY <3>0, <3>1
    <3>. QED
      BY <3>1, <3>2 DEF c
  <2>4. Base[x] = 8 * u
    <3>1. Base[x] = (4 * x - ((4 * x) % w)) % L
      BY <2>1 DEF Base
    <3>2. 4 * x - (4 * t - 4) = 8 * u /\ 8 * u \in 0..(L - 1)
      <4> HIDE DEF u, L
      <4>1. 4 * x < L
        BY DEF L
      <4>. QED
        BY <1>2, <1>3, <1>4, <4>1
    <3> DEFINE b == 8 * u
    <3>3. b \in 0..(L - 1) /\ Base[x] = b % L
      BY <2>3, <3>1, <3>2
    <3> HIDE DEF b, L
    <3>4. b % L = b
      BY <1>3, <3>3
    <3>. QED
      BY <3>3, <3>4 DEF b
  <2>5. Matches(p, x) <=> p - (p % w) = w * e
    BY <2>1, <2>2, <2>4 DEF Matches
  <2>6. /\ p % w \in 0..(w - 1)
        /\ \A c \in 0..(w - 1) : p = w * e + c => p % w = c
    <3> HIDE DEF w
    <3>1. p % w \in 0..(w - 1)
      BY <1>3, <2>2, DivisionGives
    <3>2. ASSUME NEW c \in 0..(w - 1), p = w * e + c PROVE p % w = c
      <4>1. (w * e + c) % w = c
        BY <1>3, <2>2, RemainderIsUnique
      <4>. QED
        BY <3>2, <4>1
    <3>. QED
      BY <3>1, <3>2
  <2>7. p - (p % w) = w * e <=> p \in (w * e)..(w * e + w - 1)
    <3> DEFINE b == w * e
               c == p % w
    <3>1. b \in Int /\ c \in 0..(w - 1) /\ \A d \in 0..(w - 1) : p = b + d => c = d
      BY <2>2, <2>6
    <3> HIDE DEF b, c, w
    <3>2. ASSUME p - c = b PROVE p \in b..(b + w - 1)
      BY <1>3, <2>2, <3>1, <3>2
    <3>3. ASSUME p \in b..(b + w - 1) PROVE p - c = b
      <4>1. p - b \in 0..(w - 1) /\ p = b + (p - b)
        BY <1>3, <2>2, <3>1, <3>3
      <4>2. c = p - b
        BY <3>1, <4>1
      <4>. QED
        BY <1>3, <3>1, <4>2
    <3>. QED
      BY <3>2, <3>3 DEF b, c
  <2>. QED
    BY <1>2, <2>2, <2>5, <2>7
<1>6. CASE 8 * t > L
  <2>1. S = L
    <3> DEFINE two == {8 * t, L}
    <3>1. two \in SUBSET Nat /\ L \in two /\ \A y \in two : L <= y
      BY <1>3, <1>6
    <3> HIDE DEF two
    <3>2. Min(two) = L
      BY <3>1, MinIs
    <3>. QED
      BY <1>3, <3>2 DEF two
  <2>2. u = 0
    <3>1. 4 * x + 4 <= L
      <4>1. PICK c \in Nat \ {0} : L = 8 * c
        BY Widths
      <4> HIDE DEF L
      <4>2. 4 * x < L
        BY DEF L
      <4>. QED
        BY <1>3, <4>1, <4>2
    <3>2. e > 0 => u >= t
      BY <1>3, ProductGrows
    <3>3. e = 0 => u = 0
      BY <1>3
    <3> HIDE DEF u, L
    <3>. QED
      BY <1>2, <1>3, <1>4, <1>6, <3>1, <3>2, <3>3
  <2>3. Base[x] = 0
    <3> DEFINE b == 4 * x
    <3>1. b \in 0..(L - 1) /\ Base[x] = (b - (b % L)) % L
      BY <1>3, <2>1 DEF Base
    <3> HIDE DEF b, L
    <3>2. b % L = b /\ 0 % L = 0 /\ b - b = 0
      BY <1>3, <3>1
    <3>. QED
      BY <3>1, <3>2
  <2>4. Matches(p, x)
    <3>1. Matches(p, x) <=> p - (p % L) = 0
      BY <2>1, <2>3 DEF Matches
    <3> HIDE DEF L
    <3>2. p % L = p /\ p - p = 0
      BY <1>3
    <3>. QED
      BY <3>1, <3>2
  <2>5. p \in 0..(8 * t - 1)
    <3> HIDE DEF L
    <3>. QED
      BY <1>3, <1>6
  <2>6. Region[x] = 0..(8 * t - 1)
    <3> HIDE DEF u
    <3>1. 8 * u = 0 /\ 0 + 8 * t - 1 = 8 * t - 1
      BY <1>3, <2>2
    <3>. QED
      BY <1>2, <3>1
  <2>. QED
    BY <2>4, <2>5, <2>6
<1>7. 8 * t <= L \/ 8 * t > L
  BY <1>3
<1>. QED
  BY <1>5, <1>6, <1>7

-----------------------------------------------------------------------------
(* The check                                                               *)

\* The two ends of an access tell whether it meets a region, and whether it is inside.
LEMMA EndsTell ==
    ASSUME AccessesAreNarrow, NEW acc \in Accesses,
           NEW x \in Addresses, 4 * x < AddressLimit
    PROVE  /\ acc[1] \in Addresses /\ (acc[1] + acc[2] - 1) % AddressLimit \in Addresses
           /\ Matches(acc[1], x) \/ Matches((acc[1] + acc[2] - 1) % AddressLimit, x)
                <=> BytesOf(acc) \cap Region[x] # {}
           /\ Matches(acc[1], x) /\ Matches((acc[1] + acc[2] - 1) % AddressLimit, x)
                <=> BytesOf(acc) \subseteq Region[x]
<1> DEFINE p == acc[1]
           n == acc[2]
           q == p + n - 1
           L == AddressLimit
<1>1. /\ p \in Nat /\ n \in 1..8 /\ p + n <= L /\ L \in Nat \ {0}
  <2>1. acc \in Nat \X Nat /\ acc[2] >= 1 /\ acc[1] + acc[2] <= 2^AddressBits
    BY PmpAssumption
  <2>2. acc[1] \in Nat /\ acc[2] \in Nat /\ acc[1] + acc[2] <= L
    BY <2>1 DEF AddressLimit
  <2>. QED
    BY <2>1, <2>2, Widths DEF AccessesAreNarrow
<1>2. BytesOf(acc) = p..q
  BY DEF BytesOf
<1> HIDE DEF p, n, L
<1>3. p \in 0..(L - 1) /\ q \in 0..(L - 1) /\ q \in Nat /\ p <= q /\ q - p <= 7
  BY <1>1
<1>4. q % L = q
  <2> HIDE DEF q
  <2>. QED
    BY <1>1, <1>3
<1>5. PICK t, e : Shape(x, t, e)
  BY EveryShape
<1> DEFINE b == 8 * (t * e)
           c == b + 8 * t - 1
<1>6. Region[x] = b..c /\ b \in Nat /\ c \in Int /\ c - b >= 7
  <2>1. t * e \in Nat /\ t \in Nat \ {0}
    BY <1>5, RegionIs DEF Shape
  <2>2. Region[x] = b..c
    BY <1>5, RegionIs
  <2>3. \A u \in Nat : 8 * u \in Nat /\ 8 * u + 8 * t - 1 \in Int
                        /\ (8 * u + 8 * t - 1) - 8 * u >= 7
    BY <2>1
  <2>. QED
    BY <2>1, <2>2, <2>3
<1> HIDE DEF b, c, q
<1>7. /\ Matches(p, x) <=> p \in b..c
      /\ Matches(q, x) <=> q \in b..c
  <2>1. p \in Addresses /\ q \in Addresses
    BY <1>3 DEF Addresses, L
  <2>. QED
    BY <1>6, <2>1, MatchesRegion
<1>8. p \in b..c \/ q \in b..c <=> (p..q) \cap (b..c) # {}
  <2>1. p \in p..q /\ q \in p..q
    BY <1>3, <1>1
  <2>2. ASSUME NEW a \in p..q, a \in b..c, p \notin b..c, q \notin b..c PROVE FALSE
    BY <1>1, <1>3, <1>6, <2>2
  <2>. QED
    BY <2>1, <2>2
<1>9. p \in b..c /\ q \in b..c <=> p..q \subseteq b..c
  <2>1. p \in p..q /\ q \in p..q
    BY <1>3, <1>1
  <2>2. ASSUME p \in b..c, q \in b..c, NEW a \in p..q PROVE a \in b..c
    BY <1>1, <1>3, <1>6, <2>2
  <2>. QED
    BY <2>1, <2>2
<1>10. p \in Addresses /\ q % L \in Addresses
  BY <1>3, <1>4 DEF Addresses, L
<1>. QED
  BY <1>2, <1>4, <1>6, <1>7, <1>8, <1>9, <1>10 DEF p, n, q, L

\* The registers have their types; their regions begin within the address space, when
\* software writes the addresses of such.
PmpInv ==
    /\ PmpTypeOK
    /\ AddressesExist => \A i \in Entries : 4 * pmpaddr[i] < AddressLimit

LEMMA EntriesAre ==
    /\ Entries \in SUBSET Nat
    /\ \A n \in Entries : 0..n \subseteq Entries
BY PmpAssumption DEF Entries

\* The entries that the code finds are those that any byte of the access meets.
LEMMA MetDecides ==
    ASSUME AddressesExist, AccessesAreNarrow, PmpInv, NEW acc \in Accesses, NEW m_mode
    PROVE  /\ Met(acc[1], acc[2], m_mode) = Deciding(acc, m_mode)
           /\ Deciding(acc, m_mode) \in SUBSET Entries
           /\ \A i \in Entries :
                Matches(acc[1], pmpaddr[i])
                  /\ Matches((acc[1] + acc[2] - 1) % AddressLimit, pmpaddr[i])
                <=> BytesOf(acc) \subseteq Region[pmpaddr[i]]
<1>1. \A i \in Entries : pmpaddr[i] \in Addresses /\ 4 * pmpaddr[i] < AddressLimit
  BY DEF PmpInv, PmpTypeOK
<1>2. \A i \in Entries :
        /\ Matches(acc[1], pmpaddr[i])
             \/ Matches((acc[1] + acc[2] - 1) % AddressLimit, pmpaddr[i])
           <=> BytesOf(acc) \cap Region[pmpaddr[i]] # {}
        /\ Matches(acc[1], pmpaddr[i])
             /\ Matches((acc[1] + acc[2] - 1) % AddressLimit, pmpaddr[i])
           <=> BytesOf(acc) \subseteq Region[pmpaddr[i]]
  BY <1>1, EndsTell
<1>3. Binding(m_mode) \in SUBSET Entries
  BY DEF Binding
<1>. QED
  BY <1>2, <1>3 DEF Met, Deciding

LEMMA FirstMatch ==
    ASSUME AddressesExist, AccessesAreNarrow, PmpInv
    PROVE  CheckIsFirstMatch
<1> SUFFICES ASSUME NEW acc \in Accesses, NEW m_mode \in BOOLEAN
             PROVE  PmpCheck(acc[1], acc[2], m_mode) =
                      IF Deciding(acc, m_mode) = {} THEN IF m_mode THEN All ELSE {}
                      ELSE IF BytesOf(acc) \subseteq Region[pmpaddr[Min(Deciding(acc, m_mode))]]
                           THEN pmpcfg[Min(Deciding(acc, m_mode))].perm ELSE {}
  BY DEF CheckIsFirstMatch
<1> DEFINE met == Deciding(acc, m_mode)
<1>1. /\ Met(acc[1], acc[2], m_mode) = met /\ met \in SUBSET Entries
      /\ \A i \in Entries :
           Matches(acc[1], pmpaddr[i])
             /\ Matches((acc[1] + acc[2] - 1) % AddressLimit, pmpaddr[i])
           <=> BytesOf(acc) \subseteq Region[pmpaddr[i]]
  BY MetDecides
<1> HIDE DEF met
<1>2. met # {} => Min(met) \in Entries
  BY <1>1, EntriesAre, MinIsLeast
<1>. QED
  BY <1>1, <1>2 DEF PmpCheck, met

-----------------------------------------------------------------------------
(* The steps                                                               *)

LEMMA PmpInvInit == PmpInit => PmpInv
<1> SUFFICES ASSUME PmpInit PROVE PmpInv
  OBVIOUS
<1>1. PmpTypeOK
  BY Widths DEF PmpInit, PmpTypeOK, Cfg, All, OFF, NAPOT, Addresses
<1>2. \A i \in Entries : 4 * pmpaddr[i] < AddressLimit
  <2>1. 4 * 0 < AddressLimit
    BY Widths
  <2>. QED
    BY <2>1 DEF PmpInit
<1>. QED
  BY <1>1, <1>2 DEF PmpInv

LEMMA NormalIsCfg ==
    ASSUME NEW cfg \in CfgWrites
    PROVE  Normal(cfg) \in Cfg
<1>1. cfg \in [perm : SUBSET {"R", "W", "X"}, a : 0..3, l : BOOLEAN]
  BY PmpAssumption
<1>. QED
  BY <1>1 DEF Normal, Cfg, All, OFF, NAPOT

LEMMA PmpInvStep ==
    ASSUME PmpInv, [PmpNext]_pmpVars
    PROVE  PmpInv'
<1>. USE DEF PmpInv
<1>1. ASSUME NEW word \in CfgWords,
             NEW values \in [{i \in Entries : i \div PerWord = word} -> CfgWrites],
             WritePmpcfg(word, values)
      PROVE  PmpInv'
  <2>1. \A i \in Entries : i \div PerWord = word => Normal(values[i]) \in Cfg
    BY NormalIsCfg
  <2>2. pmpcfg' \in [Entries -> Cfg]
    BY <1>1, <2>1 DEF WritePmpcfg, PmpTypeOK
  <2>. QED
    BY <1>1, <2>2 DEF WritePmpcfg, PmpTypeOK
<1>2. ASSUME NEW i \in Entries, NEW value \in AddrWrites, WritePmpaddr(i, value)
      PROVE  PmpInv'
  <2>1. value \in Addresses /\ (AddressesExist => 4 * value < AddressLimit)
    BY PmpAssumption DEF Addresses, AddressLimit, AddressesExist
  <2>2. pmpaddr' = [pmpaddr EXCEPT ![i] = value]
    BY <1>2 DEF WritePmpaddr
  <2>3. /\ pmpaddr' \in [Entries -> Addresses]
        /\ AddressesExist => \A j \in Entries : 4 * pmpaddr'[j] < AddressLimit
    BY <2>1, <2>2 DEF PmpTypeOK
  <2>. QED
    BY <1>2, <2>3 DEF WritePmpaddr, PmpTypeOK
<1>3. ASSUME NEW to \in {0, 1, 3}, NEW d \in {0, 1, 3}, ChangePrivilege(to, d)
      PROVE  PmpInv'
  BY <1>3 DEF ChangePrivilege, PmpTypeOK
<1>4. CASE UNCHANGED pmpVars
  BY <1>4 DEF pmpVars, PmpTypeOK
<1>. QED
  BY <1>1, <1>2, <1>3, <1>4 DEF PmpNext

\* What is in a pmpcfg and in a pmpaddr is what the code stores there: TOR and NA4 never
\* are (rv_csr_write).
THEOREM PmpTypeCorrect == PmpSpec => []PmpTypeOK
<1>1. PmpInv => PmpTypeOK
  BY DEF PmpInv
<1>. QED
  BY <1>1, PmpInvInit, PmpInvStep, PTL DEF PmpSpec

\* The masks and the comparisons of rv_pmp_check decide as the first-match rule over
\* whole regions does: for every set of entries, for every power of two that is a size
\* and for every access of the hart.
THEOREM CheckDecides ==
    ASSUME AddressesExist, AccessesAreNarrow
    PROVE  PmpSpec => []CheckIsFirstMatch
BY PmpInvInit, PmpInvStep, FirstMatch, PTL DEF PmpSpec

\* A step leaves a locked entry alone.
LEMMA LockedStays ==
    ASSUME PmpInv, [PmpNext]_pmpVars, NEW i \in Entries, pmpcfg[i].l
    PROVE  pmpcfg'[i] = pmpcfg[i] /\ pmpaddr'[i] = pmpaddr[i]
<1>1. ASSUME NEW word, NEW values, WritePmpcfg(word, values)
      PROVE  pmpcfg'[i] = pmpcfg[i] /\ pmpaddr'[i] = pmpaddr[i]
  BY <1>1 DEF WritePmpcfg
<1>2. ASSUME NEW j \in Entries, NEW value, WritePmpaddr(j, value)
      PROVE  pmpcfg'[i] = pmpcfg[i] /\ pmpaddr'[i] = pmpaddr[i]
  BY <1>2 DEF WritePmpaddr, PmpInv, PmpTypeOK
<1>3. ASSUME NEW to, NEW d, ChangePrivilege(to, d)
      PROVE  pmpcfg'[i] = pmpcfg[i] /\ pmpaddr'[i] = pmpaddr[i]
  BY <1>3 DEF ChangePrivilege
<1>4. CASE UNCHANGED pmpVars
  BY <1>4 DEF pmpVars
<1>. QED
  BY <1>1, <1>2, <1>3, <1>4 DEF PmpNext

LEMMA DecisionStays ==
    ASSUME AddressesExist, AccessesAreNarrow, PmpInv, PmpInv', [PmpNext]_pmpVars,
           CheckIsFirstMatch, CheckIsFirstMatch',
           NEW acc \in Accesses, NEW m_mode \in BOOLEAN,
           Deciding(acc, m_mode) # {},
           \A i \in 0..Min(Deciding(acc, m_mode)) : pmpcfg[i].l
    PROVE  PmpCheck(acc[1], acc[2], m_mode)' = PmpCheck(acc[1], acc[2], m_mode)
<1> DEFINE met == Deciding(acc, m_mode)
           n == Min(met)
<1>1. met \in SUBSET Entries /\ Entries \in SUBSET Nat
  BY MetDecides, EntriesAre
<1>2. n \in met /\ n \in Nat /\ n \in Entries /\ (\A j \in met : n <= j) /\ 0..n \subseteq Entries
  <2> HIDE DEF met
  <2>1. met # {}
    BY DEF met
  <2>2. n \in met /\ \A j \in met : n <= j
    BY <1>1, <2>1, MinIsLeast
  <2>. QED
    BY <1>1, <2>2, EntriesAre
<1>3. \A i \in 0..n : pmpcfg'[i] = pmpcfg[i] /\ pmpaddr'[i] = pmpaddr[i]
  BY <1>2, LockedStays
<1>4. \A i \in 0..n : i \in met' <=> i \in met
  BY <1>2, <1>3 DEF Deciding, Binding, Enabled
<1>5. met' \in SUBSET Entries
  BY DEF Deciding, Binding
<1>6. n \in met'
  BY <1>2, <1>4
<1>7. ASSUME NEW j \in met' PROVE n <= j
  <2>1. j \in Nat
    BY <1>1, <1>5
  <2>2. CASE j < n
    <3>1. j \in 0..n /\ ~(n <= j)
      BY <1>2, <2>1, <2>2
    <3>. QED
      BY <1>2, <1>4, <3>1
  <2>. QED
    BY <1>2, <2>1, <2>2
<1>8. Min(met') = n
  <2> DEFINE new == met'
             k == n
  <2>1. new \in SUBSET Nat /\ k \in new /\ \A j \in new : k <= j
    BY <1>1, <1>5, <1>6, <1>7
  <2> HIDE DEF new, k
  <2>2. Min(new) = k
    BY <2>1, MinIs
  <2>. QED
    BY <2>2 DEF new, k
<1>9. PmpCheck(acc[1], acc[2], m_mode) =
         IF BytesOf(acc) \subseteq Region[pmpaddr[n]] THEN pmpcfg[n].perm ELSE {}
  BY DEF CheckIsFirstMatch
<1>10. PmpCheck(acc[1], acc[2], m_mode)' =
         IF BytesOf(acc) \subseteq Region[pmpaddr'[n]] THEN pmpcfg'[n].perm ELSE {}
  BY <1>6, <1>8 DEF CheckIsFirstMatch
<1>11. n \in 0..n
  BY <1>2
<1>. QED
  BY <1>3, <1>9, <1>10, <1>11

\* What a locked entry has decided stays decided, for machine mode too, once the
\* entries before it are locked (rv_csr_write keeps locked bytes and their addresses).
THEOREM LockedDecisions ==
    ASSUME AddressesExist, AccessesAreNarrow
    PROVE  PmpSpec => LockedDecisionsStay
<1>1. PmpInv /\ PmpInv' /\ CheckIsFirstMatch /\ CheckIsFirstMatch' /\ [PmpNext]_pmpVars =>
        [\A acc \in Accesses, m_mode \in BOOLEAN :
           LET met == Deciding(acc, m_mode) IN
           (met # {} /\ \A i \in 0..Min(met) : pmpcfg[i].l) =>
             PmpCheck(acc[1], acc[2], m_mode)' = PmpCheck(acc[1], acc[2], m_mode)]_pmpVars
  BY DecisionStays
<1>. QED
  BY <1>1, PmpInvInit, PmpInvStep, CheckDecides, PTL DEF PmpSpec, LockedDecisionsStay

-----------------------------------------------------------------------------
(* Registers                                                               *)

LEMMA PowerAdds ==
    ASSUME NEW m \in Nat, NEW n \in Nat
    PROVE  Pow(m + n) = Pow(m) * Pow(n)
<1> DEFINE Bad == {k \in Nat : Pow(m + k) # Pow(m) * Pow(k)}
<1>1. SUFFICES ASSUME Bad # {} PROVE FALSE
  OBVIOUS
<1>2. PICK k \in Bad : \A j \in Bad : k <= j
  <2>1. Bad \in SUBSET Nat
    OBVIOUS
  <2> HIDE DEF Bad
  <2>. QED
    BY <1>1, <2>1, MinExists
<1>3. k # 0
  <2>1. Pow(m) \in Nat /\ m + 0 = m
    BY PowIsPositive
  <2>2. Pow(m) * 1 = Pow(m)
    BY <2>1
  <2>. QED
    BY <2>1, <2>2, PowerOfZero
<1>4. k - 1 \in Nat /\ ~(k <= k - 1) /\ (k - 1) + 1 = k /\ (m + (k - 1)) + 1 = m + k
      /\ m + (k - 1) \in Nat
  BY <1>3
<1>5. Pow(m + (k - 1)) = Pow(m) * Pow(k - 1)
  BY <1>2, <1>4
<1>6. Pow(k) = 2 * Pow(k - 1) /\ Pow(m + k) = 2 * Pow(m + (k - 1))
  BY <1>4, PowerDoubles
<1>7. 2 * (Pow(m) * Pow(k - 1)) = Pow(m) * (2 * Pow(k - 1))
  <2>1. Pow(m) \in Int /\ Pow(k - 1) \in Int
    BY <1>4, PowIsPositive
  <2>. QED
    BY <2>1, Associates
<1>. QED
  BY <1>5, <1>6, <1>7

\* The lengths of the parts of a register, and the numbers of their values.
LEMMA Lengths ==
    /\ XLEN \in Nat \ {0} /\ HalfLen \in Nat \ {0} /\ ByteLen \in Nat \ {0}
    /\ XLEN = HalfLen + HalfLen /\ XLEN = 8 * ByteLen
BY ArithmeticAssumption DEF HalfLen, ByteLen

LEMMA LengthPowers ==
    /\ Words = 0..(Pow(XLEN) - 1) /\ Bytes = 0..(Pow(ByteLen) - 1)
    /\ \A i \in Int : Unsigned(i) = i % Pow(XLEN)
    /\ Pow(XLEN) \in Nat \ {0} /\ Pow(HalfLen) \in Nat \ {0}
    /\ Pow(XLEN) = Pow(HalfLen) * Pow(HalfLen)
    /\ XLEN - 1 \in Nat /\ Pow(XLEN) = 2 * Pow(XLEN - 1) /\ Pow(XLEN - 1) \in Nat \ {0}
    /\ HalfLen - 1 \in Nat /\ Pow(HalfLen) = 2 * Pow(HalfLen - 1)
    /\ Pow(HalfLen - 1) \in Nat \ {0}
<1>1. XLEN - 1 \in Nat /\ HalfLen - 1 \in Nat
      /\ (XLEN - 1) + 1 = XLEN /\ (HalfLen - 1) + 1 = HalfLen
  BY Lengths
<1>2. Pow(XLEN) = 2 * Pow(XLEN - 1) /\ Pow(HalfLen) = 2 * Pow(HalfLen - 1)
  BY <1>1, PowerDoubles
<1>3. Pow(XLEN) = Pow(HalfLen) * Pow(HalfLen)
  BY Lengths, PowerAdds
<1>4. /\ Words = 0..(Pow(XLEN) - 1) /\ Bytes = 0..(Pow(ByteLen) - 1)
      /\ \A i \in Int : Unsigned(i) = i % Pow(XLEN)
  BY DEF Words, Bytes, Unsigned, Pow
<1>5. /\ Pow(XLEN) \in Nat \ {0} /\ Pow(HalfLen) \in Nat \ {0}
      /\ Pow(XLEN - 1) \in Nat \ {0} /\ Pow(HalfLen - 1) \in Nat \ {0}
  BY <1>1, Lengths, PowIsPositive
<1>. QED
  BY <1>1, <1>2, <1>3, <1>4, <1>5

LEMMA SmallPowers ==
    /\ Pow(1) = 2 /\ Pow(2) = 4 /\ Pow(3) = 8 /\ Pow(4) = 16 /\ Pow(5) = 32
    /\ Pow(6) = 64 /\ Pow(7) = 128 /\ Pow(8) = 256
<1>1. Pow(0 + 1) = 2 * Pow(0) /\ Pow(1 + 1) = 2 * Pow(1) /\ Pow(2 + 1) = 2 * Pow(2)
      /\ Pow(3 + 1) = 2 * Pow(3) /\ Pow(4 + 1) = 2 * Pow(4) /\ Pow(5 + 1) = 2 * Pow(5)
      /\ Pow(6 + 1) = 2 * Pow(6) /\ Pow(7 + 1) = 2 * Pow(7)
  <2>1. \A n \in Nat : Pow(n + 1) = 2 * Pow(n)
    BY PowerDoubles
  <2>2. {0, 1, 2, 3, 4, 5, 6, 7} \subseteq Nat
    OBVIOUS
  <2>. QED
    BY <2>1, <2>2
<1>. QED
  BY <1>1, PowerOfZero

\* The value of bits is below the power of two of their number.
LEMMA BitsAre ==
    ASSUME NEW x \in Int, NEW lo \in Nat, NEW width \in Nat
    PROVE  Bits(x, lo, width) \in 0..(Pow(width) - 1)
<1>1. Pow(lo) \in Nat \ {0} /\ Pow(width) \in Nat \ {0}
  BY PowIsPositive
<1>2. x \div Pow(lo) \in Int
  BY <1>1, DivisionGives
<1>3. (x \div Pow(lo)) % Pow(width) \in 0..(Pow(width) - 1)
  BY <1>1, <1>2, DivisionGives
<1>. QED
  BY <1>3 DEF Bits, Pow

LEMMA LowBits ==
    ASSUME NEW x \in Int, NEW width \in Nat
    PROVE  Bits(x, 0, width) = x % Pow(width)
<1>1. x \div 1 = x
  OBVIOUS
<1>2. Bits(x, 0, width) = (x \div Pow(0)) % Pow(width)
  BY DEF Bits, Pow
<1>. QED
  BY <1>1, <1>2, PowerOfZero

\* SignExtend keeps the lower bits, and is the number that they stand for.
LEMMA SignExtendIs ==
    ASSUME NEW x \in Int, NEW width \in Nat \ {0}
    PROVE  LET m == Pow(width)
               h == Pow(width - 1)
           IN  /\ SignExtend(x, width) = IF x % m >= h THEN (x % m) - m ELSE x % m
               /\ m \in Nat \ {0} /\ h \in Nat \ {0} /\ m = 2 * h
               /\ SignExtend(x, width) \in (-h)..(h - 1)
               /\ SignExtend(x, width) % m = x % m
<1> DEFINE m == Pow(width)
           h == Pow(width - 1)
           c == x % m
           s == SignExtend(x, width)
<1>1. /\ width - 1 \in Nat /\ (width - 1) + 1 = width
      /\ m \in Nat \ {0} /\ h \in Nat \ {0} /\ m = 2 * h
  <2>1. width - 1 \in Nat /\ (width - 1) + 1 = width
    OBVIOUS
  <2>. QED
    BY <2>1, PowIsPositive, PowerDoubles
<1>2. s = IF c >= h THEN c - m ELSE c
  BY LowBits DEF SignExtend, Pow
<1>3. c \in 0..(m - 1)
  BY <1>1, DivisionGives
<1>4. c % m = c /\ (c - m) % m = c
  <2> HIDE DEF m, c
  <2>1. \A q \in Int : (m * q + c) % m = c
    BY <1>1, <1>3, RemainderIsUnique
  <2>2. m * 0 + c = c /\ m * (-1) + c = c - m
    BY <1>1, <1>3
  <2>3. (m * 0 + c) % m = c /\ (m * (-1) + c) % m = c
    BY <2>1
  <2>. QED
    BY <2>2, <2>3
<1>5. s \in (-h)..(h - 1) /\ s % m = c
  <2> HIDE DEF m, c, h, s
  <2>. QED
    BY <1>1, <1>2, <1>3, <1>4
<1>. QED
  BY <1>1, <1>2, <1>5

\* A multiple of the modulus does not change the remainder.
LEMMA MultipleVanishes ==
    ASSUME NEW m \in Nat \ {0}, NEW q \in Int, NEW x \in Int
    PROVE  (m * q + x) % m = x % m
<1> DEFINE k == x \div m
           c == x % m
<1>1. k \in Int /\ c \in 0..(m - 1) /\ x = m * k + c
  BY DivisionGives
<1> HIDE DEF k, c
<1>2. m * q + (m * k + c) = m * (q + k) + c
  BY <1>1
<1>3. (m * (q + k) + c) % m = c
  <2>1. q + k \in Int
    BY <1>1
  <2>. QED
    BY <1>1, <2>1, RemainderIsUnique
<1>. QED
  BY <1>1, <1>2, <1>3 DEF c

\* Of the remainder by a multiple of m, the remainder by m is that of the number.
LEMMA RemainderOfRemainder ==
    ASSUME NEW m \in Nat \ {0}, NEW k \in Nat \ {0}, NEW x \in Int
    PROVE  (x % (m * k)) % m = x % m
<1> DEFINE n == m * k
           q == x \div n
           c == x % n
<1>1. n \in Nat \ {0}
  <2>1. k > 0 /\ k \in Int
    OBVIOUS
  <2>2. n \in Int /\ n >= m
    BY <2>1, ProductGrows
  <2> HIDE DEF n
  <2>. QED
    BY <2>2
<1>2. q \in Int /\ c \in Int /\ x = n * q + c
  <2> HIDE DEF n
  <2>. QED
    BY <1>1, DivisionGives
<1>3. n * q = m * (k * q)
  <2> HIDE DEF q
  <2>. QED
    BY <1>2
<1>4. k * q \in Int
  BY <1>2
<1>5. (m * (k * q) + c) % m = c % m
  BY <1>2, <1>4, MultipleVanishes
<1>. QED
  BY <1>2, <1>3, <1>5

\* Numbers of the same remainder differ by a multiple.
LEMMA SameRemainder ==
    ASSUME NEW m \in Nat \ {0}, NEW a \in Int, NEW b \in Int, a % m = b % m
    PROVE  \E q \in Int : a = m * q + b
<1> DEFINE c == a % m
<1>1. /\ a \div m \in Int /\ b \div m \in Int /\ c \in Int
      /\ a = m * (a \div m) + c /\ b = m * (b \div m) + c
  BY DivisionGives
<1> DEFINE j == a \div m
           k == b \div m
<1>2. j \in Int /\ k \in Int /\ a = m * j + c /\ b = m * k + c
  BY <1>1
<1> HIDE DEF j, k, c
<1>3. m * j + c = m * (j - k) + (m * k + c)
  BY <1>1, <1>2
<1>4. j - k \in Int /\ a = m * (j - k) + b
  BY <1>2, <1>3
<1>. QED
  BY <1>4

-----------------------------------------------------------------------------
(* Operands and results                                                    *)

\* The length of the operands of an instruction.
Width(i) == IF IsWord(i) THEN HalfLen ELSE XLEN

LEMMA WidthPowers ==
    ASSUME NEW i
    PROVE  /\ Width(i) \in Nat \ {0}
           /\ Pow(Width(i)) \in Nat \ {0} /\ Pow(Width(i) - 1) \in Nat \ {0}
           /\ Pow(Width(i)) = 2 * Pow(Width(i) - 1)
           /\ \E k \in Nat \ {0} : Pow(XLEN) = Pow(Width(i)) * k
           /\ Lowest(i) = -Pow(Width(i) - 1)
<1>1. \E k \in Nat \ {0} : Pow(XLEN) = Pow(Width(i)) * k
  <2>1. Width(i) \in Nat /\ XLEN \in Nat /\ Width(i) <= XLEN
    BY Lengths DEF Width
  <2>. QED
    BY <2>1, PowerDivides
<1>2. Lowest(i) = -Pow(Width(i) - 1)
  BY DEF Lowest, Pow, Width
<1>. QED
  BY <1>1, <1>2, Lengths, LengthPowers DEF Width

\* The operands are what the lower bits of the registers stand for.
LEMMA Operands ==
    ASSUME NEW i, NEW v \in Words
    PROVE  LET m == Pow(Width(i))
               h == Pow(Width(i) - 1)
           IN  /\ Low(i, v) = v % m /\ Low(i, v) \in 0..(m - 1)
               /\ Value(i, v) = IF v % m >= h THEN (v % m) - m ELSE v % m
               /\ Value(i, v) \in (-h)..(h - 1)
               /\ Value(i, v) % m = v % m
<1>1. v \in Int /\ Width(i) \in Nat \ {0} /\ Pow(Width(i)) \in Nat \ {0}
  <2>1. v \in 0..(Pow(XLEN) - 1)
    BY LengthPowers
  <2>. QED
    BY <2>1, WidthPowers
<1>2. Low(i, v) = v % Pow(Width(i))
  <2>1. CASE IsWord(i)
    BY <2>1 DEF Low, Width, Pow
  <2>2. CASE ~IsWord(i)
    <3>1. v \in 0..(Pow(XLEN) - 1) /\ Pow(XLEN) \in Nat \ {0}
      BY LengthPowers
    <3>2. v % Pow(XLEN) = v
      BY <3>1
    <3>. QED
      BY <2>2, <3>2 DEF Low, Width
  <2>. QED
    BY <2>1, <2>2
<1>3. Value(i, v) = SignExtend(v, Width(i))
  BY DEF Value, Signed, SignedHalf, Width
<1>4. v % Pow(Width(i)) \in 0..(Pow(Width(i)) - 1)
  BY <1>1, DivisionGives
<1>. QED
  BY <1>1, <1>2, <1>3, <1>4, SignExtendIs

\* A result in a register has the lower bits of the number.
LEMMA ResultKeeps ==
    ASSUME NEW i, NEW n \in Int
    PROVE  /\ Result(i, n) \in Words
           /\ Result(i, n) % Pow(Width(i)) = n % Pow(Width(i))
<1> DEFINE m == Pow(Width(i))
           l == Pow(XLEN)
           u == IF IsWord(i) THEN SignedHalf(n) ELSE n
<1>1. u \in Int /\ u % m = n % m
  <2>1. CASE IsWord(i)
    <3>1. Width(i) = HalfLen /\ HalfLen \in Nat \ {0} /\ u = SignExtend(n, HalfLen)
      BY <2>1, Lengths DEF Width, SignedHalf
    <3>2. /\ SignExtend(n, HalfLen) \in (-Pow(HalfLen - 1))..(Pow(HalfLen - 1) - 1)
          /\ SignExtend(n, HalfLen) % Pow(HalfLen) = n % Pow(HalfLen)
      BY <3>1, SignExtendIs
    <3>. QED
      BY <3>1, <3>2
  <2>. QED
    BY <2>1
<1>2. Result(i, n) = u % l
  BY <1>1, LengthPowers DEF Result
<1>3. l \in Nat \ {0} /\ m \in Nat \ {0} /\ Words = 0..(l - 1)
  BY LengthPowers, WidthPowers
<1>4. PICK k \in Nat \ {0} : l = m * k
  BY WidthPowers
<1> HIDE DEF m, l, u
<1>5. u % l \in 0..(l - 1)
  BY <1>1, <1>3, DivisionGives
<1>6. (u % (m * k)) % m = u % m
  BY <1>1, <1>3, RemainderOfRemainder
<1>. QED
  BY <1>1, <1>2, <1>3, <1>4, <1>5, <1>6 DEF m

\* The number that was put in a register is the number that is read from it.
LEMMA ResultIsRead ==
    ASSUME NEW i, NEW n \in Int
    PROVE  LET m == Pow(Width(i))
               h == Pow(Width(i) - 1)
           IN  /\ Low(i, Result(i, n)) = n % m
               /\ n \in (-h)..(h - 1) => Value(i, Result(i, n)) = n
               /\ n \in 0..(m - 1) => Low(i, Result(i, n)) = n
<1> DEFINE m == Pow(Width(i))
           h == Pow(Width(i) - 1)
           v == Result(i, n)
<1>1. m \in Nat \ {0} /\ h \in Nat \ {0} /\ m = 2 * h
  BY WidthPowers
<1>2. v \in Words /\ v % m = n % m
  BY ResultKeeps
<1>3. /\ Low(i, v) = v % m
      /\ Value(i, v) = IF v % m >= h THEN (v % m) - m ELSE v % m
  BY <1>2, Operands
<1>4. n \in 0..(m - 1) => n % m = n
  <2> HIDE DEF m
  <2>. QED
    BY <1>1
<1>5. n \in (-h)..(-1) => n % m = n + m
  <2> SUFFICES ASSUME n \in (-h)..(-1) PROVE n % m = n + m
    OBVIOUS
  <2> DEFINE c == n + m
  <2>1. c \in 0..(m - 1) /\ m * (-1) + c = n /\ -1 \in Int
    <3> HIDE DEF m, h
    <3>. QED
      BY <1>1
  <2> HIDE DEF m, h, c
  <2>2. \A q \in Int : (m * q + c) % m = c
    BY <1>1, <2>1, RemainderIsUnique
  <2>3. (m * (-1) + c) % m = c
    BY <2>1, <2>2
  <2>. QED
    BY <2>1, <2>3 DEF c
<1>6. n \in (-h)..(h - 1) => Value(i, v) = n
  <2> DEFINE c == n % m
             w == Value(i, v)
  <2>1. /\ w = IF c >= h THEN c - m ELSE c
        /\ n \in 0..(m - 1) => c = n
        /\ n \in (-h)..(-1) => c = n + m
    BY <1>2, <1>3, <1>4, <1>5
  <2> HIDE DEF m, h, c, w
  <2>2. n \in (-h)..(h - 1) => w = n
    BY <1>1, <2>1
  <2>. QED
    BY <2>2 DEF w
<1>. QED
  BY <1>2, <1>3, <1>4, <1>6

-----------------------------------------------------------------------------
(* Division                                                                *)

LEMMA Quotients ==
    ASSUME NEW a \in Nat, NEW b \in Nat \ {0}
    PROVE  LET k == a \div b
           IN  /\ k \in Nat /\ b * k \in Nat /\ b * k <= a /\ a < b * k + b
               /\ k <= a /\ (b >= 2 => 2 * k <= a)
<1> DEFINE k == a \div b
           c == a % b
           d == b * k
<1>1. k \in Int /\ c \in 0..(b - 1) /\ a = d + c
  BY DivisionGives
<1> HIDE DEF k, c
<1>2. d \in Int /\ d <= a /\ a < d + b
  <2>1. d \in Int
    BY <1>1
  <2> HIDE DEF d
  <2>. QED
    BY <1>1, <2>1
<1>3. k >= 0
  <2>1. k < 0 => d <= -b
    <3>1. k < 0 => -k > 0 /\ -k \in Int
      BY <1>1
    <3>2. k < 0 => b * (-k) >= b
      BY <3>1, ProductGrows
    <3>3. b * (-k) = -d
      BY <1>1
    <3> HIDE DEF d
    <3>. QED
      BY <1>2, <3>2, <3>3
  <2> HIDE DEF d
  <2>. QED
    BY <1>1, <1>2, <2>1
<1>4. d >= k /\ (b >= 2 => d >= 2 * k)
  <2>1. d = k + (b - 1) * k /\ d = 2 * k + (b - 2) * k
    BY <1>1
  <2>2. \A e \in Nat : e * k \in Nat
    BY <1>1, <1>3
  <2> HIDE DEF d
  <2>3. b - 1 \in Nat /\ (b >= 2 => b - 2 \in Nat)
    OBVIOUS
  <2>. QED
    BY <1>1, <1>2, <2>1, <2>2, <2>3
<1>5. k \in Nat /\ d \in Nat /\ d <= a /\ a < d + b /\ k <= a /\ (b >= 2 => 2 * k <= a)
  <2>1. d >= 0
    BY <1>1, <1>3, ProductGrows
  <2> HIDE DEF d
  <2>. QED
    BY <1>1, <1>2, <1>3, <1>4, <2>1
<1>. QED
  BY <1>5 DEF k

\* The division of C: the dividend is the quotient times the divisor plus the
\* remainder, which is smaller than the divisor and has the dividend's sign.
LEMMA CDivision ==
    ASSUME NEW x \in Int, NEW y \in Int, y # 0
    PROVE  LET q == CQuotient(x, y)
               r == CRemainder(x, y)
           IN  /\ q \in Int /\ r \in Int
               /\ x = q * y + r
               /\ Magnitude(r) < Magnitude(y)
               /\ r = 0 \/ (r < 0 <=> x < 0)
               /\ \A h \in Nat \ {0} :
                    x \in (-h)..(h - 1) /\ ~(x = -h /\ y = -1) => q \in (-h)..(h - 1)
<1> DEFINE a == Magnitude(x)
           b == Magnitude(y)
           k == a \div b
           q == CQuotient(x, y)
           r == CRemainder(x, y)
           d == b * k
<1>1. a \in Nat /\ b \in Nat \ {0}
      /\ (x < 0 => x = -a) /\ (x >= 0 => x = a) /\ (y < 0 => y = -b) /\ (y > 0 => y = b)
  BY DEF Magnitude
<1>2. k \in Nat /\ d \in Nat /\ d <= a /\ a < d + b /\ k <= a /\ (b >= 2 => 2 * k <= a)
  <2> HIDE DEF a, b
  <2>. QED
    BY <1>1, Quotients
<1>3. q = IF (x < 0) = (y < 0) THEN k ELSE -k
  BY DEF CQuotient
<1>4. r = x - y * q
  BY DEF CRemainder
<1> HIDE DEF a, b, k, q, r
<1>5. q \in Int
  BY <1>2, <1>3
<1>6. y * q = q * y /\ q * y \in Int /\ y * q = IF x < 0 THEN -d ELSE d
  <2>1. y * q = q * y /\ q * y \in Int
    BY <1>5
  <2>2. b * (-k) = -d /\ (-b) * k = -d /\ (-b) * (-k) = d
    BY <1>1, <1>2
  <2>3. CASE x < 0 /\ y < 0
    <3>1. q = k /\ y = -b
      BY <1>1, <1>3, <2>3
    <3>. QED
      BY <2>1, <2>2, <2>3, <3>1
  <2>4. CASE x < 0 /\ y > 0
    <3>1. q = -k /\ y = b
      BY <1>1, <1>3, <2>4
    <3>. QED
      BY <2>1, <2>2, <2>4, <3>1
  <2>5. CASE x >= 0 /\ y < 0
    <3>1. q = -k /\ y = -b
      BY <1>1, <1>3, <2>5
    <3>. QED
      BY <2>1, <2>2, <2>5, <3>1
  <2>6. CASE x >= 0 /\ y > 0
    <3>1. q = k /\ y = b
      BY <1>1, <1>3, <2>6
    <3>. QED
      BY <2>1, <2>2, <2>6, <3>1
  <2>. QED
    BY <2>3, <2>4, <2>5, <2>6
<1> DEFINE p == q * y
<1> HIDE DEF p, d
<1>7. r \in Int /\ x = p + r /\ r = IF x < 0 THEN d - a ELSE a - d
  BY <1>1, <1>2, <1>4, <1>6 DEF p
<1>8. Magnitude(r) < b
  BY <1>1, <1>2, <1>7 DEF Magnitude
<1>9. r = 0 \/ (r < 0 <=> x < 0)
  BY <1>1, <1>2, <1>7
<1>10. ASSUME NEW h \in Nat \ {0}, x \in (-h)..(h - 1), ~(x = -h /\ y = -1)
       PROVE  q \in (-h)..(h - 1)
  <2>1. a <= h /\ (a = h => x = -h)
    BY <1>1, <1>10
  <2>2. CASE b = 1
    <3>1. a = h => y = 1
      BY <1>1, <1>10, <2>1, <2>2
    <3>2. a = h => q = -k
      BY <1>1, <1>3, <1>10, <2>1, <3>1
    <3>. QED
      BY <1>1, <1>2, <1>3, <2>1, <3>2
  <2>3. CASE b >= 2
    BY <1>1, <1>2, <1>3, <2>1, <2>3
  <2>. QED
    BY <1>1, <2>2, <2>3
<1>. QED
  BY <1>5, <1>7, <1>8, <1>9, <1>10 DEF p, b, q, r

\* The quotient and the remainder fit in a register.
LEMMA Fits ==
    ASSUME NEW i, NEW a \in Words, NEW b \in Words
    PROVE  LET h == Pow(Width(i) - 1)
           IN  Quotient(i, a, b) \in (-h)..(h - 1) /\ Remainder(i, a, b) \in (-h)..(h - 1)
<1> DEFINE h == Pow(Width(i) - 1)
           x == Value(i, a)
           y == Value(i, b)
<1>1. h \in Nat \ {0} /\ Lowest(i) = -h /\ x \in (-h)..(h - 1) /\ y \in (-h)..(h - 1)
  BY WidthPowers, Operands
<1>2. /\ Quotient(i, a, b) =
           IF y = 0 THEN -1 ELSE IF x = -h /\ y = -1 THEN -h ELSE CQuotient(x, y)
      /\ Remainder(i, a, b) =
           IF y = 0 THEN x ELSE IF x = -h /\ y = -1 THEN 0 ELSE CRemainder(x, y)
  BY <1>1 DEF Quotient, Remainder
<1> HIDE DEF h, x, y
<1>3. CASE y = 0
  BY <1>1, <1>2, <1>3 DEF h
<1>4. CASE x = -h /\ y = -1
  BY <1>1, <1>2, <1>4 DEF h
<1>5. CASE y # 0 /\ ~(x = -h /\ y = -1)
  <2>1. x \in Int /\ y \in Int
    BY <1>1
  <2>2. /\ CQuotient(x, y) \in (-h)..(h - 1)
        /\ CRemainder(x, y) \in Int /\ Magnitude(CRemainder(x, y)) < Magnitude(y)
        /\ CRemainder(x, y) = 0 \/ (CRemainder(x, y) < 0 <=> x < 0)
    BY <1>1, <1>5, <2>1, CDivision
  <2>3. CRemainder(x, y) \in (-h)..(h - 1)
    BY <1>1, <2>2 DEF Magnitude
  <2>. QED
    BY <1>2, <1>5, <2>2, <2>3 DEF h
<1>. QED
  BY <1>3, <1>4, <1>5

\* What the instruction of another funct3, of the same width, computes.
WithFunct(i, f) == [i EXCEPT !.funct3 = f]

LEMMA OtherFunct ==
    ASSUME NEW i \in Insns, NEW f \in 0..7, NEW a, NEW b
    PROVE  LET c == MulDivResult(WithFunct(i, f), a, b)
           IN  /\ f = 0 => c = Result(i, Value(i, a) * Value(i, b))
               /\ f \in 1..3 => c = Result(i, HighProduct(WithFunct(i, f), a, b))
               /\ f = 4 => c = Result(i, Quotient(i, a, b))
               /\ f = 5 => c = Result(i, IF Low(i, b) = 0 THEN -1
                                         ELSE Low(i, a) \div Low(i, b))
               /\ f = 6 => c = Result(i, Remainder(i, a, b))
               /\ f = 7 => c = Result(i, IF Low(i, b) = 0 THEN Low(i, a)
                                         ELSE Low(i, a) % Low(i, b))
<1> DEFINE j == WithFunct(i, f)
<1>1. j.funct3 = f /\ j.opcode = i.opcode
  BY DEF Insns, WithFunct
<1>2. IsWord(j) <=> IsWord(i)
  BY <1>1 DEF IsWord
<1> HIDE DEF j
<1>3. /\ \A v : Low(j, v) = Low(i, v) /\ Value(j, v) = Value(i, v)
                  /\ Result(j, v) = Result(i, v)
      /\ Lowest(j) = Lowest(i)
  <2>1. CASE IsWord(i)
    BY <1>2, <2>1, Zenon DEF Low, Value, Result, Lowest
  <2>2. CASE ~IsWord(i)
    BY <1>2, <2>2, Zenon DEF Low, Value, Result, Lowest
  <2>. QED
    BY <2>1, <2>2
<1>4. Quotient(j, a, b) = Quotient(i, a, b) /\ Remainder(j, a, b) = Remainder(i, a, b)
  <2>1. /\ Value(j, a) = Value(i, a) /\ Value(j, b) = Value(i, b)
        /\ Lowest(j) = Lowest(i)
    BY <1>3
  <2>. QED
    BY <2>1 DEF Quotient, Remainder
<1>. QED
  BY <1>1, <1>3, <1>4 DEF MulDivResult, j

\* An instruction that is not illegal writes its result.
LEMMA MulDivWrites ==
    ASSUME TypeOK, NEW i \in insn, MulDiv(i), ~MulDivIllegal(i), i.rd # 0
    PROVE  /\ i \in Insns
           /\ xregs[i.rs1] \in Words /\ xregs[i.rs2] \in Words
           /\ i = WithFunct(i, i.funct3)
           /\ xregs'[i.rd] = MulDivResult(i, xregs[i.rs1], xregs[i.rs2])
<1>1. i \in Insns /\ xregs \in [Regs -> Words]
  BY DEF TypeOK
<1>2. i.rs1 \in Regs /\ i.rs2 \in Regs /\ i.rd \in Regs
      /\ i = WithFunct(i, i.funct3)
  BY <1>1 DEF Insns, Regs, WithFunct
<1>3. xregs' = [xregs EXCEPT ![i.rd] = MulDivResult(i, xregs[i.rs1], xregs[i.rs2])]
  BY DEF MulDiv, WriteX
<1>. QED
  BY <1>1, <1>2, <1>3

LEMMA DivisionStep ==
    ASSUME TypeOK, NEW i \in insn, MulDiv(i), i.funct3 >= 4, i.rd # 0
    PROVE  LET signed == i.funct3 \in {4, 6}
               Number(v) == IF signed THEN Value(i, v) ELSE Low(i, v)
               x == Number(xregs[i.rs1])
               y == Number(xregs[i.rs2])
               Of(f) == Number(IF i.funct3 = f THEN xregs'[i.rd]
                               ELSE MulDivResult([i EXCEPT !.funct3 = f],
                                                 xregs[i.rs1], xregs[i.rs2]))
               q == Of(IF signed THEN 4 ELSE 5)
               r == Of(IF signed THEN 6 ELSE 7)
           IN  CASE y = 0 -> q = Number(2^XLEN - 1) /\ r = x
                 [] signed /\ x = Lowest(i) /\ y = -1 -> q = x /\ r = 0
                 [] OTHER -> /\ x = q * y + r
                             /\ Magnitude(r) < Magnitude(y)
                             /\ r = 0 \/ (r < 0 <=> x < 0)
<1> DEFINE signed == i.funct3 \in {4, 6}
           Number(v) == IF signed THEN Value(i, v) ELSE Low(i, v)
           a == xregs[i.rs1]
           b == xregs[i.rs2]
           x == Number(a)
           y == Number(b)
           Computed(f) == MulDivResult(WithFunct(i, f), a, b)
           Of(f) == Number(IF i.funct3 = f THEN xregs'[i.rd] ELSE Computed(f))
           q == Of(IF signed THEN 4 ELSE 5)
           r == Of(IF signed THEN 6 ELSE 7)
           m == Pow(Width(i))
           h == Pow(Width(i) - 1)
           most == 2^XLEN - 1
           Law == CASE y = 0 -> q = Number(most) /\ r = x
                    [] signed /\ x = Lowest(i) /\ y = -1 -> q = x /\ r = 0
                    [] OTHER -> /\ x = q * y + r
                                /\ Magnitude(r) < Magnitude(y)
                                /\ r = 0 \/ (r < 0 <=> x < 0)
<1>0. SUFFICES Law
  BY DEF WithFunct
<1>1. i \in Insns /\ i.funct3 \in {4, 5, 6, 7}
  <2>1. i \in Insns
    BY DEF TypeOK
  <2>. QED
    BY <2>1 DEF Insns
<1>2. /\ a \in Words /\ b \in Words
      /\ i = WithFunct(i, i.funct3)
      /\ xregs'[i.rd] = MulDivResult(i, a, b)
  <2>1. ~MulDivIllegal(i)
    BY <1>1 DEF MulDivIllegal
  <2>. QED
    BY <2>1, MulDivWrites
<1>3. \A f \in 0..7 : Of(f) = Number(Computed(f))
  BY <1>2
<1>4. /\ m \in Nat \ {0} /\ h \in Nat \ {0} /\ m = 2 * h /\ Lowest(i) = -h
  BY WidthPowers
<1>5. most \in Words /\ most % m = m - 1
  <2>1. most = Pow(XLEN) - 1 /\ Pow(XLEN) \in Nat \ {0} /\ Words = 0..(Pow(XLEN) - 1)
    BY LengthPowers DEF Pow
  <2>2. PICK k \in Nat \ {0} : Pow(XLEN) = m * k
    BY WidthPowers
  <2> HIDE DEF most, m
  <2>3. most \in Words
    BY <2>1
  <2>4. most = m * (k - 1) + (m - 1) /\ k - 1 \in Int /\ m - 1 \in 0..(m - 1)
    BY <1>4, <2>1, <2>2, SMTT(60)
  <2>5. (m * (k - 1) + (m - 1)) % m = m - 1
    BY <1>4, <2>4, RemainderIsUnique
  <2>. QED
    BY <2>3, <2>4, <2>5
<1> HIDE DEF m, h, most
<1>6. CASE signed
  <2>1. /\ x = Value(i, a) /\ y = Value(i, b)
        /\ q = Value(i, Computed(4)) /\ r = Value(i, Computed(6))
    BY <1>3, <1>6
  <2>2. Computed(4) = Result(i, Quotient(i, a, b)) /\ Computed(6) = Result(i, Remainder(i, a, b))
    <3>1. 4 \in 0..7 /\ 6 \in 0..7
      OBVIOUS
    <3>. QED
      BY <1>1, <3>1, OtherFunct
  <2>3. Quotient(i, a, b) \in (-h)..(h - 1) /\ Remainder(i, a, b) \in (-h)..(h - 1)
    BY <1>2, Fits DEF h
  <2>4. Quotient(i, a, b) \in Int /\ Remainder(i, a, b) \in Int
    BY <1>4, <2>3
  <2>5. q = Quotient(i, a, b) /\ r = Remainder(i, a, b)
    BY <2>1, <2>2, <2>3, <2>4, ResultIsRead DEF h
  <2>6. x \in (-h)..(h - 1) /\ y \in (-h)..(h - 1)
    BY <1>2, <2>1, Operands DEF h
  <2>7. /\ q = IF y = 0 THEN -1 ELSE IF x = -h /\ y = -1 THEN -h ELSE CQuotient(x, y)
        /\ r = IF y = 0 THEN x ELSE IF x = -h /\ y = -1 THEN 0 ELSE CRemainder(x, y)
    BY <1>4, <2>1, <2>5 DEF Quotient, Remainder
  <2>8. Number(most) = -1
    <3>1. Value(i, most) = IF most % m >= h THEN (most % m) - m ELSE most % m
      BY <1>5, Operands DEF m, h
    <3>2. Value(i, most) = -1
      BY <1>4, <1>5, <3>1
    <3>. QED
      BY <1>6, <3>2
  <2> HIDE DEF Number, x, y, q, r
  <2>9. CASE y = 0
    BY <1>4, <2>6, <2>7, <2>8, <2>9
  <2>10. CASE x = -h /\ y = -1
    BY <1>4, <1>6, <2>6, <2>7, <2>10
  <2>11. CASE y # 0 /\ ~(x = -h /\ y = -1)
    <3>1. q = CQuotient(x, y) /\ r = CRemainder(x, y) /\ x \in Int /\ y \in Int
      BY <1>4, <2>6, <2>7, <2>11
    <3>2. /\ x = q * y + r
          /\ Magnitude(r) < Magnitude(y)
          /\ r = 0 \/ (r < 0 <=> x < 0)
      BY <2>11, <3>1, CDivision
    <3>. QED
      BY <1>4, <2>11, <3>2
  <2>. QED
    BY <2>9, <2>10, <2>11
<1>7. CASE ~signed
  <2>1. /\ x = Low(i, a) /\ y = Low(i, b)
        /\ q = Low(i, Computed(5)) /\ r = Low(i, Computed(7))
    BY <1>3, <1>7
  <2>2. /\ Computed(5) = Result(i, IF y = 0 THEN -1 ELSE x \div y)
        /\ Computed(7) = Result(i, IF y = 0 THEN x ELSE x % y)
    <3>1. 5 \in 0..7 /\ 7 \in 0..7
      OBVIOUS
    <3>2. /\ Computed(5) = Result(i, IF Low(i, b) = 0 THEN -1
                                    ELSE Low(i, a) \div Low(i, b))
          /\ Computed(7) = Result(i, IF Low(i, b) = 0 THEN Low(i, a)
                                    ELSE Low(i, a) % Low(i, b))
      BY <1>1, <3>1, OtherFunct
    <3>. QED
      BY <2>1, <3>2, Zenon
  <2>3. x \in 0..(m - 1) /\ y \in 0..(m - 1)
    BY <1>2, <2>1, Operands DEF m
  <2>4. Number(most) = m - 1
    <3>1. Low(i, most) = most % m
      BY <1>5, Operands DEF m
    <3>. QED
      BY <1>5, <1>7, <3>1
  <2> HIDE DEF Number, x, y, q, r, Computed
  <2>5. CASE y = 0
    <3>1. q = (-1) % m /\ r = x
      <4>1. Computed(5) = Result(i, -1) /\ Computed(7) = Result(i, x)
        BY <2>2, <2>5
      <4>2. Low(i, Result(i, -1)) = (-1) % m /\ Low(i, Result(i, x)) = x
        BY <1>4, <2>3, ResultIsRead DEF m
      <4>. QED
        BY <2>1, <4>1, <4>2
    <3>2. (-1) % m = m - 1
      <4>1. m * (-1) + (m - 1) = -1 /\ -1 \in Int /\ m - 1 \in 0..(m - 1)
        BY <1>4
      <4>2. \A k \in Int : (m * k + (m - 1)) % m = m - 1
        BY <1>4, <4>1, RemainderIsUnique
      <4>3. (m * (-1) + (m - 1)) % m = m - 1
        BY <4>1, <4>2
      <4>. QED
        BY <4>1, <4>3
    <3>. QED
      BY <2>3, <2>4, <2>5, <3>1, <3>2
  <2>6. CASE y # 0
    <3> DEFINE k == x \div y
               c == x % y
    <3>1. k \in Int /\ c \in 0..(y - 1) /\ x = y * k + c /\ k \in 0..x
      <4>1. y \in Nat \ {0} /\ x \in Nat
        BY <1>4, <2>3, <2>6
      <4>2. k \in Int /\ c \in 0..(y - 1) /\ x = y * k + c
        BY <4>1, DivisionGives
      <4>3. k \in Nat /\ k <= x
        BY <4>1, Quotients
      <4>. QED
        BY <4>1, <4>2, <4>3
    <3>2. Computed(5) = Result(i, k) /\ Computed(7) = Result(i, c)
      BY <2>2, <2>6
    <3> HIDE DEF k, c
    <3>3. k \in 0..(m - 1) /\ c \in 0..(m - 1)
      BY <1>4, <2>3, <3>1
    <3>4. q = k /\ r = c
      BY <1>4, <2>1, <3>1, <3>2, <3>3, ResultIsRead DEF m
    <3>5. y * k = k * y
      BY <2>3, <3>1
    <3>6. Magnitude(r) < Magnitude(y) /\ ~(r < 0) /\ ~(x < 0) /\ y # -1
      BY <1>4, <2>3, <2>6, <3>1, <3>4 DEF Magnitude
    <3>. QED
      BY <1>7, <2>6, <3>1, <3>4, <3>5, <3>6
  <2>. QED
    BY <2>5, <2>6
<1>. QED
  BY <1>6, <1>7

-----------------------------------------------------------------------------
(* Products                                                                *)

Congruent(a, b, m) == a % m = b % m

\* The product of numbers that differ by multiples of m differs by a multiple of m.
LEMMA ProductRemainder ==
    ASSUME NEW m \in Nat \ {0}, NEW a \in Int, NEW b \in Int, NEW c \in Int, NEW d \in Int,
           Congruent(a, c, m), Congruent(b, d, m)
    PROVE  Congruent(a * b, c * d, m)
<1>0. a % m = c % m /\ b % m = d % m
  BY DEF Congruent
<1>1. PICK j \in Int : a = m * j + c
  BY <1>0, SameRemainder
<1>2. PICK k \in Int : b = m * k + d
  BY <1>0, SameRemainder
<1> DEFINE q == j * b + c * k
<1>3. a * b = m * q + c * d
  <2>1. a * b = m * (j * b) + c * b
    BY <1>1
  <2>2. c * b = m * (c * k) + c * d
    BY <1>2
  <2>3. m * (j * b) + m * (c * k) = m * (j * b + c * k)
    <3>1. j * b \in Int /\ c * k \in Int
      OBVIOUS
    <3>. QED
      BY <3>1
  <2>4. m * (j * b) \in Int /\ m * (c * k) \in Int /\ c * d \in Int /\ c * b \in Int
    OBVIOUS
  <2>. QED
    BY <2>1, <2>2, <2>3, <2>4
<1>4. q \in Int /\ c * d \in Int
  OBVIOUS
<1> HIDE DEF q
<1>5. (m * q + c * d) % m = (c * d) % m
  BY <1>4, MultipleVanishes
<1>. QED
  BY <1>3, <1>5 DEF Congruent

\* The product of a signed number and a number of twice its range
LEMMA ProductBounds ==
    ASSUME NEW h \in Nat \ {0}, NEW s \in (-h)..(h - 1), NEW t \in (-h)..(2 * h - 1)
    PROVE  s * t \in (-(h * (2 * h)))..(h * (2 * h) - 1)
<1> DEFINE M == h * (2 * h)
<1>1. s \in Int /\ t \in Int /\ s * t \in Int /\ M \in Int
  OBVIOUS
<1>2. /\ \A u \in 0..h, v \in 0..(2 * h) : u * v \in Int /\ u * v >= 0 /\ u * v <= M
      /\ \A u \in 0..h, v \in 0..(2 * h - 1) : u * v < M
  <2>1. ASSUME NEW u \in 0..h, NEW v \in 0..(2 * h)
        PROVE  u * v \in Int /\ u * v >= 0 /\ u * v <= M
    <3>1. u \in Int /\ v \in Int /\ u >= 0 /\ v >= 0 /\ h - u >= 0 /\ 2 * h - v >= 0
      OBVIOUS
    <3>2. u * v >= 0 /\ u * (2 * h - v) >= 0 /\ (h - u) * (2 * h) >= 0
      BY <3>1
    <3>3. M - u * v = (h - u) * (2 * h) + u * (2 * h - v)
      BY <3>1
    <3>. QED
      BY <1>1, <3>1, <3>2, <3>3
  <2>2. ASSUME NEW u \in 0..h, NEW v \in 0..(2 * h - 1)
        PROVE  u * v < M
    <3>1. v + 1 \in 0..(2 * h) /\ v \in 0..(2 * h)
      OBVIOUS
    <3>2. u * (v + 1) <= M /\ u * v <= M /\ u * v \in Int /\ u * (v + 1) \in Int
      BY <2>1, <3>1
    <3>3. u * (v + 1) = u * v + u
      OBVIOUS
    <3>4. u = 0 => u * v = 0 /\ M > 0
      OBVIOUS
    <3>. QED
      BY <1>1, <3>2, <3>3, <3>4
  <2>. QED
    BY <2>1, <2>2
<1>3. CASE s >= 0 /\ t >= 0
  <2>1. s * t < M /\ s * t >= 0 /\ M >= 0
    BY <1>2, <1>3
  <2>. QED
    BY <1>1, <2>1
<1>4. CASE s < 0 /\ t >= 0
  <2>1. -s \in 0..h /\ t \in 0..(2 * h) /\ (-s) * t = -(s * t)
    BY <1>4
  <2>2. -(s * t) >= 0 /\ -(s * t) <= M /\ M > 0
    BY <1>2, <2>1
  <2>. QED
    BY <1>1, <2>2
<1>5. CASE s >= 0 /\ t < 0
  <2>1. s \in 0..h /\ -t \in 0..(2 * h) /\ s * (-t) = -(s * t)
    BY <1>5
  <2>2. -(s * t) >= 0 /\ -(s * t) <= M /\ M > 0
    BY <1>2, <2>1
  <2>. QED
    BY <1>1, <2>2
<1>6. CASE s < 0 /\ t < 0
  <2>1. -s \in 0..h /\ -t \in 0..(2 * h - 1) /\ (-s) * (-t) = s * t
    BY <1>6
  <2>2. s * t < M /\ s * t >= 0 /\ M >= 0
    BY <1>2, <2>1
  <2>. QED
    BY <1>1, <2>2
<1>. QED
  BY <1>3, <1>4, <1>5, <1>6

LEMMA UnsignedBounds ==
    ASSUME NEW m \in Nat \ {0}, NEW s \in 0..(m - 1), NEW t \in 0..(m - 1)
    PROVE  s * t \in 0..(m * m - 1)
<1>1. s \in Int /\ t \in Int /\ m - s >= 1 /\ m - t >= 1 /\ s >= 0 /\ t >= 0
  OBVIOUS
<1>2. s * t \in Int /\ s * t >= 0 /\ s * m \in Int /\ m * m \in Int
  BY <1>1
<1>3. s * (m - t) >= 0 /\ s * (m - t) = s * m - s * t
  BY <1>1
<1>4. m * (m - s) >= m /\ m * (m - s) = m * m - s * m
  <2>1. m - s > 0 /\ m - s \in Int
    BY <1>1
  <2>2. m * (m - s) >= m
    BY <2>1, ProductGrows
  <2>3. m * (m - s) = m * m - s * m
    BY <1>1
  <2>. QED
    BY <2>2, <2>3
<1> DEFINE p == s * t
           q == s * m
           r == m * m
<1>5. p \in Int /\ p >= 0 /\ q \in Int /\ r \in Int /\ q - p >= 0 /\ r - q >= m
  BY <1>2, <1>3, <1>4
<1> HIDE DEF p, q, r
<1>6. p \in 0..(r - 1)
  BY <1>5
<1>. QED
  BY <1>6 DEF p, r

\* A quotient is between bounds of which the multiples enclose the number.
LEMMA QuotientBounds ==
    ASSUME NEW m \in Nat \ {0}, NEW n \in Int, NEW c \in 0..(m - 1),
           NEW lo \in Int, NEW hi \in Int, m * lo <= m * n + c, m * n + c < m * hi
    PROVE  lo <= n /\ n < hi
<1> DEFINE d == m * n
           e == m * lo
           f == m * hi
<1>1. d \in Int /\ e \in Int /\ f \in Int
  OBVIOUS
<1>2. /\ m * (n - lo + 1) = d - e + m
      /\ m * (hi - n) = f - d
  OBVIOUS
<1> HIDE DEF d, e, f
<1>3. d - e + m > 0 /\ f - d > 0
  BY <1>1 DEF d, e, f
<1>4. n - lo + 1 \in Int /\ hi - n \in Int
  OBVIOUS
<1>5. n - lo + 1 > 0 /\ hi - n > 0
  BY <1>2, <1>3, <1>4, ProductGrows
<1>. QED
  BY <1>5

LEMMA ProductStep ==
    ASSUME TypeOK, NEW i \in insn, MulDiv(i), i.funct3 \in 1..3, ~IsWord(i), i.rd # 0
    PROVE  LET a == xregs[i.rs1]
               b == xregs[i.rs2]
               low == MulDivResult([i EXCEPT !.funct3 = 0], a, b)
               product == (IF i.funct3 = 3 THEN a ELSE Signed(a))
                          * (IF i.funct3 = 1 THEN Signed(b) ELSE b)
           IN  (IF i.funct3 = 3 THEN xregs'[i.rd] ELSE Signed(xregs'[i.rd])) * 2^XLEN + low
                 = product
<1> DEFINE a == xregs[i.rs1]
           b == xregs[i.rs2]
           low == MulDivResult(WithFunct(i, 0), a, b)
           s == IF i.funct3 = 3 THEN a ELSE Signed(a)
           t == IF i.funct3 = 1 THEN Signed(b) ELSE b
           v == xregs'[i.rd]
           high == IF i.funct3 = 3 THEN v ELSE Signed(v)
           m == Pow(XLEN)
           h == Pow(XLEN - 1)
           p == s * t
           n == p \div m
<1>0. SUFFICES high * m + low = p
  BY DEF WithFunct, Pow
<1>1. /\ a \in Words /\ b \in Words
      /\ v = MulDivResult(i, a, b) /\ i \in Insns
  <2>1. ~MulDivIllegal(i)
    BY DEF MulDivIllegal
  <2>. QED
    BY <2>1, MulDivWrites
<1>2. /\ m \in Nat \ {0} /\ h \in Nat \ {0} /\ m = 2 * h /\ Words = 0..(m - 1)
      /\ Width(i) = XLEN
  BY LengthPowers DEF Width
<1>3. \A w : Value(i, w) = Signed(w) /\ Low(i, w) = w
  BY DEF Value, Low
<1>4. /\ Signed(a) \in (-h)..(h - 1) /\ Signed(a) % m = a % m
      /\ Signed(b) \in (-h)..(h - 1) /\ Signed(b) % m = b % m
  BY <1>1, <1>2, <1>3, Operands, ZenonT(60)
<1>5. low = Result(i, Signed(a) * Signed(b))
  <2>1. 0 \in 0..7
    OBVIOUS
  <2>2. low = Result(i, Value(i, a) * Value(i, b))
    BY <1>1, <2>1, OtherFunct
  <2>. QED
    BY <1>3, <2>2
<1>6. v = Result(i, n)
  <2>1. v = Result(i, HighProduct(i, a, b))
    BY <1>1 DEF MulDivResult
  <2>2. HighProduct(i, a, b) = n
    BY DEF HighProduct, Pow
  <2>. QED
    BY <2>1, <2>2
<1> HIDE DEF a, b, v, m, h, low
<1>7. \A u \in Int : Unsigned(u) = u % m /\ Result(i, u) = u % m
  BY LengthPowers DEF Result, m
<1>8. /\ s \in Int /\ t \in Int /\ s % m = Signed(a) % m /\ t % m = Signed(b) % m
      /\ Signed(a) \in Int /\ Signed(b) \in Int
      /\ i.funct3 = 3 => s \in 0..(m - 1) /\ t \in 0..(m - 1)
      /\ i.funct3 # 3 => s \in (-h)..(h - 1) /\ t \in (-h)..(2 * h - 1)
  <2>1. a \in 0..(m - 1) /\ b \in 0..(m - 1)
    BY <1>1, <1>2
  <2>2. Signed(a) \in Int /\ Signed(b) \in Int
    BY <1>2, <1>4
  <2>3. /\ s \in {a, Signed(a)} /\ t \in {b, Signed(b)}
        /\ i.funct3 = 3 => s = a /\ t = b
        /\ i.funct3 # 3 => s = Signed(a)
    OBVIOUS
  <2> HIDE DEF s, t
  <2>4. s \in Int /\ t \in Int /\ s % m = Signed(a) % m /\ t % m = Signed(b) % m
    <3>1. s \in Int /\ t \in Int
      BY <1>2, <2>1, <2>2, <2>3
    <3>2. s % m = Signed(a) % m
      <4>1. (s = a \/ s = Signed(a)) /\ Signed(a) % m = a % m
        BY <1>4, <2>3
      <4>. QED
        BY <4>1, Zenon
    <3>3. t % m = Signed(b) % m
      <4>1. (t = b \/ t = Signed(b)) /\ Signed(b) % m = b % m
        BY <1>4, <2>3
      <4>. QED
        BY <4>1, Zenon
    <3>. QED
      BY <3>1, <3>2, <3>3
  <2>5. i.funct3 # 3 => s \in (-h)..(h - 1) /\ t \in (-h)..(2 * h - 1)
    BY <1>2, <1>4, <2>1, <2>3
  <2>. QED
    BY <2>1, <2>2, <2>3, <2>4, <2>5
<1> HIDE DEF s, t
<1>9. p \in Int /\ p % m = low
  <2>1. p \in Int /\ Signed(a) * Signed(b) \in Int
    BY <1>8
  <2>2. p % m = (Signed(a) * Signed(b)) % m
    <3> DEFINE c == Signed(a)
               d == Signed(b)
    <3>1. /\ s \in Int /\ t \in Int /\ c \in Int /\ d \in Int
          /\ Congruent(s, c, m) /\ Congruent(t, d, m) /\ m \in Nat \ {0}
      BY <1>2, <1>8 DEF Congruent
    <3> HIDE DEF c, d
    <3>2. Congruent(s * t, c * d, m)
      BY <3>1, ProductRemainder
    <3>. QED
      BY <3>2 DEF c, d, Congruent
  <2>. QED
    BY <1>5, <1>7, <2>1, <2>2
<1>10. n \in Int /\ p = m * n + low /\ low \in 0..(m - 1) /\ m * n = n * m
  <2> HIDE DEF p
  <2>1. n \in Int /\ p = m * n + (p % m) /\ p % m \in 0..(m - 1)
    BY <1>2, <1>9, DivisionGives
  <2> HIDE DEF n
  <2>2. m * n = n * m
    BY <1>2, <2>1
  <2>. QED
    BY <1>9, <2>1, <2>2
<1>11. CASE i.funct3 = 3
  <2>1. p \in 0..(m * m - 1)
    BY <1>2, <1>8, <1>11, UnsignedBounds
  <2> HIDE DEF p, n
  <2>2. m * 0 <= m * n + low /\ m * n + low < m * m
    <3>1. m * 0 = 0 /\ m * m \in Int
      BY <1>2
    <3>2. 0 <= p /\ p < m * m
      BY <1>9, <2>1, <3>1
    <3>. QED
      BY <1>10, <3>1, <3>2
  <2>3. 0 <= n /\ n < m
    <3>1. 0 \in Int /\ m \in Int
      BY <1>2
    <3>. QED
      BY <1>2, <1>10, <2>2, <3>1, QuotientBounds
  <2>4. n % m = n
    <3>1. n \in 0..(m - 1)
      BY <1>2, <1>10, <2>3
    <3>. QED
      BY <1>2, <3>1
  <2>5. high = n
    BY <1>6, <1>7, <1>10, <1>11, <2>4
  <2>. QED
    BY <1>10, <2>5
<1>12. CASE i.funct3 # 3
  <2>1. p \in (-(h * (2 * h)))..(h * (2 * h) - 1)
    BY <1>2, <1>8, <1>12, ProductBounds
  <2> HIDE DEF p, n
  <2>2. m * (-h) <= m * n + low /\ m * n + low < m * h
    <3>1. m * (-h) = -(h * (2 * h)) /\ m * h = h * (2 * h) /\ m * h \in Int
      BY <1>2
    <3>2. -(m * h) <= p /\ p < m * h
      BY <1>9, <2>1, <3>1
    <3>3. m * (-h) = -(m * h)
      BY <1>2
    <3>. QED
      BY <1>10, <3>2, <3>3
  <2>3. -h <= n /\ n < h
    <3>1. -h \in Int /\ h \in Int
      BY <1>2
    <3>. QED
      BY <1>2, <1>10, <2>2, <3>1, QuotientBounds
  <2>4. Value(i, Result(i, n)) = n
    <3>1. n \in (-h)..(h - 1)
      BY <1>2, <1>10, <2>3
    <3>. QED
      BY <1>2, <1>10, <3>1, ResultIsRead DEF h
  <2>5. high = n
    BY <1>3, <1>6, <1>12, <2>4
  <2>. QED
    BY <1>10, <2>5
<1>. QED
  BY <1>11, <1>12

-----------------------------------------------------------------------------
(* Instruction words                                                       *)

LEMMA Fields ==
    ASSUME NEW x \in Int, NEW lo \in Nat
    PROVE  /\ Bits(x, lo, 1) \in 0..1 /\ Bits(x, lo, 2) \in 0..3 /\ Bits(x, lo, 3) \in 0..7
           /\ Bits(x, lo, 4) \in 0..15 /\ Bits(x, lo, 5) \in 0..31
           /\ Bits(x, lo, 6) \in 0..63 /\ Bits(x, lo, 7) \in 0..127
<1>1. \A w \in Nat : Bits(x, lo, w) \in 0..(Pow(w) - 1)
  BY BitsAre
<1>2. {1, 2, 3, 4, 5, 6, 7} \subseteq Nat
  OBVIOUS
<1>. QED
  BY <1>1, <1>2, SmallPowers, SMTT(60)

Even(x) == \E n \in Int : x = 2 * n

\* Bits that are moved to position 1 or above are an even number.
LEMMA Moved ==
    ASSUME NEW x \in Int, NEW lo \in Nat, NEW width \in Nat, NEW to \in Nat
    PROVE  /\ At(x, lo, width, to) \in Nat
           /\ to = 1 => At(x, lo, width, to) = 2 * Bits(x, lo, width)
           /\ to = 6 => At(x, lo, width, to) = 64 * Bits(x, lo, width)
           /\ to > 0 => Even(At(x, lo, width, to))
<1> DEFINE b == Bits(x, lo, width)
           p == Pow(to)
<1>1. b \in Nat /\ p \in Nat
  <2>1. Pow(width) \in Nat /\ p \in Nat /\ b \in 0..(Pow(width) - 1)
    BY BitsAre, PowIsPositive
  <2> HIDE DEF b, p
  <2>. QED
    BY <2>1
<1>2. At(x, lo, width, to) = b * p
  BY DEF At, Pow
<1>3. to > 0 => \E n \in Int : p = 2 * n
  <2> SUFFICES ASSUME to > 0 PROVE \E n \in Int : p = 2 * n
    OBVIOUS
  <2>1. to - 1 \in Nat /\ (to - 1) + 1 = to
    OBVIOUS
  <2>2. p = 2 * Pow(to - 1) /\ Pow(to - 1) \in Int
    BY <2>1, PowerDoubles, PowIsPositive
  <2>. QED
    BY <2>2
<1>4. (to = 1 => p = 2) /\ (to = 6 => p = 64)
  BY SmallPowers
<1> HIDE DEF b, p
<1>5. b * p \in Nat
  BY <1>1
<1>6. to > 0 => \E n \in Int : b * p = 2 * n
  <2> SUFFICES ASSUME to > 0 PROVE \E n \in Int : b * p = 2 * n
    OBVIOUS
  <2>1. PICK n \in Int : p = 2 * n
    BY <1>3
  <2>2. b * p = 2 * (b * n) /\ b * n \in Int
    BY <1>1, <2>1
  <2>. QED
    BY <2>2
<1>. QED
  BY <1>1, <1>2, <1>4, <1>5, <1>6 DEF b, Even

LEMMA MovedIsNumber ==
    ASSUME NEW x \in Int, NEW lo \in Nat, NEW width \in Nat, NEW to \in Nat
    PROVE  At(x, lo, width, to) \in Nat
BY Moved

LEMMA EncodedR ==
    ASSUME NEW f7 \in 0..127, NEW rs2 \in 0..31, NEW rs1 \in 0..31, NEW f3 \in 0..7,
           NEW rd \in 0..31, NEW op \in 0..31
    PROVE  EncR(f7, rs2, rs1, f3, rd, op) \in Insns
BY DEF EncR, Insns

LEMMA EncodedI ==
    ASSUME NEW imm \in Int, NEW rs1 \in 0..31, NEW f3 \in 0..7, NEW rd \in 0..31,
           NEW op \in 0..31
    PROVE  EncI(imm, rs1, f3, rd, op) \in Insns
<1>1. Bits(imm, 5, 7) \in 0..127 /\ Bits(imm, 0, 5) \in 0..31
  BY Fields, ZenonT(60)
<1>. QED
  BY <1>1, EncodedR DEF EncI

LEMMA EncodedS ==
    ASSUME NEW imm \in Int, NEW rs2 \in 0..31, NEW rs1 \in 0..31, NEW f3 \in 0..7,
           NEW op \in 0..31
    PROVE  EncS(imm, rs2, rs1, f3, op) \in Insns
<1>1. Bits(imm, 5, 7) \in 0..127 /\ Bits(imm, 0, 5) \in 0..31
  BY Fields, ZenonT(60)
<1>. QED
  BY <1>1, EncodedR DEF EncS

LEMMA EncodedU ==
    ASSUME NEW imm \in Int, NEW rd \in 0..31, NEW op \in 0..31
    PROVE  EncU(imm, rd, op) \in Insns
<1>1. /\ Bits(imm, 13, 7) \in 0..127 /\ Bits(imm, 8, 5) \in 0..31
      /\ Bits(imm, 3, 5) \in 0..31 /\ Bits(imm, 0, 3) \in 0..7
  BY Fields, ZenonT(60)
<1>. QED
  BY <1>1, EncodedR DEF EncU

\* The four bits from position 1 up and one below them; a bit above six.
LEMMA FiveBits ==
    ASSUME NEW x \in Int, NEW y \in Int, NEW m \in Nat, NEW n \in Nat
    PROVE  /\ At(x, m, 4, 1) + Bits(y, n, 1) \in 0..31
           /\ At(x, m, 1, 6) + Bits(y, n, 6) \in 0..127
<1>1. /\ Bits(x, m, 4) \in 0..15 /\ Bits(y, n, 1) \in 0..1
      /\ Bits(x, m, 1) \in 0..1 /\ Bits(y, n, 6) \in 0..63
  BY Fields
<1>2. At(x, m, 4, 1) = 2 * Bits(x, m, 4) /\ At(x, m, 1, 6) = 64 * Bits(x, m, 1)
  BY Moved
<1>. QED
  BY <1>1, <1>2

LEMMA EncodedB ==
    ASSUME NEW imm \in Int, NEW rs2 \in 0..31, NEW rs1 \in 0..31, NEW f3 \in 0..7,
           NEW op \in 0..31
    PROVE  EncB(imm, rs2, rs1, f3, op) \in Insns
BY FiveBits, EncodedR DEF EncB

LEMMA EncodedJ ==
    ASSUME NEW imm \in Int, NEW rd \in 0..31, NEW op \in 0..31
    PROVE  EncJ(imm, rd, op) \in Insns
<1>1. Bits(imm, 15, 5) \in 0..31 /\ Bits(imm, 12, 3) \in 0..7
  BY Fields
<1>. QED
  BY <1>1, FiveBits, EncodedR DEF EncJ

LEMMA JoinedIsInsn ==
    ASSUME NEW hw \in Int, NEW hw2 \in Int
    PROVE  Joined(hw, hw2) \in Insns
<1>1. /\ Bits(hw2, 9, 7) \in 0..127 /\ Bits(hw2, 4, 5) \in 0..31 /\ Bits(hw, 12, 3) \in 0..7
      /\ Bits(hw, 7, 5) \in 0..31 /\ Bits(hw, 2, 5) \in 0..31
  BY Fields, ZenonT(60)
<1>. QED
  BY <1>1, FiveBits, EncodedR DEF Joined

-----------------------------------------------------------------------------
(* Compressed instructions                                                 *)

\* What the parts of a compressed word are.
LEMMA WordParts ==
    ASSUME NEW in \in Int
    PROVE  /\ Rd(in) \in 0..31 /\ Rs2(in) \in 0..31 /\ Rs1P(in) \in 0..31 /\ RdP(in) \in 0..31
           /\ Funct3(in) \in 0..7
           /\ Shamt(in) \in Int /\ SImm6(in) \in Int
<1>1. /\ Bits(in, 7, 5) \in 0..31 /\ Bits(in, 2, 5) \in 0..31 /\ Bits(in, 7, 3) \in 0..7
      /\ Bits(in, 2, 3) \in 0..7 /\ Bits(in, 13, 3) \in 0..7
  BY Fields
<1>2. Shamt(in) \in Int
  <2>1. At(in, 12, 1, 5) \in Nat
    BY Moved
  <2>. QED
    BY <1>1, <2>1 DEF Shamt
<1>3. SImm6(in) \in Int
  <2>1. SignExtend(Shamt(in), 6) \in (-Pow(5))..(Pow(5) - 1)
    BY <1>2, SignExtendIs
  <2>. QED
    BY <2>1, SmallPowers DEF SImm6
<1>. QED
  BY <1>1, <1>2, <1>3 DEF Rd, Rs2, Rs1P, RdP, Creg, Funct3

LEMMA ExtendedIsNumber ==
    ASSUME NEW x \in Int, NEW width \in Nat \ {0}
    PROVE  SignExtend(x, width) \in Int
<1> DEFINE h == Pow(width - 1)
<1>1. SignExtend(x, width) \in (-h)..(h - 1) /\ h \in Nat
  BY SignExtendIs
<1> HIDE DEF h
<1>. QED
  BY <1>1

LEMMA Offsets ==
    ASSUME NEW in \in Int
    PROVE  /\ OffsetD(in) \in Int /\ OffsetW(in) \in Int /\ OffsetDsp(in) \in Int
           /\ OffsetWsp(in) \in Int /\ StoreOffsetDsp(in) \in Int /\ StoreOffsetWsp(in) \in Int
<1>1. /\ At(in, 10, 3, 3) \in Nat /\ At(in, 5, 2, 6) \in Nat /\ At(in, 6, 1, 2) \in Nat
      /\ At(in, 5, 1, 6) \in Nat /\ At(in, 12, 1, 5) \in Nat /\ At(in, 5, 2, 3) \in Nat
      /\ At(in, 2, 3, 6) \in Nat /\ At(in, 4, 3, 2) \in Nat /\ At(in, 2, 2, 6) \in Nat
      /\ At(in, 7, 3, 6) \in Nat /\ At(in, 9, 4, 2) \in Nat /\ At(in, 7, 2, 6) \in Nat
  BY MovedIsNumber
<1>. QED
  BY <1>1 DEF OffsetD, OffsetW, OffsetDsp, OffsetWsp, StoreOffsetDsp, StoreOffsetWsp

LEMMA Quadrant0Decodes ==
    ASSUME NEW in \in Int
    PROVE  Quadrant0(in) \subseteq Insns
<1>1. ASSUME NEW f3 \in 0..7, NEW op \in 0..31, NEW imm \in Int
      PROVE  CLoad(in, imm, f3, op) \subseteq Insns /\ CStore(in, imm, f3, op) \subseteq Insns
  <2>1. Rs1P(in) \in 0..31 /\ RdP(in) \in 0..31
    BY WordParts
  <2>. QED
    BY <2>1, EncodedI, EncodedS, ZenonT(60) DEF CLoad, CStore
<1>2. CAddi4spn(in) \subseteq Insns
  <2> DEFINE nzuimm == At(in, 11, 2, 4) + At(in, 7, 4, 6) + At(in, 6, 1, 2) + At(in, 5, 1, 3)
  <2>1. /\ At(in, 11, 2, 4) \in Nat /\ At(in, 7, 4, 6) \in Nat
        /\ At(in, 6, 1, 2) \in Nat /\ At(in, 5, 1, 3) \in Nat
    BY MovedIsNumber
  <2>2. nzuimm \in Int
    BY <2>1
  <2>3. EncI(nzuimm, 2, 0, RdP(in), OP_IMM) \in Insns
    <3> HIDE DEF nzuimm
    <3>1. RdP(in) \in 0..31 /\ OP_IMM \in 0..31 /\ 2 \in 0..31 /\ 0 \in 0..7
      BY WordParts DEF OP_IMM
    <3>. QED
      BY <2>2, <3>1, EncodedI, Zenon
  <2>. QED
    BY <2>3 DEF CAddi4spn, Unless
<1>3. OffsetD(in) \in Int /\ OffsetW(in) \in Int /\ Funct3(in) \in 0..7
  BY Offsets, WordParts
<1>4. /\ CLoad(in, OffsetD(in), 3, LOAD_FP) \subseteq Insns
      /\ CLoad(in, OffsetW(in), 2, LOAD) \subseteq Insns
      /\ CLoad(in, OffsetD(in), 3, LOAD) \subseteq Insns
      /\ CStore(in, OffsetD(in), 3, STORE_FP) \subseteq Insns
      /\ CStore(in, OffsetW(in), 2, STORE) \subseteq Insns
      /\ CStore(in, OffsetD(in), 3, STORE) \subseteq Insns
  BY <1>1, <1>3 DEF LOAD_FP, LOAD, STORE_FP, STORE
<1>. QED
  BY <1>2, <1>3, <1>4 DEF Quadrant0

LEMMA CArithDecodes ==
    ASSUME NEW in \in Int
    PROVE  CArith(in) \subseteq Insns
<1> DEFINE rd == Rs1P(in)
           opcode == IF Bits(in, 12, 1) = 1 THEN OP_32 ELSE OP
<1>1. /\ rd \in 0..31 /\ RdP(in) \in 0..31 /\ Shamt(in) \in Int /\ SImm6(in) \in Int
      /\ opcode \in 0..31 /\ OP_IMM \in 0..31 /\ 5 \in 0..7 /\ 7 \in 0..7
  BY WordParts DEF OP_32, OP, OP_IMM
<1>2. 2^10 + Shamt(in) \in Int
  <2>1. Pow(10) \in Int
    BY PowIsPositive
  <2>. QED
    BY <1>1, <2>1 DEF Pow
<1>3. Bits(in, 10, 2) \in 0..3 /\ Bits(in, 5, 2) \in 0..3
  BY Fields
<1> HIDE DEF rd, opcode
<1>4. /\ EncI(Shamt(in), rd, 5, rd, OP_IMM) \in Insns
      /\ EncI(2^10 + Shamt(in), rd, 5, rd, OP_IMM) \in Insns
      /\ EncI(SImm6(in), rd, 7, rd, OP_IMM) \in Insns
  BY <1>1, <1>2, EncodedI, Zenon
<1>5. \A f7 \in 0..127, f3 \in 0..7 : EncR(f7, RdP(in), rd, f3, rd, opcode) \in Insns
  BY <1>1, EncodedR
<1> DEFINE Register(f7, f3) == EncR(f7, RdP(in), rd, f3, rd, opcode)
<1>6. /\ Register(32, 0) \in Insns
      /\ Register(0, IF Bits(in, 12, 1) = 1 THEN 0 ELSE 4) \in Insns
      /\ Bits(in, 5, 2) > 1 => Register(0, Bits(in, 5, 2) + 4) \in Insns
  <2>1. /\ 32 \in 0..127 /\ 0 \in 0..127 /\ 0 \in 0..7
        /\ (IF Bits(in, 12, 1) = 1 THEN 0 ELSE 4) \in 0..7
        /\ Bits(in, 5, 2) > 1 => Bits(in, 5, 2) + 4 \in 0..7
    BY <1>3
  <2>. QED
    BY <1>5, <2>1, Zenon
<1>7. CArith(in) \in {{EncI(Shamt(in), rd, 5, rd, OP_IMM)},
                      {EncI(2^10 + Shamt(in), rd, 5, rd, OP_IMM)},
                      {EncI(SImm6(in), rd, 7, rd, OP_IMM)},
                      {Register(32, 0)},
                      {Register(0, IF Bits(in, 12, 1) = 1 THEN 0 ELSE 4)},
                      IF Bits(in, 5, 2) > 1
                        THEN Unless(Bits(in, 12, 1) = 1, Register(0, Bits(in, 5, 2) + 4))
                        ELSE {}}
  BY <1>3 DEF CArith, rd, opcode
<1>. QED
  BY <1>3, <1>4, <1>6, <1>7 DEF Unless

LEMMA Quadrant1Decodes ==
    ASSUME NEW in \in Int
    PROVE  Quadrant1(in) \subseteq Insns
<1>1. /\ Rd(in) \in 0..31 /\ Rs1P(in) \in 0..31 /\ Funct3(in) \in 0..7 /\ SImm6(in) \in Int
      /\ 0 \in 0..31 /\ 2 \in 0..31 /\ 0 \in 0..7
      /\ OP_IMM \in 0..31 /\ OP_IMM_32 \in 0..31 /\ LUI \in 0..31 /\ JAL \in 0..31
      /\ BRANCH \in 0..31
  BY WordParts DEF OP_IMM, OP_IMM_32, LUI, JAL, BRANCH
<1>2. /\ EncI(SImm6(in), Rd(in), 0, Rd(in), OP_IMM) \in Insns
      /\ EncI(SImm6(in), Rd(in), 0, Rd(in), OP_IMM_32) \in Insns
      /\ EncI(SImm6(in), 0, 0, Rd(in), OP_IMM) \in Insns
  BY <1>1, EncodedI, Zenon
<1>3. CAddi16sp(in) \subseteq Insns
  <2> DEFINE bits == At(in, 12, 1, 9) + At(in, 6, 1, 4) + At(in, 5, 1, 6)
                       + At(in, 3, 2, 7) + At(in, 2, 1, 5)
  <2>1. /\ At(in, 12, 1, 9) \in Nat /\ At(in, 6, 1, 4) \in Nat /\ At(in, 5, 1, 6) \in Nat
        /\ At(in, 3, 2, 7) \in Nat /\ At(in, 2, 1, 5) \in Nat
    BY MovedIsNumber
  <2>2. bits \in Int /\ 10 \in Nat \ {0}
    BY <2>1
  <2> HIDE DEF bits
  <2>3. SignExtend(bits, 10) \in Int
    BY <2>2, ExtendedIsNumber
  <2>4. EncI(SignExtend(bits, 10), 2, 0, 2, OP_IMM) \in Insns
    BY <1>1, <2>3, EncodedI, Zenon
  <2>. QED
    BY <2>4 DEF CAddi16sp, Unless, bits
<1>4. CLui(in) \subseteq Insns
  <2>1. EncU(SImm6(in), Rd(in), LUI) \in Insns
    BY <1>1, EncodedU
  <2>. QED
    BY <2>1 DEF CLui, Unless
<1>5. CJ(in) \subseteq Insns
  <2> DEFINE bits == At(in, 12, 1, 11) + At(in, 11, 1, 4) + At(in, 9, 2, 8)
                       + At(in, 8, 1, 10) + At(in, 7, 1, 6) + At(in, 6, 1, 7)
                       + At(in, 3, 3, 1) + At(in, 2, 1, 5)
  <2>1. /\ At(in, 12, 1, 11) \in Nat /\ At(in, 11, 1, 4) \in Nat /\ At(in, 9, 2, 8) \in Nat
        /\ At(in, 8, 1, 10) \in Nat /\ At(in, 7, 1, 6) \in Nat /\ At(in, 6, 1, 7) \in Nat
        /\ At(in, 3, 3, 1) \in Nat /\ At(in, 2, 1, 5) \in Nat
    BY MovedIsNumber
  <2>2. bits \in Int /\ 12 \in Nat \ {0}
    BY <2>1
  <2> HIDE DEF bits
  <2>3. SignExtend(bits, 12) \in Int
    BY <2>2, ExtendedIsNumber
  <2>4. EncJ(SignExtend(bits, 12), 0, JAL) \in Insns
    BY <1>1, <2>3, EncodedJ, Zenon
  <2>. QED
    BY <2>4 DEF CJ, bits
<1>6. ASSUME NEW f3 \in 0..7 PROVE CBranch(in, f3) \subseteq Insns
  <2> DEFINE bits == At(in, 12, 1, 8) + At(in, 10, 2, 3) + At(in, 5, 2, 6)
                       + At(in, 3, 2, 1) + At(in, 2, 1, 5)
  <2>1. /\ At(in, 12, 1, 8) \in Nat /\ At(in, 10, 2, 3) \in Nat /\ At(in, 5, 2, 6) \in Nat
        /\ At(in, 3, 2, 1) \in Nat /\ At(in, 2, 1, 5) \in Nat
    BY MovedIsNumber
  <2>2. bits \in Int /\ 9 \in Nat \ {0}
    BY <2>1
  <2> HIDE DEF bits
  <2>3. SignExtend(bits, 9) \in Int
    BY <2>2, ExtendedIsNumber
  <2>4. EncB(SignExtend(bits, 9), 0, Rs1P(in), f3, BRANCH) \in Insns
    BY <1>1, <2>3, EncodedB, Zenon
  <2>. QED
    BY <2>4 DEF CBranch, bits
<1>7. Funct3(in) \in {6, 7} => CBranch(in, Funct3(in) - 6) \subseteq Insns
  <2>1. Funct3(in) \in {6, 7} => Funct3(in) - 6 \in 0..7
    BY <1>1
  <2>. QED
    BY <1>6, <2>1
<1>8. CArith(in) \subseteq Insns
  BY CArithDecodes
<1>. QED
  BY <1>1, <1>2, <1>3, <1>4, <1>5, <1>7, <1>8 DEF Quadrant1, Unless

LEMMA Quadrant2Decodes ==
    ASSUME NEW in \in Int
    PROVE  Quadrant2(in) \subseteq Insns
<1>1. /\ Rd(in) \in 0..31 /\ Rs2(in) \in 0..31 /\ Funct3(in) \in 0..7 /\ Shamt(in) \in Int
      /\ OffsetDsp(in) \in Int /\ OffsetWsp(in) \in Int
      /\ StoreOffsetDsp(in) \in Int /\ StoreOffsetWsp(in) \in Int
      /\ 0 \in 0..31 /\ 2 \in 0..31 /\ 0 \in 0..7 /\ 1 \in 0..7 /\ 2 \in 0..7 /\ 3 \in 0..7
      /\ 0 \in 0..127 /\ 0 \in Int /\ 1 \in Int
      /\ OP \in 0..31 /\ OP_IMM \in 0..31 /\ LOAD \in 0..31 /\ LOAD_FP \in 0..31
      /\ STORE \in 0..31 /\ STORE_FP \in 0..31 /\ JALR \in 0..31 /\ SYSTEM \in 0..31
  BY WordParts, Offsets
     DEF OP, OP_IMM, LOAD, LOAD_FP, STORE, STORE_FP, JALR, SYSTEM
<1>2. /\ EncI(Shamt(in), Rd(in), 1, Rd(in), OP_IMM) \in Insns
      /\ EncI(OffsetDsp(in), 2, 3, Rd(in), LOAD_FP) \in Insns
      /\ EncI(OffsetWsp(in), 2, 2, Rd(in), LOAD) \in Insns
      /\ EncI(OffsetDsp(in), 2, 3, Rd(in), LOAD) \in Insns
      /\ EncS(StoreOffsetDsp(in), Rs2(in), 2, 3, STORE_FP) \in Insns
      /\ EncS(StoreOffsetWsp(in), Rs2(in), 2, 2, STORE) \in Insns
      /\ EncS(StoreOffsetDsp(in), Rs2(in), 2, 3, STORE) \in Insns
  BY <1>1, EncodedI, EncodedS, Zenon
<1>3. CJumpOrMove(in) \subseteq Insns
  <2> DEFINE source == IF Bits(in, 12, 1) = 1 THEN Rd(in) ELSE 0
             link == Bits(in, 12, 1)
  <2>1. source \in 0..31 /\ link \in 0..31
    <3>1. link \in 0..1
      BY Fields
    <3> HIDE DEF link
    <3>. QED
      BY <1>1, <3>1 DEF link
  <2> HIDE DEF source, link
  <2>2. /\ EncR(0, Rs2(in), source, 0, Rd(in), OP) \in Insns
        /\ EncI(0, Rd(in), 0, link, JALR) \in Insns
        /\ EncI(1, 0, 0, 0, SYSTEM) \in Insns
    BY <1>1, <2>1, EncodedI, EncodedR, Zenon
  <2>. QED
    BY <2>2 DEF CJumpOrMove, Unless, source, link
<1>. QED
  BY <1>1, <1>2, <1>3 DEF Quadrant2, Unless

\* What a word of 16 bits expands to is an instruction.
LEMMA Decodes ==
    ASSUME NEW in \in Int
    PROVE  DecompressWord(in) \subseteq Insns
<1>1. Bits(in, 0, 2) \in 0..3
  BY Fields
<1>. QED
  BY <1>1, Quadrant0Decodes, Quadrant1Decodes, Quadrant2Decodes DEF DecompressWord

-----------------------------------------------------------------------------
(* The types of results                                                    *)

LEMMA OperandTypes ==
    ASSUME NEW i, NEW v \in Words
    PROVE  Low(i, v) \in Words /\ Low(i, v) \in Nat /\ Value(i, v) \in Int /\ v \in Nat
<1> DEFINE m == Pow(Width(i))
           h == Pow(Width(i) - 1)
           l == Pow(XLEN)
<1>1. Low(i, v) \in 0..(m - 1) /\ Value(i, v) \in (-h)..(h - 1)
  BY Operands
<1>2. m \in Nat \ {0} /\ h \in Nat \ {0} /\ l \in Nat \ {0} /\ Words = 0..(l - 1)
  BY WidthPowers, LengthPowers
<1>3. m <= l
  <2>1. PICK k \in Nat \ {0} : l = m * k
    BY WidthPowers
  <2>2. k \in Int /\ k > 0
    BY <2>1
  <2>3. m * k >= m
    BY <1>2, <2>2, ProductGrows
  <2>. QED
    BY <2>1, <2>3
<1> HIDE DEF m, h, l
<1>. QED
  BY <1>1, <1>2, <1>3

LEMMA BaseResultIsWord ==
    ASSUME NEW i \in Insns, NEW a \in Words, NEW b \in Words
    PROVE  BaseResult(i, a, b) \in Words
<1> DEFINE lhs == Low(i, a)
           rhs == Low(i, b)
           width == IF IsWord(i) THEN HalfLen ELSE XLEN
           shamt == rhs % width
           p == 2^shamt
<1>1. /\ lhs \in Words /\ rhs \in Words /\ lhs \in Nat /\ rhs \in Nat /\ a \in Nat
      /\ Value(i, a) \in Int /\ Value(i, b) \in Int
  BY OperandTypes
<1>2. width \in Nat \ {0}
  BY Lengths
<1> HIDE DEF lhs, rhs, width
<1>3. shamt \in Nat
  <2>1. shamt \in 0..(width - 1)
    BY <1>1, <1>2, DivisionGives
  <2>. QED
    BY <1>2, <2>1
<1> HIDE DEF shamt
<1>4. p \in Nat \ {0}
  <2>1. Pow(shamt) \in Nat \ {0}
    BY <1>3, PowIsPositive
  <2>. QED
    BY <2>1 DEF Pow
<1> HIDE DEF p
<1>5. ShiftRight(i, a, shamt) \in Int
  <2> DEFINE u == IF Bits(i.funct7, 5, 1) = 1 THEN Value(i, a) ELSE lhs
  <2>1. u \in Int /\ ShiftRight(i, a, shamt) = u \div p
    BY <1>1 DEF ShiftRight, lhs, p
  <2> HIDE DEF u
  <2>. QED
    BY <1>4, <2>1, DivisionGives
<1>6. /\ lhs - rhs \in Int /\ lhs + rhs \in Int /\ lhs * p \in Int
      /\ \A c \in BOOLEAN : Truth(c) \in Int
  BY <1>1, <1>4 DEF Truth
<1>7. BitXor(lhs, rhs) \in Int /\ BitOr(lhs, rhs) \in Int /\ BitAnd(lhs, rhs) \in Int
  <2>1. {BitAnd(lhs, rhs), BitOr(lhs, rhs), BitXor(lhs, rhs)} \subseteq Words
    BY <1>1, ArithmeticAssumption
  <2>2. Words \subseteq Int
    BY LengthPowers
  <2>. QED
    BY <2>1, <2>2
<1>8. i.funct3 \in 0..7
  BY DEF Insns
<1> DEFINE value == CASE i.funct3 = 0 ->
                           IF Bits(i.funct7, 5, 1) = 1 /\ IsRegister(i)
                           THEN lhs - rhs ELSE lhs + rhs
                      [] i.funct3 = 1 -> lhs * p
                      [] i.funct3 = 2 -> Truth(Value(i, a) < Value(i, b))
                      [] i.funct3 = 3 -> Truth(lhs < rhs)
                      [] i.funct3 = 4 -> BitXor(lhs, rhs)
                      [] i.funct3 = 5 -> ShiftRight(i, a, shamt)
                      [] i.funct3 = 6 -> BitOr(lhs, rhs)
                      [] i.funct3 = 7 -> BitAnd(lhs, rhs)
<1>9. value \in Int
  <2>1. (Value(i, a) < Value(i, b)) \in BOOLEAN /\ (lhs < rhs) \in BOOLEAN
    OBVIOUS
  <2>2. Truth(Value(i, a) < Value(i, b)) \in Int /\ Truth(lhs < rhs) \in Int
    BY DEF Truth
  <2>. QED
    BY <1>5, <1>6, <1>7, <1>8, <2>2
<1>10. BaseResult(i, a, b) = Result(i, value)
  BY DEF BaseResult, lhs, rhs, shamt, width, p
<1> HIDE DEF value
<1>. QED
  BY <1>9, <1>10, ResultKeeps

LEMMA MulDivResultIsWord ==
    ASSUME NEW i \in Insns, NEW a \in Words, NEW b \in Words
    PROVE  MulDivResult(i, a, b) \in Words
<1> DEFINE lhs == Low(i, a)
           rhs == Low(i, b)
           m == Pow(XLEN)
<1>1. /\ lhs \in Nat /\ rhs \in Nat /\ a \in Nat /\ b \in Nat
      /\ Value(i, a) \in Int /\ Value(i, b) \in Int
  BY OperandTypes
<1>2. m \in Nat \ {0}
  BY LengthPowers
<1>3. Signed(a) \in Int /\ Signed(b) \in Int
  BY <1>1, Lengths, ExtendedIsNumber DEF Signed
<1>4. i.funct3 \in 0..7
  BY DEF Insns
<1>5. i.funct3 \in 1..3 => HighProduct(i, a, b) \in Int
  <2> SUFFICES ASSUME i.funct3 \in 1..3 PROVE HighProduct(i, a, b) \in Int
    OBVIOUS
  <2> DEFINE u == CASE i.funct3 = 1 -> Signed(a) * Signed(b)
                    [] i.funct3 = 2 -> Signed(a) * b
                    [] i.funct3 = 3 -> a * b
  <2>1. Signed(a) * Signed(b) \in Int /\ Signed(a) * b \in Int /\ a * b \in Int
    BY <1>1, <1>3
  <2>2. u \in Int
    BY <2>1
  <2>3. HighProduct(i, a, b) = u \div m
    BY DEF HighProduct, Pow
  <2> HIDE DEF u, m
  <2>. QED
    BY <1>2, <2>2, <2>3, DivisionGives
<1>6. Quotient(i, a, b) \in Int /\ Remainder(i, a, b) \in Int
  <2> DEFINE h == Pow(Width(i) - 1)
  <2>1. h \in Nat
    BY WidthPowers
  <2>2. Quotient(i, a, b) \in (-h)..(h - 1) /\ Remainder(i, a, b) \in (-h)..(h - 1)
    BY Fits
  <2> HIDE DEF h
  <2>. QED
    BY <2>1, <2>2
<1> HIDE DEF lhs, rhs
<1>7. (IF rhs = 0 THEN -1 ELSE lhs \div rhs) \in Int /\ (IF rhs = 0 THEN lhs ELSE lhs % rhs) \in Int
  <2>1. CASE rhs = 0
    BY <1>1, <2>1
  <2>2. CASE rhs # 0
    <3>1. lhs \div rhs \in Int /\ lhs % rhs \in 0..(rhs - 1)
      BY <1>1, <2>2, DivisionGives
    <3>. QED
      BY <1>1, <2>2, <3>1
  <2>. QED
    BY <2>1, <2>2
<1>8. Value(i, a) * Value(i, b) \in Int
  BY <1>1
<1> DEFINE value == CASE i.funct3 = 0 -> Value(i, a) * Value(i, b)
                      [] i.funct3 \in 1..3 -> HighProduct(i, a, b)
                      [] i.funct3 = 4 -> Quotient(i, a, b)
                      [] i.funct3 = 5 -> IF rhs = 0 THEN -1 ELSE lhs \div rhs
                      [] i.funct3 = 6 -> Remainder(i, a, b)
                      [] i.funct3 = 7 -> IF rhs = 0 THEN lhs ELSE lhs % rhs
<1>9. value \in Int
  BY <1>4, <1>5, <1>6, <1>7, <1>8
<1>10. MulDivResult(i, a, b) = Result(i, value)
  BY DEF MulDivResult, lhs, rhs
<1> HIDE DEF value
<1>. QED
  BY <1>9, <1>10, ResultKeeps

LEMMA EvenSum ==
    ASSUME NEW x, NEW y, Even(x), Even(y)
    PROVE  Even(x + y) /\ x + y \in Int /\ x \in Int /\ y \in Int
<1>1. PICK j \in Int : x = 2 * j
  BY DEF Even
<1>2. PICK k \in Int : y = 2 * k
  BY DEF Even
<1> DEFINE n == j + k
<1>3. n \in Int /\ x + y = 2 * n /\ x \in Int /\ y \in Int /\ x + y \in Int
  BY <1>1, <1>2
<1> HIDE DEF n
<1>4. Even(x + y)
  BY <1>3 DEF Even
<1>. QED
  BY <1>3, <1>4

LEMMA EvenRemainder ==
    ASSUME NEW x, Even(x)
    PROVE  x \in Int /\ x % 2 = 0
<1>1. PICK k \in Int : x = 2 * k
  BY DEF Even
<1>2. (2 * k) % 2 = 0
  BY MultipleLeavesNothing
<1>. QED
  BY <1>1, <1>2

\* The remainder of an even number by an even one is even.
LEMMA EvenModulus ==
    ASSUME NEW x \in Int, NEW m \in Nat \ {0}, Even(x), Even(m)
    PROVE  Even(x % m) /\ Even((x % m) - m)
<1> DEFINE c == x % m
           q == x \div m
<1>1. PICK k \in Int : x = 2 * k
  BY DEF Even
<1>2. PICK h \in Int : m = 2 * h
  BY DEF Even
<1>3. q \in Int /\ c \in 0..(m - 1) /\ x = m * q + c
  BY DivisionGives
<1> HIDE DEF q, c
<1>4. m * q = 2 * (h * q) /\ h * q \in Int
  BY <1>2, <1>3
<1> DEFINE e == h * q
<1>5. e \in Int /\ m * q = 2 * e
  BY <1>4
<1> HIDE DEF e
<1>6. c = 2 * (k - e) /\ c - m = 2 * (k - e - h) /\ k - e \in Int /\ k - e - h \in Int
  BY <1>1, <1>2, <1>3, <1>5
<1>7. Even(c) /\ Even(c - m)
  BY <1>6 DEF Even
<1>. QED
  BY <1>7 DEF c

LEMMA EvenPower ==
    ASSUME NEW n \in Nat \ {0}
    PROVE  Even(Pow(n))
<1>1. n - 1 \in Nat /\ (n - 1) + 1 = n
  OBVIOUS
<1>2. Pow(n) = 2 * Pow(n - 1) /\ Pow(n - 1) \in Int
  BY <1>1, PowerDoubles, PowIsPositive
<1>. QED
  BY <1>2 DEF Even

LEMMA EvenProduct ==
    ASSUME NEW x \in Int, NEW y, Even(y)
    PROVE  Even(x * y)
<1>1. PICK k \in Int : y = 2 * k
  BY DEF Even
<1>2. x * y = 2 * (x * k) /\ x * k \in Int
  BY <1>1
<1>. QED
  BY <1>2 DEF Even

LEMMA EvenExtended ==
    ASSUME NEW x \in Int, NEW width \in Nat \ {0}, Even(x)
    PROVE  Even(SignExtend(x, width))
<1> DEFINE m == Pow(width)
<1>1. m \in Nat \ {0} /\ SignExtend(x, width) \in {x % m, (x % m) - m}
  BY SignExtendIs
<1>2. Even(m)
  BY EvenPower
<1> HIDE DEF m
<1>. QED
  BY <1>1, <1>2, EvenModulus

LEMMA EvenMoved ==
    ASSUME NEW x \in Int, NEW lo \in Nat, NEW width \in Nat, NEW to \in Nat \ {0}
    PROVE  Even(At(x, lo, width, to))
<1>1. to \in Nat /\ to > 0
  OBVIOUS
<1>. QED
  BY <1>1, Moved

\* The immediates are numbers; what is added to an address to jump is even.
LEMMA Immediates ==
    ASSUME NEW i \in Insns
    PROVE  /\ Imm12(i) \in Int /\ SImm12(i) \in Int /\ BImm(i) \in Int /\ JImm(i) \in Int
           /\ UImm20(i) \in Int
           /\ Even(JImm(i)) /\ Even(BImm(i))
<1>1. /\ i.rs1 \in Nat /\ i.rs2 \in Nat /\ i.rd \in Nat /\ i.funct3 \in Nat /\ i.funct7 \in Nat
  BY DEF Insns
<1>2. Imm12(i) \in Int /\ SImm12(i) \in Int
  <2>1. /\ i.funct7 * 32 + i.rs2 \in Int /\ i.funct7 * 32 + i.rd \in Int
        /\ 12 \in Nat \ {0}
    BY <1>1
  <2>. QED
    BY <2>1, ExtendedIsNumber DEF Imm12, UImm12, SImm12
<1>3. UImm20(i) \in Int
  <2>1. Pow(13) \in Nat /\ Pow(8) \in Nat /\ Pow(3) \in Nat
    BY PowIsPositive
  <2>2. /\ i.funct7 * Pow(13) \in Nat /\ i.rs2 * Pow(8) \in Nat /\ i.rs1 * Pow(3) \in Nat
    BY <1>1, <2>1
  <2>3. i.funct7 * Pow(13) + i.rs2 * Pow(8) + i.rs1 * Pow(3) + i.funct3 \in Int
    BY <1>1, <2>2
  <2>. QED
    BY <2>3 DEF UImm20, Pow
<1>4. Even(JImm(i))
  <2> DEFINE a == i.funct3 * Pow(12)
             b == i.rs1 * Pow(15)
             c == At(i.rs2, 0, 1, 11)
             d == At(i.rs2, 1, 4, 1)
             e == At(i.funct7, 0, 6, 5)
             f == At(i.funct7, 6, 1, 20)
  <2>1. Even(a) /\ Even(b)
    <3>1. Even(Pow(12)) /\ Even(Pow(15))
      BY EvenPower
    <3>. QED
      BY <1>1, <3>1, EvenProduct
  <2>2. Even(c) /\ Even(d) /\ Even(e) /\ Even(f)
    BY <1>1, EvenMoved
  <2>3. JImm(i) = SignExtend(a + b + c + d + e + f, 21)
    BY DEF JImm, Pow
  <2> HIDE DEF a, b, c, d, e, f
  <2>4. Even(a + b) /\ Even(a + b + c) /\ Even(a + b + c + d) /\ Even(a + b + c + d + e)
    BY <2>1, <2>2, EvenSum
  <2>5. Even(a + b + c + d + e + f) /\ a + b + c + d + e + f \in Int
    BY <2>2, <2>4, EvenSum
  <2>. QED
    BY <2>3, <2>5, EvenExtended
<1>5. Even(BImm(i))
  <2> DEFINE a == At(i.rd, 1, 4, 1)
             b == At(i.funct7, 0, 6, 5)
             c == At(i.rd, 0, 1, 11)
             d == At(i.funct7, 6, 1, 12)
  <2>1. Even(a) /\ Even(b) /\ Even(c) /\ Even(d)
    BY <1>1, EvenMoved
  <2>2. BImm(i) = SignExtend(a + b + c + d, 13)
    BY DEF BImm
  <2> HIDE DEF a, b, c, d
  <2>3. Even(a + b) /\ Even(a + b + c) /\ Even(a + b + c + d) /\ a + b + c + d \in Int
    BY <2>1, EvenSum
  <2>. QED
    BY <2>2, <2>3, EvenExtended
<1>6. JImm(i) \in Int /\ BImm(i) \in Int
  BY <1>4, <1>5, EvenRemainder
<1>. QED
  BY <1>2, <1>3, <1>4, <1>5, <1>6

LEMMA UnsignedIsWord ==
    ASSUME NEW n \in Int
    PROVE  Unsigned(n) \in Words /\ Unsigned(n) \in Nat
<1>1. Pow(XLEN) \in Nat \ {0} /\ Words = 0..(Pow(XLEN) - 1) /\ Unsigned(n) = n % Pow(XLEN)
  BY LengthPowers
<1>2. n % Pow(XLEN) \in 0..(Pow(XLEN) - 1)
  BY <1>1, DivisionGives
<1>. QED
  BY <1>1, <1>2

-----------------------------------------------------------------------------
(* Memory                                                                  *)

\* The bytes of an access are in memory; there are at most eight.
LEMMA SpanIsRam ==
    ASSUME NEW addr, NEW size \in 0..3, Accessible(addr, size)
    PROVE  /\ 2^size \in 1..8
           /\ \A k \in Nat : k < 2^size => Unsigned(addr + k) \in Ram
<1>1. 2^size \in 1..8
  <2>1. Pow(size) \in {1, 2, 4, 8}
    BY SmallPowers, PowerOfZero
  <2>. QED
    BY <2>1 DEF Pow
<1>2. \A k \in 0..(2^size - 1) : Unsigned(addr + k) \in Ram
  BY DEF Accessible, Span
<1> DEFINE n == 2^size
<1> HIDE DEF n
<1>3. n \in 1..8 /\ \A k \in 0..(n - 1) : Unsigned(addr + k) \in Ram
  BY <1>1, <1>2 DEF n
<1>4. n \in 1..8 /\ \A k \in Nat : k < n => Unsigned(addr + k) \in Ram
  BY <1>3
<1>. QED
  BY <1>4 DEF n

\* Bytes one above the other are a number below the power of their lengths.
LEMMA ReadIsWord ==
    ASSUME NEW m \in [Ram -> Bytes], NEW addr, NEW size \in 0..3, Accessible(addr, size)
    PROVE  ReadRam(m, addr, size) \in Words
<1> DEFINE Part(k) == IF k < 2^size THEN m[Unsigned(addr + k)] * 2^(k * ByteLen) ELSE 0
           p(k) == Pow(k * ByteLen)
<1>1. ByteLen \in Nat \ {0} /\ Pow(ByteLen) \in Nat \ {0}
  BY Lengths, PowIsPositive
<1>2. ASSUME NEW k \in Nat
      PROVE  p(k) \in Nat /\ p(k + 1) \in Nat /\ Part(k) \in 0..(p(k + 1) - p(k))
  <2>1. k * ByteLen \in Nat /\ (k + 1) * ByteLen \in Nat
        /\ (k + 1) * ByteLen = k * ByteLen + ByteLen
    BY <1>1
  <2>2. p(k) \in Nat \ {0} /\ p(k + 1) \in Nat /\ p(k + 1) = p(k) * Pow(ByteLen)
    BY <1>1, <2>1, PowIsPositive, PowerAdds
  <2> DEFINE u == p(k)
             b == Pow(ByteLen)
  <2>3. u \in Nat \ {0} /\ b \in Nat \ {0} /\ p(k + 1) = u * b
    BY <1>1, <2>2
  <2>4. CASE k < 2^size
    <3> DEFINE v == m[Unsigned(addr + k)]
    <3>1. v \in 0..(b - 1)
      BY <2>4, SpanIsRam, LengthPowers
    <3>2. Part(k) = v * u
      BY <2>4 DEF Pow
    <3> HIDE DEF v, u, b, Part, p
    <3>3. v * u \in Int /\ v * u >= 0 /\ (b - 1 - v) * u >= 0
      BY <2>3, <3>1
    <3>4. (b - 1 - v) * u = u * b - u - v * u /\ u * b \in Int
      BY <2>3, <3>1
    <3>5. v * u \in 0..(u * b - u)
      BY <2>3, <3>3, <3>4
    <3>. QED
      BY <2>2, <2>3, <3>2, <3>5 DEF u
  <2>5. CASE ~(k < 2^size)
    <3>1. u * b >= u
      BY <2>3, ProductGrows
    <3>2. Part(k) = 0
      BY <2>5
    <3> HIDE DEF u, b, Part, p
    <3>. QED
      BY <2>2, <2>3, <3>1, <3>2 DEF u
  <2>. QED
    BY <2>2, <2>4, <2>5
<1>3. p(0) = 1 /\ p(8) = Pow(XLEN)
  BY <1>1, Lengths, PowerOfZero
<1>4. ReadRam(m, addr, size) = Part(0) + Part(1) + Part(2) + Part(3) + Part(4) + Part(5)
                                 + Part(6) + Part(7)
  BY DEF ReadRam
<1> HIDE DEF Part, p
<1>5. /\ Part(0) \in 0..(p(1) - p(0)) /\ p(0) \in Nat /\ p(1) \in Nat
      /\ Part(1) \in 0..(p(2) - p(1)) /\ p(2) \in Nat
      /\ Part(2) \in 0..(p(3) - p(2)) /\ p(3) \in Nat
      /\ Part(3) \in 0..(p(4) - p(3)) /\ p(4) \in Nat
      /\ Part(4) \in 0..(p(5) - p(4)) /\ p(5) \in Nat
      /\ Part(5) \in 0..(p(6) - p(5)) /\ p(6) \in Nat
      /\ Part(6) \in 0..(p(7) - p(6)) /\ p(7) \in Nat
      /\ Part(7) \in 0..(p(8) - p(7)) /\ p(8) \in Nat
  <2>1. \A k \in Nat : p(k) \in Nat /\ p(k + 1) \in Nat /\ Part(k) \in 0..(p(k + 1) - p(k))
    BY <1>2
  <2>2. /\ 0 \in Nat /\ 1 \in Nat /\ 2 \in Nat /\ 3 \in Nat /\ 4 \in Nat /\ 5 \in Nat
        /\ 6 \in Nat /\ 7 \in Nat
        /\ 0 + 1 = 1 /\ 1 + 1 = 2 /\ 2 + 1 = 3 /\ 3 + 1 = 4 /\ 4 + 1 = 5 /\ 5 + 1 = 6
        /\ 6 + 1 = 7 /\ 7 + 1 = 8
    OBVIOUS
  <2>3. /\ p(0 + 1) \in Nat /\ Part(0) \in 0..(p(0 + 1) - p(0)) /\ p(0) \in Nat
        /\ p(1 + 1) \in Nat /\ Part(1) \in 0..(p(1 + 1) - p(1))
        /\ p(2 + 1) \in Nat /\ Part(2) \in 0..(p(2 + 1) - p(2))
        /\ p(3 + 1) \in Nat /\ Part(3) \in 0..(p(3 + 1) - p(3))
        /\ p(4 + 1) \in Nat /\ Part(4) \in 0..(p(4 + 1) - p(4))
        /\ p(5 + 1) \in Nat /\ Part(5) \in 0..(p(5 + 1) - p(5))
        /\ p(6 + 1) \in Nat /\ Part(6) \in 0..(p(6 + 1) - p(6))
        /\ p(7 + 1) \in Nat /\ Part(7) \in 0..(p(7 + 1) - p(7))
    BY <2>1, <2>2, Zenon
  <2>. QED
    BY <2>2, <2>3, Zenon
<1>6. ReadRam(m, addr, size) \in 0..(p(8) - p(0))
  BY <1>4, <1>5
<1>. QED
  BY <1>3, <1>6, LengthPowers

LEMMA WrittenIsRam ==
    ASSUME NEW m \in [Ram -> Bytes], NEW addr \in Nat, NEW size, NEW v \in Nat
    PROVE  WriteRam(m, addr, size, v) \in [Ram -> Bytes]
<1>1. ASSUME NEW a \in Ram
      PROVE  Bits(v, Unsigned(a - addr) * ByteLen, ByteLen) \in Bytes
  <2>1. a \in Int
    BY CoreAssumption, LengthPowers
  <2>2. Unsigned(a - addr) \in Nat
    <3>1. a - addr \in Int
      BY <2>1
    <3>. QED
      BY <3>1, UnsignedIsWord
  <2>3. Unsigned(a - addr) * ByteLen \in Nat /\ ByteLen \in Nat
    BY <2>2, Lengths
  <2> DEFINE lo == Unsigned(a - addr) * ByteLen
  <2>4. lo \in Nat /\ ByteLen \in Nat /\ v \in Int
    BY <2>3
  <2> HIDE DEF lo
  <2>5. Bits(v, lo, ByteLen) \in 0..(Pow(ByteLen) - 1)
    BY <2>4, BitsAre
  <2>. QED
    BY <2>5, LengthPowers DEF lo
<1>. QED
  BY <1>1 DEF WriteRam

\* What a load puts in a register.
LEMMA ExtendedIsWord ==
    ASSUME NEW f3 \in 0..7, NEW data \in Words
    PROVE  Extended(f3, data) \in Words /\ Boxed(f3, data) \in Words
<1>1. data \in Int /\ data \in Nat
  BY LengthPowers
<1>2. Extended(f3, data) \in Words
  <2>1. CASE f3 < 3
    <3>1. 2^f3 \in Nat \ {0}
      <4>1. Pow(f3) \in Nat \ {0}
        BY PowIsPositive
      <4>. QED
        BY <4>1 DEF Pow
    <3>2. ByteLen * 2^f3 \in Nat \ {0}
      <4> DEFINE k == 2^f3
      <4>1. k \in Nat \ {0}
        BY <3>1
      <4> HIDE DEF k
      <4>2. ByteLen * k \in Nat \ {0}
        <5>1. k \in Int /\ k > 0 /\ ByteLen \in Nat \ {0}
          BY <4>1, Lengths
        <5>2. ByteLen * k >= ByteLen /\ ByteLen * k \in Int
          BY <5>1, ProductGrows
        <5>. QED
          BY <5>1, <5>2
      <4>. QED
        BY <4>2 DEF k
    <3>3. SignExtend(data, ByteLen * 2^f3) \in Int
      BY <1>1, <3>2, ExtendedIsNumber
    <3>. QED
      BY <2>1, <3>3, UnsignedIsWord DEF Extended
  <2>2. CASE ~(f3 < 3)
    BY <2>2 DEF Extended
  <2>. QED
    BY <2>1, <2>2
<1>3. Boxed(f3, data) \in Words
  <2> DEFINE l == Pow(XLEN)
             h == Pow(HalfLen)
             c == data % h
  <2>1. l \in Nat \ {0} /\ h \in Nat \ {0} /\ l = h * h /\ Words = 0..(l - 1)
    BY LengthPowers
  <2>2. Boxed(f3, data) = IF f3 = 2 THEN l - h + c ELSE data
    BY DEF Boxed, Pow
  <2>3. c \in 0..(h - 1)
    <3> HIDE DEF h
    <3>. QED
      BY <1>1, <2>1, DivisionGives
  <2>4. l >= h
    BY <2>1, ProductGrows
  <2> HIDE DEF l, h, c
  <2>5. l - h + c \in 0..(l - 1)
    BY <2>1, <2>3, <2>4
  <2>. QED
    BY <2>1, <2>2, <2>5
<1>. QED
  BY <1>2, <1>3

-----------------------------------------------------------------------------
(* The invariant                                                           *)

\* The length of the instruction.
Length == IF Compressed THEN 2 ELSE 4

\* The instruction that the code at this address decodes to, if there is one.
Decoded ==
    IF Compressed THEN DecompressWord(code[1]) ELSE {Joined(code[1], code[2])}

\* Until it is done, an instruction has caused no trap; pc is its address, and from then
\* on that of the next one, which epc has taken over; what is executed is what the code
\* decodes to; instructions begin at even addresses.
CoreInv ==
    /\ TypeOK
    /\ (at % 2) = 0
    /\ step = "fetch" => trap = {} /\ pc = at
    /\ step = "execute" =>
         /\ trap = {}
         /\ epc = at
         /\ pc = Unsigned(at + Length)
         /\ insn = Decoded
    /\ PreciseTraps

LEMMA CoreInvInit == Init => CoreInv
<1> SUFFICES ASSUME Init PROVE CoreInv
  OBVIOUS
<1>1. PICK c \in Cases : \E odd \in c.odds, even \in c.evens :
        /\ code \in c.codes /\ pc \in c.pcs /\ fs \in c.units
        /\ xregs = [r \in Regs |-> IF r = 0 THEN 0
                                   ELSE IF (r % 2) = 1 THEN odd ELSE even]
        /\ fregs = [r \in Regs |-> IF (r % 2) = 1 THEN even ELSE odd]
  BY DEF Init
<1>2. PICK odd \in c.odds, even \in c.evens :
        /\ xregs = [r \in Regs |-> IF r = 0 THEN 0
                                   ELSE IF (r % 2) = 1 THEN odd ELSE even]
        /\ fregs = [r \in Regs |-> IF (r % 2) = 1 THEN even ELSE odd]
  BY <1>1
<1>3. step = "fetch" /\ insn = {} /\ at = pc /\ epc = 0 /\ ram = RamByte /\ trap = {}
  BY DEF Init
<1>4. /\ c.codes \subseteq Halfwords \X (Halfwords \cup {NoCode})
      /\ \A a \in c.pcs : a \in Words /\ (a % 2) = 0
      /\ c.odds \cup c.evens \subseteq Words
      /\ c.units \subseteq BOOLEAN
      /\ RamByte \in [Ram -> Bytes]
  BY CoreAssumption
<1>5. 0 \in Words
  BY LengthPowers
<1>6. odd \in Words /\ even \in Words
  BY <1>4
<1>7. xregs \in [Regs -> Words] /\ xregs[0] = 0 /\ fregs \in [Regs -> Words]
  BY <1>2, <1>5, <1>6 DEF Regs
<1>8. TypeOK
  BY <1>1, <1>3, <1>4, <1>5, <1>7, ZenonT(60) DEF TypeOK
<1>. QED
  BY <1>1, <1>3, <1>4, <1>8 DEF CoreInv, PreciseTraps

\* A trap leaves the registers alone, and continues at the handler.
LEMMA TrapStep ==
    ASSUME CoreInv, NEW cause, NEW where, NEW tval, Trap(cause, where, tval),
           epc' \in Words
    PROVE  TypeOK' /\ (at' % 2) = 0
<1>1. Handler \in Words
  BY CoreAssumption
<1>. QED
  BY <1>1 DEF CoreInv, TypeOK, Trap, machine

\* What has to be reported is settled once the instruction is decoded.
LEMMA ReportedStays ==
    ASSUME NEW cause, UNCHANGED <<at, code, insn, xregs>>
    PROVE  Reported(cause)' = Reported(cause)
BY DEF Reported, Compressed

LEMMA HalfwordsAreInt == Halfwords \subseteq Int
BY DEF Halfwords

LEMMA FetchStep ==
    ASSUME CoreInv, FetchFault \/ BadCompressed \/ FetchCompressed \/ FetchFull
    PROVE  CoreInv'
<1> USE DEF CoreInv
<1>1. step = "fetch" /\ trap = {} /\ pc = at /\ pc \in Words /\ epc \in Words
  BY DEF FetchFault, BadCompressed, FetchCompressed, FetchFull, Decode, TypeOK
<1>2. CASE FetchFault
  <2>1. \E tval : /\ Trap("fetch", pc, tval) /\ UNCHANGED epc
                  /\ \/ tval = <<"address", pc>>
                     \/ /\ ~Compressed /\ code[2] = NoCode
                        /\ tval = <<"address", Unsigned(pc + 2)>>
    BY <1>2 DEF FetchFault
  <2>2. PICK tval : /\ Trap("fetch", pc, tval) /\ UNCHANGED epc
                    /\ \/ tval = <<"address", pc>>
                       \/ /\ ~Compressed /\ code[2] = NoCode
                          /\ tval = <<"address", Unsigned(pc + 2)>>
    BY <2>1
  <2>3. TypeOK' /\ (at' % 2) = 0
    BY <1>1, <2>2, TrapStep
  <2>4. tval \in Reported("fetch")
    BY <1>1, <2>2 DEF Reported
  <2>5. PreciseTraps'
    <3>1. Reported("fetch")' = Reported("fetch")
      BY <2>2, ReportedStays DEF Trap, machine
    <3>. QED
      BY <1>1, <2>2, <2>4, <3>1 DEF PreciseTraps, Trap
  <2>. QED
    BY <2>2, <2>3, <2>5 DEF Trap
<1>3. CASE BadCompressed
  <2>1. epc' = pc /\ Trap("illegal", pc, <<"word", code[1]>>)
    BY <1>3 DEF BadCompressed
  <2>2. TypeOK' /\ (at' % 2) = 0
    BY <1>1, <2>1, TrapStep
  <2>3. PreciseTraps'
    <3>1. <<"word", code[1]>> \in Reported("illegal")
      BY <1>3 DEF BadCompressed, Reported
    <3>2. Reported("illegal")' = Reported("illegal")
      BY <2>1, ReportedStays DEF Trap, machine
    <3>. QED
      BY <1>1, <2>1, <3>1, <3>2 DEF PreciseTraps, Trap
  <2>. QED
    BY <2>1, <2>2, <2>3 DEF Trap
<1>4. ASSUME NEW decoded \in SUBSET Insns, decoded = Decoded, Decode(decoded, Length)
      PROVE  CoreInv'
  <2>1. pc + Length \in Int
    BY <1>1, LengthPowers DEF Length
  <2>2. Unsigned(pc + Length) \in Words
    BY <2>1, UnsignedIsWord
  <2>3. TypeOK'
    BY <1>1, <1>4, <2>2 DEF TypeOK, Decode, machine
  <2>4. Length' = Length
    BY <1>4 DEF Length, Compressed, Decode
  <2>5. PreciseTraps'
    BY <1>1, <1>4 DEF PreciseTraps, Decode
  <2>6. insn' = Decoded'
    BY <1>4 DEF Decoded, Compressed, Decode
  <2>. QED
    BY <1>1, <1>4, <2>3, <2>4, <2>5, <2>6 DEF Decode
<1>5. code[1] \in Int /\ (code[2] # NoCode => code[2] \in Int)
  BY HalfwordsAreInt DEF TypeOK
<1>6. CASE FetchCompressed
  <2>1. DecompressWord(code[1]) \in SUBSET Insns
    BY <1>5, Decodes
  <2>2. Decode(DecompressWord(code[1]), Length)
    BY <1>6 DEF FetchCompressed, Length
  <2>3. DecompressWord(code[1]) = Decoded
    BY <1>6 DEF FetchCompressed, Decoded
  <2>. QED
    BY <1>4, <2>1, <2>2, <2>3
<1>7. CASE FetchFull
  <2>1. {Joined(code[1], code[2])} \in SUBSET Insns
    BY <1>5, <1>7, JoinedIsInsn DEF FetchFull
  <2>2. Decode({Joined(code[1], code[2])}, Length)
    BY <1>7 DEF FetchFull, Length
  <2>3. {Joined(code[1], code[2])} = Decoded
    BY <1>7 DEF FetchFull, Decoded
  <2>. QED
    BY <1>4, <2>1, <2>2, <2>3
<1>. QED
  BY <1>2, <1>3, <1>6, <1>7

\* An instruction that is executed without a trap keeps the invariant, when what it
\* writes has the types of what it is written to.
LEMMA FinishStep ==
    ASSUME CoreInv, step = "execute", NEW target \in Words, Finish(target),
           xregs' \in [Regs -> Words], xregs'[0] = 0, fregs' \in [Regs -> Words],
           fs' = fs, ram' \in [Ram -> Bytes]
    PROVE  CoreInv'
<1>1. TypeOK'
  BY DEF CoreInv, TypeOK, Finish
<1>2. PreciseTraps'
  BY DEF CoreInv, PreciseTraps, Finish
<1>. QED
  BY <1>1, <1>2 DEF CoreInv, Finish

LEMMA ExecuteTraps ==
    ASSUME CoreInv, step = "execute", NEW i \in insn,
           NEW cause \in {"illegal", "ecall", "ebreak", "load", "store"}, NEW tval,
           Trap(cause, epc, tval), UNCHANGED epc, tval \in Reported(cause)
    PROVE  CoreInv'
<1>1. TypeOK' /\ (at' % 2) = 0
  <2>1. epc' \in Words
    BY DEF CoreInv, TypeOK
  <2>. QED
    BY <2>1, TrapStep
<1>2. /\ trap' = {[cause |-> cause, epc |-> epc, tval |-> tval]} /\ epc = at
      /\ step' = "done" /\ UNCHANGED <<at, code, insn, xregs>>
  BY DEF CoreInv, Trap, machine
<1>3. PreciseTraps'
  <2>1. Reported(cause)' = Reported(cause)
    BY <1>2, ReportedStays
  <2>. QED
    BY <1>2, <2>1 DEF PreciseTraps
<1>. QED
  BY <1>1, <1>2, <1>3 DEF CoreInv

LEMMA IllegalStep ==
    ASSUME CoreInv, step = "execute", NEW i \in insn, Illegal(i)
    PROVE  CoreInv'
<1>1. i \in Decoded
  BY DEF CoreInv
<1>2. <<"insn", i>> \in Reported("illegal")
  BY <1>1 DEF Decoded, Reported
<1>. QED
  BY <1>2, ExecuteTraps DEF Illegal

\* x0 stays zero.
LEMMA WriteXStep ==
    ASSUME CoreInv, NEW r \in Regs, NEW v \in Words, WriteX(r, v)
    PROVE  /\ xregs' \in [Regs -> Words] /\ xregs'[0] = 0
           /\ r # 0 => xregs'[r] = v
BY DEF CoreInv, TypeOK, WriteX

\* The operands of an instruction.
LEMMA InsnParts ==
    ASSUME CoreInv, NEW i \in insn
    PROVE  /\ i \in Insns /\ i.rd \in Regs /\ i.rs1 \in Regs /\ i.rs2 \in Regs
           /\ i.opcode \in 0..31 /\ i.funct3 \in 0..7
           /\ xregs[i.rs1] \in Words /\ xregs[i.rs2] \in Words
           /\ fregs[i.rs2] \in Words
           /\ pc \in Words /\ epc \in Words /\ at \in Words
           /\ fregs \in [Regs -> Words] /\ ram \in [Ram -> Bytes]
           /\ xregs \in [Regs -> Words] /\ xregs[0] = 0
<1>1. /\ i \in Insns
      /\ pc \in Words /\ epc \in Words /\ at \in Words
      /\ xregs \in [Regs -> Words] /\ xregs[0] = 0 /\ fregs \in [Regs -> Words]
      /\ ram \in [Ram -> Bytes]
  BY DEF CoreInv, TypeOK
<1>2. /\ i.rd \in Regs /\ i.rs1 \in Regs /\ i.rs2 \in Regs
      /\ i.opcode \in 0..31 /\ i.funct3 \in 0..7
  BY <1>1 DEF Insns, Regs
<1>. QED
  BY <1>1, <1>2

LEMMA WordsAreNat == Words \subseteq Nat /\ Words \subseteq Int
BY LengthPowers

\* The addresses of loads and stores, and what the properties call their immediates.
LEMMA Addressed ==
    ASSUME CoreInv, NEW i \in insn
    PROVE  /\ LoadAddr(i) \in Nat /\ StoreAddr(i) \in Nat
           /\ i.opcode \in {LOAD, LOAD_FP} =>
                LoadAddr(i) = Unsigned(xregs[i.rs1] + Immediate(i))
           /\ i.opcode \in {STORE, STORE_FP} =>
                StoreAddr(i) = Unsigned(xregs[i.rs1] + Immediate(i))
<1>1. xregs[i.rs1] \in Int /\ Imm12(i) \in Int /\ SImm12(i) \in Int
  BY InsnParts, WordsAreNat, Immediates
<1>2. LoadAddr(i) \in Nat /\ StoreAddr(i) \in Nat
  <2>1. xregs[i.rs1] + Imm12(i) \in Int /\ xregs[i.rs1] + SImm12(i) \in Int
    BY <1>1
  <2>. QED
    BY <2>1, UnsignedIsWord DEF LoadAddr, StoreAddr
<1>3. i.opcode \in {LOAD, LOAD_FP} => Immediate(i) = Imm12(i)
  BY DEF Immediate, LOAD, LOAD_FP, STORE, STORE_FP, BRANCH, JAL, LUI, OP_IMM, OP, OP_32, SYSTEM
<1>4. i.opcode \in {STORE, STORE_FP} => Immediate(i) = SImm12(i)
  BY DEF Immediate, STORE, STORE_FP, BRANCH, JAL, LUI, OP_IMM, OP, OP_32, SYSTEM
<1>. QED
  BY <1>2, <1>3, <1>4 DEF LoadAddr, StoreAddr

LEMMA OperationSteps ==
    ASSUME CoreInv, NEW i \in insn, BaseOp(i) \/ MulDiv(i)
    PROVE  CoreInv'
<1>0. step = "execute"
  BY DEF BaseOp, MulDiv, Selected
<1>1. CASE BaseOp(i)
  <2>1. Operand2(i) \in Words
    <3>1. Unsigned(Imm12(i)) \in Words
      BY InsnParts, Immediates, UnsignedIsWord
    <3>. QED
      BY <3>1, InsnParts DEF Operand2
  <2>2. BaseResult(i, xregs[i.rs1], Operand2(i)) \in Words
    BY <2>1, InsnParts, BaseResultIsWord
  <2>3. xregs' \in [Regs -> Words] /\ xregs'[0] = 0
    BY <1>1, <2>2, InsnParts, WriteXStep DEF BaseOp
  <2>. QED
    BY <1>0, <1>1, <2>3, InsnParts, FinishStep DEF BaseOp
<1>2. CASE MulDiv(i) /\ ~MulDivIllegal(i)
  <2>1. MulDivResult(i, xregs[i.rs1], xregs[i.rs2]) \in Words
    BY InsnParts, MulDivResultIsWord
  <2>2. xregs' \in [Regs -> Words] /\ xregs'[0] = 0
    BY <1>2, <2>1, InsnParts, WriteXStep DEF MulDiv
  <2>. QED
    BY <1>0, <1>2, <2>2, InsnParts, FinishStep DEF MulDiv
<1>3. CASE MulDiv(i) /\ MulDivIllegal(i)
  BY <1>0, <1>3, IllegalStep DEF MulDiv
<1>. QED
  BY <1>1, <1>2, <1>3

LEMMA TransferSteps ==
    ASSUME CoreInv, NEW i \in insn, Load(i) \/ Store(i)
    PROVE  CoreInv'
<1> DEFINE size == i.funct3 % 4
<1>1. step = "execute" /\ size \in 0..3
  <2>1. i.funct3 \in 0..7
    BY InsnParts
  <2>. QED
    BY <2>1 DEF Load, Store, Selected
<1>2. CASE Load(i)
  <2> DEFINE addr == LoadAddr(i)
             data == Extended(i.funct3, ReadRam(ram, addr, size))
  <2>1. i.opcode \in {LOAD, LOAD_FP}
    BY <1>2 DEF Load, Selected
  <2>2. CASE Illegal(i)
    BY <1>1, <2>2, IllegalStep
  <2>3. CASE Trap("load", epc, <<"address", addr>>) /\ UNCHANGED epc
    <3>1. <<"address", addr>> \in Reported("load")
      BY <2>1, Addressed DEF Reported
    <3>. QED
      BY <1>1, <2>3, <3>1, ExecuteTraps
  <2>4. CASE /\ Accessible(addr, size)
             /\ \/ /\ fregs' = [fregs EXCEPT ![i.rd] = Boxed(i.funct3, data)]
                   /\ UNCHANGED xregs
                \/ WriteX(i.rd, data) /\ UNCHANGED fregs
             /\ Finish(pc)
             /\ UNCHANGED <<fs, ram>>
    <3>1. ReadRam(ram, addr, size) \in Words
      BY <1>1, <2>4, InsnParts, ReadIsWord
    <3>2. data \in Words /\ Boxed(i.funct3, data) \in Words
      <4>1. i.funct3 \in 0..7
        BY InsnParts
      <4>2. data \in Words
        BY <3>1, <4>1, ExtendedIsWord
      <4> HIDE DEF data
      <4>. QED
        BY <4>1, <4>2, ExtendedIsWord
    <3> HIDE DEF data, addr, size
    <3>3. /\ xregs' \in [Regs -> Words] /\ xregs'[0] = 0
          /\ fregs' \in [Regs -> Words]
      <4>1. CASE WriteX(i.rd, data) /\ UNCHANGED fregs
        BY <3>2, <4>1, InsnParts, WriteXStep
      <4>2. CASE /\ fregs' = [fregs EXCEPT ![i.rd] = Boxed(i.funct3, data)]
                 /\ UNCHANGED xregs
        BY <3>2, <4>2, InsnParts
      <4>. QED
        BY <2>4, <4>1, <4>2
    <3>. QED
      BY <1>1, <2>4, <3>3, InsnParts, FinishStep
  <2>. QED
    BY <1>2, <2>2, <2>3, <2>4 DEF Load
<1>3. CASE Store(i)
  <2> DEFINE addr == StoreAddr(i)
             data == IF IsFloat(i) THEN fregs[i.rs2] ELSE xregs[i.rs2]
  <2>1. i.opcode \in {STORE, STORE_FP}
    BY <1>3 DEF Store, Selected
  <2>2. CASE Illegal(i)
    BY <1>1, <2>2, IllegalStep
  <2>3. CASE Trap("store", epc, <<"address", addr>>) /\ UNCHANGED epc
    <3>1. <<"address", addr>> \in Reported("store")
      BY <2>1, Addressed DEF Reported
    <3>. QED
      BY <1>1, <2>3, <3>1, ExecuteTraps
  <2>4. CASE /\ ram' = WriteRam(ram, addr, size, data)
             /\ Finish(pc)
             /\ UNCHANGED <<xregs, fregs, fs>>
    <3>1. addr \in Nat /\ data \in Nat
      BY Addressed, InsnParts, WordsAreNat
    <3>2. ram' \in [Ram -> Bytes]
      BY <2>4, <3>1, InsnParts, WrittenIsRam
    <3>. QED
      BY <1>1, <2>4, <3>2, InsnParts, FinishStep
  <2>. QED
    BY <1>3, <2>2, <2>3, <2>4 DEF Store
<1>. QED
  BY <1>2, <1>3

\* The sums that targets are made of.
LEMMA Targets ==
    ASSUME CoreInv, NEW i \in insn
    PROVE  /\ epc + JImm(i) \in Int /\ epc + BImm(i) \in Int
           /\ xregs[i.rs1] + Imm12(i) \in Int
<1>1. /\ epc \in Int /\ xregs[i.rs1] \in Int
      /\ JImm(i) \in Int /\ BImm(i) \in Int /\ Imm12(i) \in Int
  BY InsnParts, WordsAreNat, Immediates
<1>. QED
  BY <1>1

\* JALR clears the lowest bit of its target.
LEMMA Cleared ==
    ASSUME NEW w \in Words
    PROVE  /\ w - (w % 2) \in Words /\ (w % 2) \in {0, 1}
           /\ (w % 2) = 1 => w - 1 \in Nat
<1> DEFINE m == Pow(XLEN)
           b == w % 2
<1>1. m \in Nat \ {0} /\ Words = 0..(m - 1) /\ w \in Nat /\ w \in 0..(m - 1)
  BY LengthPowers
<1>2. b \in 0..1 /\ b =< w
  BY <1>1
<1> HIDE DEF m, b
<1>3. w - b \in 0..(m - 1) /\ b \in {0, 1} /\ (b = 1 => w - 1 \in Nat)
  BY <1>1, <1>2
<1>. QED
  BY <1>1, <1>3 DEF b

LEMMA JumpSteps ==
    ASSUME CoreInv, NEW i \in insn, Jal(i) \/ Jalr(i)
    PROVE  CoreInv'
<1>0. step = "execute"
  BY DEF Jal, Jalr, Selected
<1>1. xregs' \in [Regs -> Words] /\ xregs'[0] = 0
  BY InsnParts, WriteXStep DEF Jal, Jalr
<1>2. CASE Jal(i)
  <2>1. epc + JImm(i) \in Int
    BY Targets
  <2>2. Unsigned(epc + JImm(i)) \in Words
    BY <2>1, UnsignedIsWord
  <2>. QED
    BY <1>0, <1>1, <1>2, <2>2, InsnParts, FinishStep DEF Jal
<1>3. CASE Jalr(i)
  <2> DEFINE target == Unsigned(xregs[i.rs1] + Imm12(i))
  <2>1. xregs[i.rs1] + Imm12(i) \in Int
    BY Targets
  <2>2. target \in Words
    BY <2>1, UnsignedIsWord
  <2> HIDE DEF target
  <2>3. target - (target % 2) \in Words
    BY <2>2, Cleared
  <2>4. Finish(target - (target % 2))
    BY <1>3 DEF Jalr, target
  <2>. QED
    BY <1>0, <1>1, <1>3, <2>3, <2>4, InsnParts, FinishStep DEF Jalr
<1>. QED
  BY <1>2, <1>3

LEMMA OtherSteps ==
    ASSUME CoreInv, NEW i \in insn,
           Lui(i) \/ Branch(i) \/ MiscMem(i) \/ System(i) \/ NoOpcode(i)
    PROVE  CoreInv'
<1>0. step = "execute"
  BY DEF Lui, Branch, MiscMem, System, NoOpcode, Selected
<1>1. CASE Lui(i)
  <2> DEFINE upper == SignedHalf(UImm20(i) * 2^UpperShift)
             v == IF i.opcode = AUIPC THEN upper + epc ELSE upper
  <2>1. upper \in Int
    <3>1. UpperShift \in Nat
      BY CoreAssumption, Lengths
    <3>2. UImm20(i) \in Int /\ Pow(UpperShift) \in Int
      BY <3>1, InsnParts, Immediates, PowIsPositive
    <3>3. UImm20(i) * Pow(UpperShift) \in Int
      BY <3>2
    <3>4. SignExtend(UImm20(i) * Pow(UpperShift), HalfLen) \in Int
      BY <3>3, Lengths, ExtendedIsNumber
    <3>. QED
      BY <3>4 DEF SignedHalf, Pow
  <2> HIDE DEF upper
  <2>2. v \in Int
    <3>1. epc \in Int
      BY InsnParts, WordsAreNat
    <3>2. upper + epc \in Int
      BY <2>1, <3>1
    <3>. QED
      BY <2>1, <3>2
  <2>3. WriteX(i.rd, Unsigned(v)) /\ Finish(pc) /\ UNCHANGED <<fregs, fs, ram>>
    BY <1>1 DEF Lui, upper
  <2> HIDE DEF v
  <2>4. Unsigned(v) \in Words
    BY <2>2, UnsignedIsWord
  <2>5. xregs' \in [Regs -> Words] /\ xregs'[0] = 0
    BY <2>3, <2>4, InsnParts, WriteXStep
  <2>. QED
    BY <1>0, <2>3, <2>5, InsnParts, FinishStep
<1>2. CASE Branch(i)
  <2>1. CASE Illegal(i)
    BY <1>0, <2>1, IllegalStep
  <2>2. CASE ~Illegal(i)
    <3> DEFINE target == IF Taken(i, xregs[i.rs1], xregs[i.rs2])
                         THEN Unsigned(epc + BImm(i)) ELSE pc
    <3>1. epc + BImm(i) \in Int
      BY Targets
    <3>2. target \in Words
      BY <3>1, InsnParts, UnsignedIsWord
    <3>3. Finish(target) /\ UNCHANGED machine
      BY <1>2, <2>2 DEF Branch
    <3> HIDE DEF target
    <3>4. UNCHANGED <<xregs, fregs, fs, ram>>
      BY <3>3 DEF machine
    <3>. QED
      BY <1>0, <3>2, <3>3, <3>4, InsnParts, FinishStep
  <2>. QED
    BY <2>1, <2>2
<1>3. CASE MiscMem(i)
  <2>1. Finish(pc) /\ UNCHANGED <<xregs, fregs, fs, ram>>
    BY <1>3 DEF MiscMem, machine
  <2>. QED
    BY <1>0, <2>1, InsnParts, FinishStep
<1>4. CASE System(i)
  <2>1. \E cause \in {"ecall", "ebreak"} : Trap(cause, epc, <<"none">>) /\ UNCHANGED epc
    BY <1>4 DEF System
  <2>2. \A cause \in {"ecall", "ebreak"} : <<"none">> \in Reported(cause)
    BY DEF Reported
  <2>. QED
    BY <1>0, <2>1, <2>2, ExecuteTraps
<1>5. CASE NoOpcode(i)
  BY <1>0, <1>5, IllegalStep DEF NoOpcode
<1>. QED
  BY <1>1, <1>2, <1>3, <1>4, <1>5

LEMMA CoreInvStep ==
    ASSUME CoreInv, [Next]_vars
    PROVE  CoreInv'
<1>1. CASE FetchFault \/ BadCompressed \/ FetchCompressed \/ FetchFull
  BY <1>1, FetchStep
<1>2. ASSUME NEW i \in insn, Execute(i) PROVE CoreInv'
  BY <1>2, OperationSteps, TransferSteps, JumpSteps, OtherSteps DEF Execute
<1>3. CASE UNCHANGED vars
  <2>1. \A cause : Reported(cause)' = Reported(cause)
    BY <1>3, ReportedStays DEF vars
  <2>2. Decoded' = Decoded /\ Length' = Length
    BY <1>3 DEF vars, Decoded, Length, Compressed
  <2>. QED
    BY <1>3, <2>1, <2>2 DEF vars, CoreInv, TypeOK, PreciseTraps
<1>. QED
  BY <1>1, <1>2, <1>3 DEF Next, Stop

\* A number below another of which it leaves a remainder.
LEMMA Predecessor ==
    ASSUME NEW s \in Int, Unsigned(s) % 2 = 1
    PROVE  Unsigned(s) - 1 = Unsigned(s - 1) /\ (Unsigned(s) - 1) % 2 = 0
<1> DEFINE m == Pow(XLEN)
           t == s % m
           q == s \div m
<1>1. m \in Nat \ {0} /\ Unsigned(s) = t /\ s - 1 \in Int /\ Unsigned(s - 1) = (s - 1) % m
  BY LengthPowers
<1>2. q \in Int /\ t \in 0..(m - 1) /\ s = m * q + t
  BY <1>1, DivisionGives
<1>3. t % 2 = 1
  BY <1>1
<1> HIDE DEF t, q, m
<1> DEFINE p == m * q
<1>4. p \in Int
  BY <1>1, <1>2
<1>5. t - 1 \in 0..(m - 1) /\ (t - 1) % 2 = 0
  BY <1>1, <1>2, <1>3
<1>6. s - 1 = p + (t - 1)
  <2> HIDE DEF p
  <2>1. s = p + t
    BY <1>2 DEF p
  <2>. QED
    BY <1>1, <1>2, <1>4, <2>1
<1>7. (p + (t - 1)) % m = t - 1
  <2> DEFINE c == t - 1
  <2>1. c \in 0..(m - 1)
    BY <1>5
  <2> HIDE DEF c
  <2>2. (m * q + c) % m = c
    BY <1>1, <1>2, <2>1, RemainderIsUnique
  <2>. QED
    BY <2>2 DEF c
<1>. QED
  BY <1>1, <1>5, <1>6, <1>7

\* Calls come back: what JAL and JALR leave.
LEMMA CallsReturnStep ==
    ASSUME CoreInv, NEW i \in insn, Jal(i) \/ Jalr(i)
    PROVE  LET base == IF i.opcode = JAL THEN at ELSE xregs[i.rs1]
           IN  /\ pc' \in {Unsigned(base + Immediate(i)), Unsigned(base + Immediate(i) - 1)}
               /\ (pc' % 2) = 0
               /\ i.rd # 0 => xregs'[i.rd] = Unsigned(at + (IF Compressed THEN 2 ELSE 4))
<1> DEFINE base == IF i.opcode = JAL THEN at ELSE xregs[i.rs1]
<1>1. step = "execute" /\ WriteX(i.rd, pc)
  BY DEF Jal, Jalr, Selected
<1>2. i.rd # 0 => xregs'[i.rd] = Unsigned(at + (IF Compressed THEN 2 ELSE 4))
  <2>1. pc = Unsigned(at + (IF Compressed THEN 2 ELSE 4)) /\ pc \in Words /\ i.rd \in Regs
    BY <1>1, InsnParts DEF CoreInv, Length
  <2>. QED
    BY <1>1, <2>1, WriteXStep
<1>3. pc' \in {Unsigned(base + Immediate(i)), Unsigned(base + Immediate(i) - 1)}
      /\ (pc' % 2) = 0
  <2>1. CASE Jal(i)
    <3>1. /\ i.opcode = JAL /\ pc' = Unsigned(epc + JImm(i)) /\ epc = at
      BY <1>1, <2>1 DEF Jal, Selected, Finish, CoreInv
    <3>2. Immediate(i) = JImm(i)
      BY <3>1 DEF Immediate, JAL, LUI, STORE, STORE_FP, BRANCH, OP_IMM, OP, OP_32, SYSTEM
    <3>3. Even(at + JImm(i))
      <4>1. at \in Int
        BY InsnParts, WordsAreNat
      <4>2. at = 2 * (at \div 2) /\ at \div 2 \in Int
        <5>1. at % 2 = 0
          BY DEF CoreInv
        <5>. QED
          BY <4>1, <5>1
      <4>3. Even(at)
        BY <4>2 DEF Even
      <4>. QED
        BY <4>3, InsnParts, Immediates, EvenSum
    <3>4. at + JImm(i) \in Int
      BY <3>1, Targets
    <3>5. Pow(XLEN) \in Nat \ {0} /\ Even(Pow(XLEN))
          /\ Unsigned(at + JImm(i)) = (at + JImm(i)) % Pow(XLEN)
      BY <3>4, Lengths, LengthPowers, EvenPower
    <3>6. Even(Unsigned(at + JImm(i)))
      BY <3>3, <3>4, <3>5, EvenModulus
    <3>7. Unsigned(at + JImm(i)) % 2 = 0
      BY <3>6, EvenRemainder
    <3>. QED
      BY <3>1, <3>2, <3>7
  <2>2. CASE Jalr(i)
    <3> DEFINE s == xregs[i.rs1] + Imm12(i)
               t == Unsigned(s)
    <3>1. i.opcode = JALR /\ pc' = t - (t % 2)
      BY <2>2 DEF Jalr, Selected, Finish
    <3>2. Immediate(i) = Imm12(i) /\ base = xregs[i.rs1]
      BY <3>1 DEF Immediate, JAL, JALR, LUI, STORE, STORE_FP, BRANCH, OP_IMM, OP, OP_32, SYSTEM
    <3>3. s \in Int
      BY Targets
    <3>4. t \in Words /\ t \in Nat
      BY <3>3, UnsignedIsWord
    <3>5. s = base + Immediate(i)
      BY <3>2
    <3> HIDE DEF s
    <3>6. (t % 2) \in {0, 1}
      BY <3>4, Cleared
    <3>7. CASE t % 2 = 0
      <4> HIDE DEF t
      <4>1. pc' = t
        BY <3>1, <3>4, <3>7
      <4>. QED
        BY <3>5, <3>7, <4>1 DEF t
    <3>8. CASE t % 2 = 1
      <4>1. pc' = t - 1
        BY <3>1, <3>8
      <4>2. t - 1 = Unsigned(s - 1) /\ (t - 1) % 2 = 0
        BY <3>3, <3>8, Predecessor
      <4>3. pc' = Unsigned(s - 1) /\ pc' % 2 = 0
        <5> HIDE DEF t
        <5>. QED
          BY <4>1, <4>2
      <4>4. Unsigned(s - 1) = Unsigned(base + Immediate(i) - 1)
        <5>1. base \in Int /\ Immediate(i) \in Int
          BY <3>2, InsnParts, WordsAreNat, Immediates
        <5> DEFINE d == Immediate(i)
        <5> HIDE DEF base, t, d
        <5>2. base + d - 1 = (base + d) - 1
          BY <5>1 DEF d
        <5>. QED
          BY <3>5, <5>2, Zenon DEF d
      <4> HIDE DEF base, t
      <4>. QED
        BY <4>3, <4>4, Zenon
    <3>. QED
      BY <3>6, <3>7, <3>8
  <2>. QED
    BY <2>1, <2>2
<1>. QED
  BY <1>2, <1>3

-----------------------------------------------------------------------------
(* Where branches go                                                       *)

\* Two registers are equal when the lower bits of their difference are zero.
LEMMA EqualWhenNoDifference ==
    ASSUME NEW m \in Nat \ {0}, NEW a \in 0..(m - 1), NEW b \in 0..(m - 1)
    PROVE  (a - b) % m = 0 <=> a = b
<1>1. CASE a >= b
  <2>1. a - b \in 0..(m - 1)
    BY <1>1
  <2>2. (m * 0 + (a - b)) % m = a - b
    BY <2>1, RemainderIsUnique
  <2>. QED
    BY <2>1, <2>2
<1>2. CASE a < b
  <2>1. m - (b - a) \in 1..(m - 1)
    BY <1>2
  <2>2. (m * (-1) + (m - (b - a))) % m = m - (b - a)
    BY <2>1, RemainderIsUnique
  <2>3. m * (-1) + (m - (b - a)) = a - b
    OBVIOUS
  <2>. QED
    BY <1>2, <2>1, <2>2, <2>3
<1>. QED
  BY <1>1, <1>2

\* What SUB, SLT and SLTU of two registers say of them.
LEMMA ComparesAre ==
    ASSUME NEW a \in Words, NEW b \in Words, NEW rs1, NEW rs2
    PROVE  /\ BaseResult(EncR(32, rs2, rs1, 0, 0, OP), a, b) = 0 <=> a = b
           /\ BaseResult(EncR(0, rs2, rs1, 2, 0, OP), a, b) = 1 <=> Signed(a) < Signed(b)
           /\ BaseResult(EncR(0, rs2, rs1, 3, 0, OP), a, b) = 1 <=> a < b
<1>1. ASSUME NEW funct7, NEW funct3
      PROVE  LET i == EncR(funct7, rs2, rs1, funct3, 0, OP)
             IN  /\ i.funct7 = funct7 /\ i.funct3 = funct3
                 /\ IsRegister(i) /\ ~IsWord(i)
                 /\ \A v : Low(i, v) = v /\ Value(i, v) = Signed(v)
                 /\ \A n : Result(i, n) = Unsigned(n)
  BY DEF EncR, IsRegister, IsWord, Low, Value, Result, OP, OP_32, OP_IMM_32
<1>2. Bits(32, 5, 1) = 1
  <2>1. Bits(32, 5, 1) = (32 \div Pow(5)) % Pow(1)
    BY DEF Bits, Pow
  <2>. QED
    BY <2>1, SmallPowers
<1>3. /\ Words = 0..(Pow(XLEN) - 1) /\ Pow(XLEN) \in Nat \ {0} /\ Pow(XLEN) >= 2
      /\ \A n \in Int : Unsigned(n) = n % Pow(XLEN)
  <2>1. Pow(XLEN) = 2 * Pow(XLEN - 1) /\ Pow(XLEN - 1) \in Nat \ {0}
    BY LengthPowers
  <2>2. Pow(XLEN) >= 2
    BY <2>1
  <2>. QED
    BY <2>2, LengthPowers, Zenon
<1>4. Unsigned(0) = 0 /\ Unsigned(1) = 1
  <2> DEFINE m == Pow(XLEN)
  <2>1. m \in Nat \ {0} /\ m >= 2
    BY <1>3
  <2> HIDE DEF m
  <2>2. (m * 0 + 0) % m = 0 /\ (m * 0 + 1) % m = 1 /\ m * 0 + 0 = 0 /\ m * 0 + 1 = 1
    BY <2>1, RemainderIsUnique
  <2>. QED
    BY <1>3, <2>2 DEF m
<1>5. BaseResult(EncR(32, rs2, rs1, 0, 0, OP), a, b) = 0 <=> a = b
  <2>1. BaseResult(EncR(32, rs2, rs1, 0, 0, OP), a, b) = Unsigned(a - b)
    BY <1>1, <1>2 DEF BaseResult
  <2>2. (a - b) % Pow(XLEN) = 0 <=> a = b
    BY <1>3, EqualWhenNoDifference
  <2>3. Unsigned(a - b) = (a - b) % Pow(XLEN)
    BY <1>3
  <2>. QED
    BY <2>1, <2>2, <2>3
<1>6. BaseResult(EncR(0, rs2, rs1, 2, 0, OP), a, b) = 1 <=> Signed(a) < Signed(b)
  <2>1. BaseResult(EncR(0, rs2, rs1, 2, 0, OP), a, b) = Unsigned(Truth(Signed(a) < Signed(b)))
    <3> DEFINE i == EncR(0, rs2, rs1, 2, 0, OP)
    <3>1. /\ i.funct3 = 2 /\ Low(i, a) = a /\ Low(i, b) = b
          /\ Value(i, a) = Signed(a) /\ Value(i, b) = Signed(b)
          /\ \A n : Result(i, n) = Unsigned(n)
      BY DEF EncR, IsRegister, IsWord, Low, Value, Result, OP, OP_32, OP_IMM_32
    <3> HIDE DEF i
    <3>2. BaseResult(i, a, b) = Result(i, Truth(Signed(a) < Signed(b)))
      BY <3>1 DEF BaseResult
    <3>. QED
      BY <3>1, <3>2 DEF i
  <2>. QED
    BY <1>4, <2>1 DEF Truth
<1>7. BaseResult(EncR(0, rs2, rs1, 3, 0, OP), a, b) = 1 <=> a < b
  <2>1. BaseResult(EncR(0, rs2, rs1, 3, 0, OP), a, b) = Unsigned(Truth(a < b))
    <3> DEFINE i == EncR(0, rs2, rs1, 3, 0, OP)
    <3>1. /\ i.funct3 = 3 /\ Low(i, a) = a /\ Low(i, b) = b
          /\ Value(i, a) = Signed(a) /\ Value(i, b) = Signed(b)
          /\ \A n : Result(i, n) = Unsigned(n)
      BY DEF EncR, IsRegister, IsWord, Low, Value, Result, OP, OP_32, OP_IMM_32
    <3> HIDE DEF i
    <3>2. BaseResult(i, a, b) = Result(i, Truth(a < b))
      BY <3>1 DEF BaseResult
    <3>. QED
      BY <3>1, <3>2 DEF i
  <2>. QED
    BY <1>4, <2>1 DEF Truth
<1>. QED
  BY <1>5, <1>6, <1>7

\* A branch that has not trapped has gone where the comparison says.
LEMMA BranchStep ==
    ASSUME CoreInv, NEW i \in insn, Branch(i), trap' = {}
    PROVE  LET Compare(funct7, funct3) ==
                   BaseResult(EncR(funct7, i.rs2, i.rs1, funct3, 0, OP),
                              xregs[i.rs1], xregs[i.rs2])
               holds == CASE i.funct3 < 2 -> Compare(32, 0) = 0
                          [] i.funct3 \in {4, 5} -> Compare(0, 2) = 1
                          [] i.funct3 \in {6, 7} -> Compare(0, 3) = 1
               taken == ((i.funct3 % 2) = 0) <=> holds
           IN  pc' = IF taken THEN Unsigned(at + Immediate(i))
                     ELSE Unsigned(at + (IF Compressed THEN 2 ELSE 4))
<1> DEFINE a == xregs[i.rs1]
           b == xregs[i.rs2]
<1>1. i.opcode = BRANCH /\ epc = at /\ pc = Unsigned(at + Length)
  BY DEF Branch, Selected, CoreInv
<1>2. /\ i.funct3 \in {0, 1, 4, 5, 6, 7}
      /\ pc' = IF Taken(i, a, b) THEN Unsigned(epc + BImm(i)) ELSE pc
  <2>1. ~Illegal(i)
    BY DEF Illegal, Trap
  <2>2. i.funct3 \in 0..7
    BY InsnParts
  <2>. QED
    BY <2>1, <2>2 DEF Branch, BranchIllegal, Finish
<1>3. Immediate(i) = BImm(i)
  BY <1>1 DEF Immediate, STORE, STORE_FP, BRANCH, JAL, LUI, OP_IMM, OP, OP_32, SYSTEM
<1>4. a \in Words /\ b \in Words /\ a \in Int /\ b \in Int
      /\ Signed(a) \in Int /\ Signed(b) \in Int
  <2>1. a \in Words /\ b \in Words /\ a \in Int /\ b \in Int
    BY InsnParts, WordsAreNat
  <2>2. Signed(a) \in Int /\ Signed(b) \in Int
    BY <2>1, Lengths, ExtendedIsNumber DEF Signed
  <2>. QED
    BY <2>1, <2>2
<1> DEFINE Compare(funct7, funct3) == BaseResult(EncR(funct7, i.rs2, i.rs1, funct3, 0, OP), a, b)
           holds == CASE i.funct3 < 2 -> Compare(32, 0) = 0
                      [] i.funct3 \in {4, 5} -> Compare(0, 2) = 1
                      [] i.funct3 \in {6, 7} -> Compare(0, 3) = 1
           taken == ((i.funct3 % 2) = 0) <=> holds
<1>5. /\ Compare(32, 0) = 0 <=> a = b
      /\ Compare(0, 2) = 1 <=> Signed(a) < Signed(b)
      /\ Compare(0, 3) = 1 <=> a < b
  BY <1>4, ComparesAre
<1>6. taken <=> Taken(i, a, b)
  <2> HIDE DEF a, b, Compare
  <2>1. CASE i.funct3 = 0
    BY <1>4, <1>5, <2>1 DEF Taken
  <2>2. CASE i.funct3 = 1
    BY <1>4, <1>5, <2>2 DEF Taken
  <2>3. CASE i.funct3 = 4
    BY <1>4, <1>5, <2>3 DEF Taken
  <2>4. CASE i.funct3 = 5
    BY <1>4, <1>5, <2>4 DEF Taken
  <2>5. CASE i.funct3 = 6
    BY <1>4, <1>5, <2>5 DEF Taken
  <2>6. CASE i.funct3 = 7
    BY <1>4, <1>5, <2>6 DEF Taken
  <2>. QED
    BY <1>2, <2>1, <2>2, <2>3, <2>4, <2>5, <2>6
<1>7. pc' = IF taken THEN Unsigned(at + Immediate(i)) ELSE Unsigned(at + Length)
  <2> HIDE DEF taken, a, b
  <2>. QED
    BY <1>1, <1>2, <1>3, <1>6
<1>. QED
  BY <1>7 DEF Length

-----------------------------------------------------------------------------
(* What a store leaves for a load                                          *)

\* The digit of a number at a position is what its remainder gains there.
LEMMA DigitIs ==
    ASSUME NEW x \in Nat, NEW u \in Nat \ {0}, NEW b \in Nat \ {0}
    PROVE  ((x \div u) % b) * u = (x % (u * b)) - (x % u)
<1> DEFINE q == x \div u
           r == x % u
           k == q \div b
           d == q % b
<1>1. q \in Int /\ r \in 0..(u - 1) /\ x = u * q + r
  BY DivisionGives
<1> HIDE DEF q, r
<1>2. k \in Int /\ d \in 0..(b - 1) /\ q = b * k + d
  BY <1>1, DivisionGives
<1> HIDE DEF k, d
<1>3. u * q = (u * b) * k + u * d
  <2>1. u * (b * k + d) = u * (b * k) + u * d
    BY <1>2
  <2>2. u * (b * k) = (u * b) * k
    BY <1>2
  <2>. QED
    BY <1>2, <2>1, <2>2
<1>4. u * b \in Nat \ {0} /\ u * d + r \in 0..(u * b - 1)
  <2>1. u * b \in Int /\ u * b >= u
    BY ProductGrows
  <2>2. u * d \in Int /\ u * d >= 0 /\ u * (b - 1 - d) >= 0
    BY <1>2
  <2>3. u * (b - 1 - d) = u * b - u - u * d
    BY <1>2
  <2> DEFINE v == u * d
             w == u * b
  <2>4. v \in Int /\ v >= 0 /\ w \in Int /\ w >= u /\ w - u - v >= 0
    BY <2>1, <2>2, <2>3
  <2> HIDE DEF v, w
  <2>5. w \in Nat \ {0} /\ v + r \in 0..(w - 1)
    BY <1>1, <2>4
  <2>. QED
    BY <2>5 DEF v, w
<1>5. x = (u * b) * k + (u * d + r)
  <2> DEFINE v == u * d
             w == (u * b) * k
  <2>1. v \in Int /\ w \in Int
    BY <1>2
  <2> HIDE DEF v, w
  <2>2. x = w + (v + r)
    BY <1>1, <1>3, <2>1 DEF v, w
  <2>. QED
    BY <2>2 DEF v, w
<1>6. x % (u * b) = u * d + r
  <2> DEFINE m == u * b
             c == u * d + r
  <2>1. m \in Nat \ {0} /\ c \in 0..(m - 1) /\ x = m * k + c
    BY <1>4, <1>5
  <2> HIDE DEF m, c
  <2>2. x % m = c
    BY <1>2, <2>1, RemainderIsUnique
  <2>. QED
    BY <2>2 DEF m, c
<1>7. d * u = u * d /\ u * d \in Int
  BY <1>2
<1>8. d * u = (u * d + r) - r
  BY <1>1, <1>7
<1>9. d * u = (x % (u * b)) - r
  BY <1>6, <1>8
<1>. QED
  BY <1>9 DEF d, q, r

\* The addresses of an access are told apart by their distance from its first one.
LEMMA DistanceIs ==
    ASSUME NEW addr \in Nat, NEW k \in 0..7
    PROVE  Unsigned(Unsigned(addr + k) - addr) = k
<1> DEFINE m == Pow(XLEN)
           a == (addr + k) % m
           q == (addr + k) \div m
<1>1. m \in Nat \ {0} /\ m >= 8
  <2>1. XLEN \in Nat /\ 3 \in Nat /\ 3 <= XLEN
    BY Lengths
  <2>2. PICK j \in Nat \ {0} : Pow(XLEN) = Pow(3) * j
    BY <2>1, PowerDivides
  <2>3. Pow(XLEN) = 8 * j
    BY <2>2, SmallPowers
  <2>. QED
    BY <2>3
<1>2. Unsigned(addr + k) = a
  <2>1. addr + k \in Int
    OBVIOUS
  <2>. QED
    BY <2>1, LengthPowers
<1> HIDE DEF m
<1>3. q \in Int /\ a \in Int /\ addr + k = m * q + a
  <2>1. addr + k \in Int
    OBVIOUS
  <2>. QED
    BY <1>1, <2>1, DivisionGives
<1>4. Unsigned(a - addr) = (a - addr) % m
  <2>1. a - addr \in Int
    BY <1>3
  <2>. QED
    BY <2>1, LengthPowers DEF m
<1> HIDE DEF a, q
<1>5. a - addr = m * (-q) + k
  <2> DEFINE v == m * q
  <2>1. m * (-q) = -v /\ v \in Int /\ addr + k = v + a
    BY <1>1, <1>3
  <2> HIDE DEF v
  <2>2. a - addr = -v + k
    BY <1>3, <2>1
  <2>. QED
    BY <2>1, <2>2
<1>6. k \in 0..(m - 1) /\ -q \in Int
  BY <1>1, <1>3
<1>7. (m * (-q) + k) % m = k
  BY <1>1, <1>6, RemainderIsUnique
<1>. QED
  BY <1>2, <1>4, <1>5, <1>7

\* The bytes that a store has left are the lower bits of what it stored.
LEMMA WrittenIsRead ==
    ASSUME NEW m, NEW addr \in Nat, NEW size \in 0..3, NEW v \in Nat,
           Accessible(addr, size)
    PROVE  ReadRam(WriteRam(m, addr, size, v), addr, size) = v % Pow(ByteLen * 2^size)
<1> DEFINE w == WriteRam(m, addr, size, v)
           n == 2^size
           p(k) == v % Pow(k * ByteLen)
           Part(k) == IF k < n THEN w[Unsigned(addr + k)] * 2^(k * ByteLen) ELSE 0
<1>1. \/ size = 0 /\ n = 1
      \/ size = 1 /\ n = 2
      \/ size = 2 /\ n = 4
      \/ size = 3 /\ n = 8
  <2>1. \/ size = 0 /\ Pow(size) = 1
        \/ size = 1 /\ Pow(size) = 2
        \/ size = 2 /\ Pow(size) = 4
        \/ size = 3 /\ Pow(size) = 8
    BY SmallPowers, PowerOfZero
  <2>. QED
    BY <2>1 DEF Pow
<1>2. ByteLen \in Nat \ {0} /\ Pow(ByteLen) \in Nat \ {0}
  BY Lengths, PowIsPositive
<1>3. ASSUME NEW k \in 0..7
      PROVE  /\ p(k) \in Int /\ p(k + 1) \in Int
             /\ k < n => Part(k) = p(k + 1) - p(k)
             /\ ~(k < n) => Part(k) = 0
  <2>1. k * ByteLen \in Nat /\ (k + 1) * ByteLen = k * ByteLen + ByteLen
        /\ (k + 1) * ByteLen \in Nat
    BY <1>2
  <2>2. Pow(k * ByteLen) \in Nat \ {0} /\ Pow((k + 1) * ByteLen) \in Nat \ {0}
        /\ Pow((k + 1) * ByteLen) = Pow(k * ByteLen) * Pow(ByteLen)
    BY <1>2, <2>1, PowIsPositive, PowerAdds
  <2>3. p(k) \in Int /\ p(k + 1) \in Int
    <3> DEFINE u == Pow(k * ByteLen)
               t == Pow((k + 1) * ByteLen)
    <3>1. u \in Nat \ {0} /\ t \in Nat \ {0}
      BY <2>2
    <3> HIDE DEF u, t
    <3>2. v % u \in Int /\ v % t \in Int
      BY <3>1
    <3>. QED
      BY <3>2 DEF u, t
  <2>4. ASSUME k < n PROVE Part(k) = p(k + 1) - p(k)
    <3>1. Unsigned(addr + k) \in Ram
      <4>1. k \in Nat /\ k < 2^size
        BY <2>4
      <4>2. \A j \in Nat : j < 2^size => Unsigned(addr + j) \in Ram
        BY SpanIsRam
      <4>. QED
        BY <4>1, <4>2, Zenon
    <3>2. Unsigned(addr + k) \in Span(addr, size)
      <4>1. k \in 0..(n - 1)
        BY <1>1, <2>4
      <4>. QED
        BY <4>1 DEF Span
    <3>3. w[Unsigned(addr + k)] = Bits(v, k * ByteLen, ByteLen)
      <4>1. Unsigned(Unsigned(addr + k) - addr) = k
        BY DistanceIs
      <4>2. w[Unsigned(addr + k)]
              = Bits(v, Unsigned(Unsigned(addr + k) - addr) * ByteLen, ByteLen)
        BY <3>1, <3>2 DEF WriteRam
      <4>. QED
        BY <4>1, <4>2, Zenon
    <3>4. Part(k) = ((v \div Pow(k * ByteLen)) % Pow(ByteLen)) * Pow(k * ByteLen)
      BY <2>4, <3>3 DEF Bits, Pow
    <3> HIDE DEF w, n, Part
    <3>5. ((v \div Pow(k * ByteLen)) % Pow(ByteLen)) * Pow(k * ByteLen)
            = (v % (Pow(k * ByteLen) * Pow(ByteLen))) - (v % Pow(k * ByteLen))
      BY <1>2, <2>2, DigitIs
    <3>. QED
      BY <2>2, <3>4, <3>5
  <2>5. ~(k < n) => Part(k) = 0
    OBVIOUS
  <2> HIDE DEF Part, p, n
  <2>. QED
    BY <2>3, <2>4, <2>5
<1>4. ReadRam(w, addr, size) = Part(0) + Part(1) + Part(2) + Part(3) + Part(4) + Part(5)
                                 + Part(6) + Part(7)
  BY DEF ReadRam
<1>5. p(0) = 0
  <2>1. 0 * ByteLen = 0 /\ v % 1 = 0
    BY <1>2
  <2>. QED
    BY <2>1, PowerOfZero
<1>6. p(n) = v % Pow(ByteLen * 2^size)
  <2>1. n * ByteLen = ByteLen * n
    BY <1>1, <1>2
  <2>. QED
    BY <2>1
<1> HIDE DEF w, n, p, Part
<1>7. ReadRam(w, addr, size) = p(n)
  <2>1. /\ p(0) \in Int /\ p(0 + 1) \in Int /\ p(1) \in Int /\ p(1 + 1) \in Int
        /\ p(2) \in Int /\ p(2 + 1) \in Int /\ p(3) \in Int /\ p(3 + 1) \in Int
        /\ p(4) \in Int /\ p(4 + 1) \in Int /\ p(5) \in Int /\ p(5 + 1) \in Int
        /\ p(6) \in Int /\ p(6 + 1) \in Int /\ p(7) \in Int /\ p(7 + 1) \in Int
    BY <1>3
  <2>2. /\ Part(0) = IF 0 < n THEN p(0 + 1) - p(0) ELSE 0
        /\ Part(1) = IF 1 < n THEN p(1 + 1) - p(1) ELSE 0
        /\ Part(2) = IF 2 < n THEN p(2 + 1) - p(2) ELSE 0
        /\ Part(3) = IF 3 < n THEN p(3 + 1) - p(3) ELSE 0
        /\ Part(4) = IF 4 < n THEN p(4 + 1) - p(4) ELSE 0
        /\ Part(5) = IF 5 < n THEN p(5 + 1) - p(5) ELSE 0
        /\ Part(6) = IF 6 < n THEN p(6 + 1) - p(6) ELSE 0
        /\ Part(7) = IF 7 < n THEN p(7 + 1) - p(7) ELSE 0
    BY <1>3
  <2>3. 0 + 1 = 1 /\ 1 + 1 = 2 /\ 2 + 1 = 3 /\ 3 + 1 = 4 /\ 4 + 1 = 5 /\ 5 + 1 = 6
        /\ 6 + 1 = 7 /\ 7 + 1 = 8
    OBVIOUS
  <2>4. CASE n = 1
    BY <1>4, <1>5, <2>1, <2>2, <2>3, <2>4
  <2>5. CASE n = 2
    BY <1>4, <1>5, <2>1, <2>2, <2>3, <2>5
  <2>6. CASE n = 4
    BY <1>4, <1>5, <2>1, <2>2, <2>3, <2>6
  <2>7. CASE n = 8
    BY <1>4, <1>5, <2>1, <2>2, <2>3, <2>7
  <2>. QED
    BY <1>1, <2>4, <2>5, <2>6, <2>7
<1>. QED
  BY <1>6, <1>7 DEF w

\* What a number is extended to depends on its lower bits alone.
LEMMA ExtendedLow ==
    ASSUME NEW x \in Int, NEW width \in Nat \ {0}
    PROVE  SignExtend(x % Pow(width), width) = SignExtend(x, width)
<1> DEFINE m == Pow(width)
<1>1. m \in Nat \ {0}
  BY PowIsPositive
<1>2. x % m \in Int /\ (x % m) % m = x % m
  <2> HIDE DEF m
  <2>1. x % m \in 0..(m - 1)
    BY <1>1, DivisionGives
  <2>2. (m * 0 + (x % m)) % m = x % m
    BY <1>1, <2>1, RemainderIsUnique
  <2>. QED
    BY <1>1, <2>1, <2>2
<1>3. Bits(x % m, 0, width) = (x % m) % m /\ Bits(x, 0, width) = x % m
  BY <1>2, LowBits
<1>. QED
  BY <1>2, <1>3 DEF SignExtend

\* The length of an access in bits.
LEMMA AccessWidths ==
    ASSUME NEW size \in 0..3
    PROVE  LET width == ByteLen * 2^size
           IN  /\ width \in Nat \ {0} /\ width <= XLEN
               /\ size = 2 => width = HalfLen
               /\ size = 3 => width = XLEN
<1>1. /\ ByteLen \in Nat \ {0} /\ XLEN = 8 * ByteLen /\ XLEN = HalfLen + HalfLen
      /\ HalfLen \in Nat
  BY Lengths
<1>2. \/ size = 0 /\ Pow(size) = 1
      \/ size = 1 /\ Pow(size) = 2
      \/ size = 2 /\ Pow(size) = 4
      \/ size = 3 /\ Pow(size) = 8
  BY SmallPowers, PowerOfZero
<1> DEFINE n == 2^size
<1>3. (size = 0 /\ n = 1) \/ (size = 1 /\ n = 2) \/ (size = 2 /\ n = 4) \/ (size = 3 /\ n = 8)
  BY <1>2 DEF Pow
<1> HIDE DEF n
<1>4. /\ ByteLen * n \in Nat \ {0} /\ ByteLen * n <= XLEN
      /\ size = 2 => ByteLen * n = HalfLen
      /\ size = 3 => ByteLen * n = XLEN
  <2>1. CASE n = 1
    BY <1>1, <1>3, <2>1
  <2>2. CASE n = 2
    BY <1>1, <1>3, <2>2
  <2>3. CASE n = 4
    BY <1>1, <1>3, <2>3
  <2>4. CASE n = 8
    BY <1>1, <1>3, <2>4
  <2>. QED
    BY <1>3, <2>1, <2>2, <2>3, <2>4
<1>. QED
  BY <1>4 DEF n

\* A load of what has been stored.
LEMMA LoadedIs ==
    ASSUME NEW size \in 0..3, NEW v \in Words
    PROVE  LET width == ByteLen * 2^size
               read == v % Pow(width)
           IN  /\ Extended(size, read) = Unsigned(SignExtend(v, width))
               /\ size < 3 => Extended(size + 4, read) = v % 2^width
               /\ size = 2 => Boxed(2, Extended(2, read)) = Boxed(2, v)
<1> DEFINE width == ByteLen * 2^size
           m == Pow(width)
           l == Pow(XLEN)
           read == v % m
<1>1. /\ width \in Nat \ {0} /\ width <= XLEN
      /\ size = 2 => width = HalfLen
      /\ size = 3 => width = XLEN
  BY AccessWidths
<1>2. /\ v \in Int /\ m \in Nat \ {0} /\ l \in Nat \ {0} /\ v \in 0..(l - 1)
      /\ \A n \in Int : Unsigned(n) = n % l
  BY <1>1, WordsAreNat, PowIsPositive, LengthPowers
<1>3. SignExtend(v, width) \in Int /\ SignExtend(v, width) % m = v % m
  <2> DEFINE k == width
  <2>1. k \in Nat \ {0} /\ v \in Int
    BY <1>1, <1>2
  <2> HIDE DEF k
  <2>2. SignExtend(v, k) \in (-Pow(k - 1))..(Pow(k - 1) - 1) /\ Pow(k - 1) \in Nat
        /\ SignExtend(v, k) % Pow(k) = v % Pow(k)
    BY <2>1, SignExtendIs
  <2>3. SignExtend(v, k) \in Int
    BY <2>2
  <2>. QED
    BY <2>2, <2>3 DEF k
<1>4. Extended(size, read) = Unsigned(SignExtend(v, width))
  <2>1. CASE size < 3
    <3>1. SignExtend(read, width) = SignExtend(v, width)
      BY <1>1, <1>2, ExtendedLow
    <3>. QED
      BY <2>1, <3>1 DEF Extended
  <2>2. CASE ~(size < 3)
    <3>1. m = l
      BY <1>1, <2>2
    <3>2. v % l = v
      <4>1. v \in 0..(l - 1) /\ l \in Nat \ {0}
        BY <1>2
      <4> HIDE DEF l, m
      <4>. QED
        BY <4>1
    <3>3. Unsigned(SignExtend(v, width)) = v
      BY <1>2, <1>3, <3>1, <3>2
    <3>4. Extended(size, read) = read
      BY <2>2 DEF Extended
    <3>. QED
      BY <3>1, <3>2, <3>3, <3>4
  <2>. QED
    BY <2>1, <2>2
<1>5. size < 3 => Extended(size + 4, read) = v % 2^width
  <2>1. ~(size + 4 < 3)
    OBVIOUS
  <2>2. v % 2^width = read
    BY DEF Pow
  <2> HIDE DEF read
  <2>. QED
    BY <2>1, <2>2 DEF Extended
<1>6. size = 2 => Boxed(2, Extended(2, read)) = Boxed(2, v)
  <2> SUFFICES ASSUME size = 2 PROVE Boxed(2, Extended(2, read)) = Boxed(2, v)
    OBVIOUS
  <2> DEFINE s == SignExtend(v, width)
             h == Pow(HalfLen)
  <2>1. m = h /\ l = h * h /\ h \in Nat \ {0}
    BY <1>1, LengthPowers
  <2>2. Extended(2, read) = s % l
    BY <1>2, <1>3, <1>4
  <2>3. s \in Int /\ s % h = v % h
    BY <1>3, <2>1
  <2> HIDE DEF s, h, read, m, l
  <2>4. (s % (h * h)) % h = s % h
    BY <2>1, <2>3, RemainderOfRemainder
  <2>5. \A x : Boxed(2, x) = 2^XLEN - 2^HalfLen + (x % h)
    BY DEF Boxed, h, Pow
  <2>. QED
    BY <2>1, <2>2, <2>3, <2>4, <2>5
<1>7. /\ Extended(size, read) = Unsigned(SignExtend(v, width))
      /\ size < 3 => Extended(size + 4, read) = v % 2^width
      /\ size = 2 => Boxed(2, Extended(2, read)) = Boxed(2, v)
  BY <1>4, <1>5, <1>6, Zenon
<1>. QED
  BY <1>7, Zenon

\* A store that has not trapped has left its data for the loads of its address.
LEMMA StoreStep ==
    ASSUME CoreInv, NEW i \in insn, Store(i), trap' = {}
    PROVE  LET addr == StoreAddr(i)
               size == i.funct3 % 4
               data == IF IsFloat(i) THEN fregs[i.rs2] ELSE xregs[i.rs2]
               width == ByteLen * 2^size
               Loaded(funct3) == Extended(funct3, ReadRam(ram', addr, size))
           IN  /\ Loaded(size) = Unsigned(SignExtend(data, width))
               /\ size < 3 => Loaded(size + 4) = data % 2^width
               /\ IsFloat(i) /\ size = 2 => Boxed(2, Loaded(2)) = Boxed(2, data)
               /\ \A b \in Ram \ Span(addr, size) : ram'[b] = ram[b]
<1> DEFINE addr == StoreAddr(i)
           size == i.funct3 % 4
           data == IF IsFloat(i) THEN fregs[i.rs2] ELSE xregs[i.rs2]
           width == ByteLen * 2^size
<1>1. Accessible(addr, size) /\ ram' = WriteRam(ram, addr, size, data)
  <2>1. ~Illegal(i) /\ ~Trap("store", epc, <<"address", addr>>)
    BY DEF Illegal, Trap
  <2>. QED
    BY <2>1 DEF Store
<1>2. size \in 0..3 /\ addr \in Nat /\ data \in Words /\ data \in Nat
  <2>1. i.funct3 \in 0..7
    BY InsnParts
  <2>2. size \in 0..3
    BY <2>1
  <2>3. data \in Words
    BY InsnParts
  <2>. QED
    BY <2>2, <2>3, Addressed, WordsAreNat
<1> HIDE DEF addr, size, data
<1>3. ReadRam(ram', addr, size) = data % Pow(width)
  BY <1>1, <1>2, WrittenIsRead
<1>4. /\ Extended(size, data % Pow(width)) = Unsigned(SignExtend(data, width))
      /\ size < 3 => Extended(size + 4, data % Pow(width)) = data % 2^width
      /\ size = 2 => Boxed(2, Extended(2, data % Pow(width))) = Boxed(2, data)
  BY <1>2, LoadedIs, Zenon
<1>5. \A b \in Ram \ Span(addr, size) : ram'[b] = ram[b]
  BY <1>1 DEF WriteRam
<1>6. LET Loaded(funct3) == Extended(funct3, ReadRam(ram', addr, size))
      IN  /\ Loaded(size) = Unsigned(SignExtend(data, width))
          /\ size < 3 => Loaded(size + 4) = data % 2^width
          /\ IsFloat(i) /\ size = 2 => Boxed(2, Loaded(2)) = Boxed(2, data)
          /\ \A b \in Ram \ Span(addr, size) : ram'[b] = ram[b]
  BY <1>3, <1>4, <1>5, Zenon
<1>. QED
  BY <1>6, Zenon DEF addr, size, data

-----------------------------------------------------------------------------
(* What compressed words expand to                                         *)

\* An instruction that is illegal only while the floating-point unit is off.
Legal(i) ==
    /\ i.opcode \in {LOAD, LOAD_FP, MISC_MEM, OP_IMM, AUIPC, OP_IMM_32, STORE, STORE_FP, OP,
                     LUI, OP_32, BRANCH, JALR, JAL, SYSTEM}
    /\ i.opcode \in {OP, OP_32} => i.funct7 # 1
    /\ i.opcode \in {LOAD, LOAD_FP, STORE_FP} => i.funct3 \in {2, 3}
    /\ i.opcode = BRANCH => i.funct3 \in {0, 1}

\* One legal instruction, or none.
Expansion(decoded) == decoded = {} \/ \E i : decoded = {i} /\ Legal(i)

\* Most of the formats that an expansion can have are legal whatever their operands are.
LEMMA FormatsAreLegal ==
    ASSUME NEW imm, NEW rs2, NEW rs1, NEW rd
    PROVE  /\ \A funct3, op \in {OP_IMM, OP_IMM_32, JALR, SYSTEM} :
                Legal(EncI(imm, rs1, funct3, rd, op))
           /\ \A funct3 \in {2, 3}, op \in {LOAD, LOAD_FP} :
                Legal(EncI(imm, rs1, funct3, rd, op))
           /\ \A funct3 \in {2, 3}, op \in {STORE, STORE_FP} :
                Legal(EncS(imm, rs2, rs1, funct3, op))
           /\ \A funct7 \in {0, 32}, funct3, op \in {OP, OP_32} :
                Legal(EncR(funct7, rs2, rs1, funct3, rd, op))
           /\ Legal(EncU(imm, rd, LUI)) /\ Legal(EncJ(imm, rd, JAL))
           /\ \A funct3 \in {0, 1} : Legal(EncB(imm, rs2, rs1, funct3, BRANCH))
BY DEF Legal, EncI, EncS, EncR, EncU, EncJ, EncB, LOAD, LOAD_FP, MISC_MEM, OP_IMM, AUIPC,
       OP_IMM_32, STORE, STORE_FP, OP, LUI, OP_32, BRANCH, JALR, JAL, SYSTEM

\* A decoder that gives a legal instruction, or reserves its word, gives an expansion.
LEMMA OneExpands ==
    ASSUME NEW i, Legal(i)
    PROVE  Expansion({i}) /\ Expansion({}) /\ \A reserved : Expansion(Unless(reserved, i))
BY DEF Expansion, Unless

\* Instructions of the I format, but for loads.
LEMMA ImmediateExpands ==
    ASSUME NEW imm, NEW rs1, NEW funct3, NEW rd, NEW op \in {OP_IMM, OP_IMM_32, JALR, SYSTEM}
    PROVE  /\ Expansion({EncI(imm, rs1, funct3, rd, op)})
           /\ \A reserved : Expansion(Unless(reserved, EncI(imm, rs1, funct3, rd, op)))
<1>1. Legal(EncI(imm, rs1, funct3, rd, op))
  BY DEF Legal, EncI, EncR, LOAD, LOAD_FP, MISC_MEM, OP_IMM, AUIPC, OP_IMM_32, STORE,
     STORE_FP, OP, LUI, OP_32, BRANCH, JALR, JAL, SYSTEM
<1>. QED
  BY <1>1, OneExpands, Zenon

\* Loads of the sizes that compressed instructions have.
LEMMA LoadExpands ==
    ASSUME NEW imm, NEW rs1, NEW funct3 \in {2, 3}, NEW rd, NEW op \in {LOAD, LOAD_FP}
    PROVE  /\ Expansion({EncI(imm, rs1, funct3, rd, op)})
           /\ \A reserved : Expansion(Unless(reserved, EncI(imm, rs1, funct3, rd, op)))
<1>1. Legal(EncI(imm, rs1, funct3, rd, op))
  BY FormatsAreLegal
<1>. QED
  BY <1>1, OneExpands, Zenon

\* Stores of those sizes.
LEMMA StoreExpands ==
    ASSUME NEW imm, NEW rs2, NEW rs1, NEW funct3 \in {2, 3}, NEW op \in {STORE, STORE_FP}
    PROVE  Expansion({EncS(imm, rs2, rs1, funct3, op)})
BY FormatsAreLegal, OneExpands

\* Instructions of the R format that are not multiplications or divisions.
LEMMA RegisterExpands ==
    ASSUME NEW funct7 \in {0, 32}, NEW rs2, NEW rs1, NEW funct3, NEW rd, NEW op \in {OP, OP_32}
    PROVE  /\ Expansion({EncR(funct7, rs2, rs1, funct3, rd, op)})
           /\ \A reserved : Expansion(Unless(reserved, EncR(funct7, rs2, rs1, funct3, rd, op)))
<1>1. Legal(EncR(funct7, rs2, rs1, funct3, rd, op))
  BY DEF Legal, EncI, EncR, LOAD, LOAD_FP, MISC_MEM, OP_IMM, AUIPC, OP_IMM_32, STORE,
     STORE_FP, OP, LUI, OP_32, BRANCH, JALR, JAL, SYSTEM
<1>. QED
  BY <1>1, OneExpands, Zenon

\* The words whose lowest bits are 0: loads, stores and one addition.
LEMMA Quadrant0Expands ==
    ASSUME NEW in \in Int
    PROVE  Expansion(Quadrant0(in))
<1>1. Funct3(in) \in 0..7
  BY WordParts
<1>2. Expansion(CAddi4spn(in))
  BY ImmediateExpands, Zenon DEF CAddi4spn
<1>3. /\ Expansion(CLoad(in, OffsetD(in), 3, LOAD_FP))
      /\ Expansion(CLoad(in, OffsetW(in), 2, LOAD))
      /\ Expansion(CLoad(in, OffsetD(in), 3, LOAD))
      /\ Expansion(CStore(in, OffsetD(in), 3, STORE_FP))
      /\ Expansion(CStore(in, OffsetW(in), 2, STORE))
      /\ Expansion(CStore(in, OffsetD(in), 3, STORE))
  BY LoadExpands, StoreExpands, Zenon DEF CLoad, CStore
<1>4. Expansion({})
  BY DEF Expansion
<1>. QED
  BY <1>1, <1>2, <1>3, <1>4 DEF Quadrant0

\* The arithmetic of quadrant 1.
LEMMA CArithExpands ==
    ASSUME NEW in \in Int
    PROVE  Expansion(CArith(in))
<1> DEFINE rd == Rs1P(in)
           word == Bits(in, 12, 1) = 1
           op2 == Bits(in, 5, 2)
           opcode == IF word THEN OP_32 ELSE OP
           Register(funct7, funct3) == EncR(funct7, RdP(in), rd, funct3, rd, opcode)
<1>1. Bits(in, 10, 2) \in 0..3 /\ op2 \in 0..3
  BY Fields
<1>2. /\ Expansion({EncI(Shamt(in), rd, 5, rd, OP_IMM)})
      /\ Expansion({EncI(2^10 + Shamt(in), rd, 5, rd, OP_IMM)})
      /\ Expansion({EncI(SImm6(in), rd, 7, rd, OP_IMM)})
  BY ImmediateExpands, Zenon
<1>3. opcode \in {OP, OP_32}
  OBVIOUS
<1> HIDE DEF opcode
<1>4. /\ Expansion({Register(32, 0)})
      /\ Expansion({Register(0, IF word THEN 0 ELSE 4)})
      /\ Expansion(Unless(word, Register(0, op2 + 4)))
  BY <1>3, RegisterExpands, Zenon
<1>. QED
  BY <1>1, <1>2, <1>4 DEF CArith, opcode

\* The words whose lowest bits are 1.
LEMMA Quadrant1Expands ==
    ASSUME NEW in \in Int
    PROVE  Expansion(Quadrant1(in))
<1>1. Funct3(in) \in 0..7
  BY WordParts
<1>2. /\ Expansion({EncI(SImm6(in), Rd(in), 0, Rd(in), OP_IMM)})
      /\ Expansion(Unless(Rd(in) = 0, EncI(SImm6(in), Rd(in), 0, Rd(in), OP_IMM_32)))
      /\ Expansion({EncI(SImm6(in), 0, 0, Rd(in), OP_IMM)})
  BY ImmediateExpands, Zenon
<1>3. Expansion(CAddi16sp(in))
  BY ImmediateExpands, Zenon DEF CAddi16sp
<1>4. Expansion(CLui(in))
  BY FormatsAreLegal, OneExpands, Zenon DEF CLui
<1>5. Expansion(CJ(in))
  BY FormatsAreLegal, OneExpands, Zenon DEF CJ
<1>6. \A funct3 \in {0, 1} : Expansion(CBranch(in, funct3))
  BY FormatsAreLegal, OneExpands, Zenon DEF CBranch
<1>7. Funct3(in) \in {6, 7} => Expansion(CBranch(in, Funct3(in) - 6))
  <2>1. Funct3(in) \in {6, 7} => Funct3(in) - 6 \in {0, 1}
    OBVIOUS
  <2>. QED
    BY <1>6, <2>1, Zenon
<1>. QED
  BY <1>1, <1>2, <1>3, <1>4, <1>5, <1>7, CArithExpands DEF Quadrant1

\* The words whose lowest bits are 2.
LEMMA Quadrant2Expands ==
    ASSUME NEW in \in Int
    PROVE  Expansion(Quadrant2(in))
<1>1. Funct3(in) \in 0..7
  BY WordParts
<1>2. /\ Expansion(Unless(Rd(in) = 0, EncI(Shamt(in), Rd(in), 1, Rd(in), OP_IMM)))
      /\ Expansion({EncI(OffsetDsp(in), 2, 3, Rd(in), LOAD_FP)})
      /\ Expansion(Unless(Rd(in) = 0, EncI(OffsetWsp(in), 2, 2, Rd(in), LOAD)))
      /\ Expansion(Unless(Rd(in) = 0, EncI(OffsetDsp(in), 2, 3, Rd(in), LOAD)))
      /\ Expansion({EncS(StoreOffsetDsp(in), Rs2(in), 2, 3, STORE_FP)})
      /\ Expansion({EncS(StoreOffsetWsp(in), Rs2(in), 2, 2, STORE)})
      /\ Expansion({EncS(StoreOffsetDsp(in), Rs2(in), 2, 3, STORE)})
  BY ImmediateExpands, LoadExpands, StoreExpands, Zenon
<1>3. Expansion(CJumpOrMove(in))
  <2> DEFINE link == Bits(in, 12, 1)
  <2>1. /\ Expansion({EncR(0, Rs2(in), IF link = 1 THEN Rd(in) ELSE 0, 0, Rd(in), OP)})
        /\ Expansion({EncI(0, Rd(in), 0, link, JALR)})
        /\ Expansion(Unless(link = 0, EncI(1, 0, 0, 0, SYSTEM)))
    BY ImmediateExpands, RegisterExpands, Zenon
  <2>. QED
    BY <2>1, Zenon DEF CJumpOrMove
<1>. QED
  BY <1>1, <1>2, <1>3 DEF Quadrant2

\* Whatever a compressed word expands to is legal.
LEMMA WordExpands ==
    ASSUME NEW in \in Int
    PROVE  Expansion(DecompressWord(in))
<1>1. Bits(in, 0, 2) \in 0..3
  BY Fields
<1>2. Expansion({})
  BY DEF Expansion
<1>. QED
  BY <1>1, <1>2, Quadrant0Expands, Quadrant1Expands, Quadrant2Expands DEF DecompressWord

\* The instruction is what its word expands to, and has not been found illegal.
LegalInv ==
    /\ step = "fetch" => insn = {}
    /\ Compressed => Expansion(insn)
    /\ ExpansionsAreLegal

\* The instructions that the model's functions find illegal.
LEMMA IllegalIs ==
    ASSUME CoreInv, NEW i \in insn, Execute(i), Legal(i), NEW t \in trap', t.cause = "illegal"
    PROVE  IsFloat(i) /\ ~fs
<1>1. step = "execute" /\ trap = {}
  BY DEF CoreInv, Execute, BaseOp, MulDiv, Load, Store, Jal, Jalr, Lui, Branch, MiscMem, System,
         NoOpcode, Selected
<1>2. \A target : ~Finish(target)
  BY <1>1 DEF Finish
<1>3. ~BaseOp(i) /\ ~Jal(i) /\ ~Jalr(i) /\ ~Lui(i) /\ ~MiscMem(i)
  BY <1>2 DEF BaseOp, Jal, Jalr, Lui, MiscMem
<1>4. \A cause, where, tval : Trap(cause, where, tval) => cause = "illegal"
  BY DEF Trap
<1>5. ~System(i)
  BY <1>4 DEF System
<1>6. ~MulDiv(i)
  BY DEF MulDiv, Selected, Legal
<1>7. ~Branch(i)
  <2>1. Branch(i) => BranchIllegal(i) /\ i.opcode = BRANCH
    BY <1>2 DEF Branch, Selected
  <2>. QED
    BY <2>1 DEF BranchIllegal, Legal
<1>8. ~NoOpcode(i)
  BY DEF NoOpcode, Legal, LOAD, LOAD_FP, MISC_MEM, OP_IMM, AUIPC, OP_IMM_32, STORE, STORE_FP,
         OP, LUI, OP_32, BRANCH, JALR, JAL, SYSTEM
<1>9. ~(i.funct3 = 7 /\ i.opcode \in {LOAD, LOAD_FP})
  BY DEF Legal
<1>10. CASE Load(i)
  <2>1. FloatIllegal(i)
    BY <1>2, <1>4, <1>9, <1>10 DEF Load, Selected
  <2>. QED
    BY <1>10, <2>1 DEF FloatIllegal, IsFloat, Legal
<1>11. CASE Store(i)
  <2>1. FloatIllegal(i)
    BY <1>2, <1>4, <1>11 DEF Store, Selected
  <2>. QED
    BY <1>11, <2>1 DEF FloatIllegal, IsFloat, Legal
<1>. QED
  BY <1>3, <1>5, <1>6, <1>7, <1>8, <1>10, <1>11 DEF Execute

\* The instruction that is executed is the one expansion of its word, and so is legal.
LEMMA LegalInvStep ==
    ASSUME CoreInv, LegalInv, [Next]_vars
    PROVE  LegalInv'
<1>1. code[1] \in Int
  BY HalfwordsAreInt DEF CoreInv, TypeOK
<1>2. CASE FetchFault \/ BadCompressed
  <2>1. insn' = {} /\ step' = "done"
    BY <1>2 DEF FetchFault, BadCompressed, Trap, LegalInv
  <2>. QED
    BY <2>1 DEF LegalInv, Expansion, ExpansionsAreLegal
<1>3. CASE FetchCompressed
  <2>1. insn' = DecompressWord(code[1]) /\ step' = "execute" /\ trap' = {}
    BY <1>3 DEF FetchCompressed, Decode, CoreInv
  <2>2. Expansion(insn')
    BY <1>1, <2>1, WordExpands
  <2>. QED
    BY <2>1, <2>2 DEF LegalInv, Expansion, ExpansionsAreLegal
<1>4. CASE FetchFull
  <2>1. ~Compressed' /\ step' = "execute"
    BY <1>4 DEF FetchFull, Decode, Compressed
  <2>. QED
    BY <2>1 DEF LegalInv, ExpansionsAreLegal
<1>5. ASSUME NEW i \in insn, Execute(i) PROVE LegalInv'
  <2>1. code' = code /\ insn' = insn /\ fs' = fs /\ step' = "done"
    BY <1>5 DEF Execute, BaseOp, MulDiv, Load, Store, Jal, Jalr, Lui, Branch, MiscMem, System,
         NoOpcode, Illegal, Trap, Finish, machine
  <2>2. ASSUME Compressed, NEW t \in trap', t.cause = "illegal", NEW j \in insn
        PROVE  IsFloat(j) /\ ~fs
    <3>1. Legal(i) /\ j = i
      BY <2>2 DEF LegalInv, Expansion
    <3>2. IsFloat(i) /\ ~fs
      BY <1>5, <2>2, <3>1, IllegalIs
    <3>. QED
      BY <3>1, <3>2
  <2>3. Compressed' = Compressed
    BY <2>1 DEF Compressed
  <2>. QED
    BY <2>1, <2>2, <2>3 DEF LegalInv, Expansion, ExpansionsAreLegal, IsFloat
<1>6. CASE UNCHANGED vars
  BY <1>6 DEF vars, LegalInv, Compressed, Expansion, ExpansionsAreLegal
<1>. QED
  BY <1>2, <1>3, <1>4, <1>5, <1>6 DEF Next, Stop

-----------------------------------------------------------------------------
\* Whatever instruction is executed, every register and byte of memory keeps a value of
\* its width, x0 keeps zero (rv_xreg_write), and every instruction that the compressed
\* decoder makes has fields of the widths that rv_insn.h gives them.
THEOREM CoreTypeCorrect == Spec => []TypeOK
<1>1. CoreInv => TypeOK
  BY DEF CoreInv
<1>. QED
  BY CoreInvInit, CoreInvStep, <1>1, PTL DEF Spec

\* rv_do_trap is called with the address of the instruction that caused the trap and, for
\* an access, with the address of the access as the registers still give it: rv_step_insn
\* takes epc before it advances pc, and a load or store that fails has written nothing.
THEOREM TrapsArePrecise == Spec => []PreciseTraps
<1>1. CoreInv => PreciseTraps
  BY DEF CoreInv
<1>. QED
  BY CoreInvInit, CoreInvStep, <1>1, PTL DEF Spec

\* rv_muldiv_op divides as the manual defines: C's division rounds towards zero, and the
\* two cases C leaves undefined are answered before it is used; for operands of all widths.
THEOREM Divides == Spec => DivisionLaw
<1>1. CoreInv /\ [Next]_vars =>
      [\A i \in insn : MulDiv(i) /\ i.funct3 >= 4 /\ i.rd # 0 =>
         LET signed == i.funct3 \in {4, 6}
             Number(v) == IF signed THEN Value(i, v) ELSE Low(i, v)
             x == Number(xregs[i.rs1])
             y == Number(xregs[i.rs2])
             Of(f) == Number(IF i.funct3 = f THEN xregs'[i.rd]
                             ELSE MulDivResult([i EXCEPT !.funct3 = f],
                                               xregs[i.rs1], xregs[i.rs2]))
             q == Of(IF signed THEN 4 ELSE 5)
             r == Of(IF signed THEN 6 ELSE 7)
         IN  CASE y = 0 -> q = Number(2^XLEN - 1) /\ r = x
               [] signed /\ x = Lowest(i) /\ y = -1 -> q = x /\ r = 0
               [] OTHER -> /\ x = q * y + r
                           /\ Magnitude(r) < Magnitude(y)
                           /\ r = 0 \/ (r < 0 <=> x < 0)]_vars
  <2>1. CoreInv => TypeOK
    BY DEF CoreInv
  <2>. QED
    BY <2>1, DivisionStep
<1>. QED
  BY CoreInvInit, CoreInvStep, <1>1, PTL DEF Spec, DivisionLaw

\* MULH, MULHSU and MULHU of rv_muldiv_op compute the upper half of the product whose lower
\* half is MUL's: the extensions of the operands to twice their width are the right ones.
THEOREM Multiplies == Spec => ProductLaw
<1>1. CoreInv /\ [Next]_vars =>
      [\A i \in insn : MulDiv(i) /\ i.funct3 \in 1..3 /\ ~IsWord(i) /\ i.rd # 0 =>
         LET a == xregs[i.rs1]
             b == xregs[i.rs2]
             low == MulDivResult([i EXCEPT !.funct3 = 0], a, b)
             product == (IF i.funct3 = 3 THEN a ELSE Signed(a))
                        * (IF i.funct3 = 1 THEN Signed(b) ELSE b)
         IN  (IF i.funct3 = 3 THEN xregs'[i.rd] ELSE Signed(xregs'[i.rd])) * 2^XLEN + low
             = product]_vars
  <2>1. CoreInv => TypeOK
    BY DEF CoreInv
  <2>. QED
    BY <2>1, ProductStep
<1>. QED
  BY CoreInvInit, CoreInvStep, <1>1, PTL DEF Spec, ProductLaw

\* JAL and JALR go to an even address, that of the base plus the immediate or one less, and
\* leave in rd that of the next instruction, also when both are one register: rv_base_jalr reads
\* rs1 before it writes rd, and pc has been advanced by the length of the instruction.
THEOREM CallsComeBack == Spec => CallsReturn
<1>1. CoreInv /\ [Next]_vars =>
      [\A i \in insn : Jal(i) \/ Jalr(i) =>
         LET base == IF i.opcode = JAL THEN at ELSE xregs[i.rs1]
         IN  /\ pc' \in {Unsigned(base + Immediate(i)), Unsigned(base + Immediate(i) - 1)}
             /\ (pc' % 2) = 0
             /\ i.rd # 0 => xregs'[i.rd] = Unsigned(at + (IF Compressed THEN 2 ELSE 4))]_vars
  BY CallsReturnStep
<1>. QED
  BY CoreInvInit, CoreInvStep, <1>1, PTL DEF Spec, CallsReturn

\* A branch goes where SUB, SLT and SLTU of its registers say: rv_base_branch decodes the same
\* orders as rv_base_op and counts from the address of the instruction, whatever its length.
THEOREM BranchesAgree == Spec => BranchesOrder
<1>1. CoreInv /\ [Next]_vars =>
      [\A i \in insn : Branch(i) /\ trap' = {} =>
         LET Compare(funct7, funct3) ==
                 BaseResult(EncR(funct7, i.rs2, i.rs1, funct3, 0, OP),
                            xregs[i.rs1], xregs[i.rs2])
             holds == CASE i.funct3 < 2 -> Compare(32, 0) = 0
                        [] i.funct3 \in {4, 5} -> Compare(0, 2) = 1
                        [] i.funct3 \in {6, 7} -> Compare(0, 3) = 1
             taken == ((i.funct3 % 2) = 0) <=> holds
         IN  pc' = IF taken THEN Unsigned(at + Immediate(i))
                   ELSE Unsigned(at + (IF Compressed THEN 2 ELSE 4))]_vars
  BY BranchStep
<1>. QED
  BY CoreInvInit, CoreInvStep, <1>1, PTL DEF Spec, BranchesOrder

\* What rv_base_store has written is what rv_base_load returns from the same address, with the
\* sign or the zeros that its funct3 asks for, and no other byte has changed; also where the
\* access wraps round at the end of the address space.
THEOREM LoadsReturnStores == Spec => StoredIsLoaded
<1>1. CoreInv /\ [Next]_vars =>
      [\A i \in insn : Store(i) /\ trap' = {} =>
         LET addr == StoreAddr(i)
             size == i.funct3 % 4
             data == IF IsFloat(i) THEN fregs[i.rs2] ELSE xregs[i.rs2]
             width == ByteLen * 2^size
             Loaded(funct3) == Extended(funct3, ReadRam(ram', addr, size))
         IN  /\ Loaded(size) = Unsigned(SignExtend(data, width))
             /\ size < 3 => Loaded(size + 4) = data % 2^width
             /\ IsFloat(i) /\ size = 2 => Boxed(2, Loaded(2)) = Boxed(2, data)
             /\ \A b \in Ram \ Span(addr, size) : ram'[b] = ram[b]]_vars
  BY StoreStep
<1>. QED
  BY CoreInvInit, CoreInvStep, <1>1, PTL DEF Spec, StoredIsLoaded

\* What rv_decompress expands a word to is never refused by the function that its opcode
\* selects, but for a floating-point access while the unit is off: the words that have no
\* instruction are refused by the decoder itself.
THEOREM ExpansionsExecute == Spec => []ExpansionsAreLegal
<1>1. Init => LegalInv
  BY DEF Init, LegalInv, Expansion, ExpansionsAreLegal
<1>2. LegalInv => ExpansionsAreLegal
  BY DEF LegalInv
<1>. QED
  BY CoreInvInit, CoreInvStep, <1>1, <1>2, LegalInvStep, PTL DEF Spec
=============================================================================
