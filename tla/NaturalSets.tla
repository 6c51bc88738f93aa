---------------------------- MODULE NaturalSets ----------------------------
(***************************************************************************)
(* What the proofs need to know of natural numbers: that there is a largest *)
(* or a smallest one where the code looks for it, that a function defined   *)
(* step by step exists, and how quotients and powers of ten grow.           *)
(***************************************************************************)
EXTENDS Naturals, FiniteSetTheorems, TLAPS

(* Naturals below a bound have a largest one.                               *)
LEMMA LargestExists ==
    ASSUME NEW S \in SUBSET Nat, S # {}, NEW n \in Nat, \A s \in S : s <= n
    PROVE  \E m \in S : \A s \in S : s <= m
<1> DEFINE Above(s) == {r \in S : r > s}
           T == {Above(s) : s \in S}
<1>1. IsFiniteSet(S)
  BY FS_BoundedSetOfNaturals
<1>2. T \subseteq SUBSET S /\ T # {}
  OBVIOUS
<1>3. FiniteSubsetsOf(S) = SUBSET S
  BY <1>1, FS_FiniteSubsetsOfFinite
<1>4. IsWellFoundedOn(StrictSubsetOrdering(S), SUBSET S)
  BY <1>3, FS_StrictSubsetOrderingWellFounded
<1> HIDE DEF T
<1>5. \E x \in T : \A y \in T : ~(<<y, x>> \in StrictSubsetOrdering(S))
  BY <1>2, <1>4, WFMin
<1>6. PICK x \in T : \A y \in T : ~(<<y, x>> \in StrictSubsetOrdering(S))
  BY <1>5
<1> USE DEF T
<1>7. PICK m \in S : x = Above(m)
  BY <1>6
<1>8. ASSUME NEW s \in S, ~(s <= m) PROVE FALSE
  <2>0. s \in Nat /\ m \in Nat /\ \A r \in S : r \in Nat
    BY <1>7
  <2>1. s > m /\ ~(s > s) /\ \A r \in S : r > s => r > m
    BY <1>8, <2>0
  <2>2. s \in Above(m) /\ s \notin Above(s) /\ Above(s) \subseteq Above(m)
    BY <2>1
  <2>3. <<Above(s), x>> \in StrictSubsetOrdering(S)
    BY <1>2, <1>7, <2>2 DEF StrictSubsetOrdering
  <2> QED BY <1>6, <2>3
<1> QED BY <1>8

(* Naturals have a smallest one.                                            *)
LEMMA SmallestExists ==
    ASSUME NEW S \in SUBSET Nat, S # {}
    PROVE  \E m \in S : \A s \in S : m <= s
<1>1. PICK n \in S : TRUE
  OBVIOUS
<1> DEFINE T == {n - s : s \in {s \in S : s <= n}}
<1>2. n \in Nat /\ n - n \in T
  BY <1>1
<1>3. T \in SUBSET Nat
  BY <1>2
<1>4. \A t \in T : t <= n
  BY <1>2
<1>5. PICK t \in T : \A u \in T : u <= t
  BY <1>2, <1>3, <1>4, LargestExists
<1>6. PICK m \in S : m <= n /\ t = n - m
  BY <1>5
<1>7. ASSUME NEW s \in S PROVE m <= s
  <2>1. s \in Nat /\ m \in Nat
    BY <1>6
  <2>2. CASE s <= n
    <3>1. n - s \in T
      BY <2>2
    <3>2. n - s <= n - m
      BY <1>5, <1>6, <3>1
    <3> QED BY <1>2, <1>6, <2>1, <2>2, <3>2
  <2>3. CASE ~(s <= n)
    BY <1>2, <1>6, <2>1, <2>3
  <2> QED BY <2>2, <2>3
<1> QED BY <1>7

(* What holds of 0, and of a number when it does of the one before it, holds *)
(* of all up to n: there is no smallest one it does not hold of.             *)
LEMMA UpTo ==
    ASSUME NEW n \in Nat, NEW T, 0 \in T, \A i \in 1 .. n : i - 1 \in T => i \in T
    PROVE  \A i \in 0 .. n : i \in T
<1> SUFFICES ASSUME NEW k \in 0 .. n, k \notin T PROVE FALSE
  OBVIOUS
<1> DEFINE Bad == {i \in 0 .. n : i \notin T}
<1>1. Bad \in SUBSET Nat /\ Bad # {}
  OBVIOUS
<1>2. PICK m \in Bad : \A s \in Bad : m <= s
  BY <1>1, SmallestExists
<1>3. m \in 1 .. n
  BY <1>2
<1>4. m - 1 \in 0 .. n /\ ~ (m <= m - 1)
  BY <1>3
<1>5. m - 1 \in T
  BY <1>2, <1>4
<1> QED BY <1>2, <1>3, <1>5

(* f takes n steps from f0.  They can be taken from anywhere.                *)
Steps(f, S, f0, n, step) ==
    f \in [0 .. n -> S] /\ f[0] = f0 /\ \A i \in 1 .. n : f[i] = step[<<i, f[i - 1]>>]

LEMMA StepsExist ==
    ASSUME NEW S, NEW f0 \in S, NEW n \in Nat, NEW step \in [(1 .. n) \X S -> S]
    PROVE  \E f : Steps(f, S, f0, n, step)
<1> DEFINE Taken(f, k) == Steps(f, S, f0, k, step)
           T == {k \in 0 .. n : \E f : Taken(f, k)}
<1>1. 0 \in T
  <2>1. Taken([i \in 0 .. 0 |-> f0], 0)
    BY DEF Steps
  <2>2. 0 \in 0 .. n
    OBVIOUS
  <2> HIDE DEF Taken
  <2> QED BY <2>1, <2>2
<1>2. ASSUME NEW k \in 1 .. n, k - 1 \in T PROVE k \in T
  <2>1. PICK f : Taken(f, k - 1)
    BY <1>2
  <2> DEFINE g == [i \in 0 .. k |-> IF i = k THEN step[<<k, f[k - 1]>>] ELSE f[i]]
  <2>2. f[k - 1] \in S /\ \A i \in 0 .. k - 1 : f[i] \in S
    BY <2>1 DEF Steps
  <2>3. g \in [0 .. k -> S]
    BY <2>2
  <2>4. g[0] = f0 /\ g[k] = step[<<k, f[k - 1]>>] /\ \A i \in 0 .. k - 1 : g[i] = f[i]
    BY <2>1 DEF Steps
  <2> HIDE DEF g
  <2>5. ASSUME NEW i \in 1 .. k PROVE g[i] = step[<<i, g[i - 1]>>]
    <3>1. i - 1 \in 0 .. k - 1
      OBVIOUS
    <3>2. CASE i = k
      BY <2>4, <3>1, <3>2
    <3>3. CASE i # k
      <4>1. i \in 1 .. k - 1
        BY <3>3
      <4>2. f[i] = step[<<i, f[i - 1]>>]
        BY <2>1, <4>1 DEF Steps
      <4> QED BY <2>4, <3>1, <4>1, <4>2
    <3> QED BY <3>2, <3>3
  <2>6. Taken(g, k)
    BY <2>3, <2>4, <2>5 DEF Steps
  <2> HIDE DEF Taken
  <2> QED BY <2>6
<1>3. \A i \in 0 .. n : i \in T
  <2> HIDE DEF T
  <2> QED BY <1>1, <1>2, UpTo
<1>4. n \in T
  BY <1>3
<1> QED BY <1>4
-----------------------------------------------------------------------------
(* Products and quotients.                                                   *)

LEMMA Products ==
  ASSUME NEW a \in Nat, NEW b \in Nat, NEW c \in Nat, a <= b
  PROVE  a * c \in Nat /\ b * c \in Nat /\ a * c <= b * c
<1>1. b - a \in Nat /\ b = a + (b - a)
  OBVIOUS
<1>2. (b - a) * c \in Nat /\ a * c \in Nat
  BY <1>1
<1>3. b * c = a * c + (b - a) * c
  BY <1>1
<1> QED BY <1>2, <1>3

LEMMA Quotient ==
  ASSUME NEW a \in Nat, NEW b \in Nat \ {0}
  PROVE  /\ a \div b \in Nat
         /\ (a \div b) * b <= a /\ a < (a \div b) * b + b
OBVIOUS

(* Whatever times b is no more than a is no more than the quotient.          *)
LEMMA QuotientBounds ==
  ASSUME NEW a \in Nat, NEW b \in Nat \ {0}, NEW q \in Nat, q * b <= a
  PROVE  q <= a \div b
<1> DEFINE d == a \div b
<1>1. d \in Nat /\ d * b <= a /\ a < d * b + b
  BY Quotient
<1> HIDE DEF d
<1>2. CASE d + 1 <= q
  <2>1. (d + 1) * b <= q * b /\ (d + 1) * b \in Nat /\ q * b \in Nat
    BY <1>1, <1>2, Products
  <2>2. (d + 1) * b = d * b + b
    BY <1>1
  <2>3. d * b \in Nat
    BY <1>1
  <2> QED BY <1>1, <2>1, <2>2, <2>3
<1>3. CASE ~ (d + 1 <= q)
  BY <1>1, <1>3 DEF d
<1> QED BY <1>2, <1>3

(* Quotients do not shrink as what is divided grows.                         *)
LEMMA QuotientGrows ==
  ASSUME NEW a \in Nat, NEW b \in Nat, NEW c \in Nat \ {0}, a <= b
  PROVE  a \div c <= b \div c
<1> DEFINE q == a \div c
<1>1. q \in Nat /\ q * c <= a
  BY Quotient
<1> HIDE DEF q
<1>2. q * c \in Nat /\ q * c <= b
  BY <1>1
<1>3. q <= b \div c
  BY <1>1, <1>2, QuotientBounds
<1> QED BY <1>3 DEF q

(* Rounding down twice gives no more than rounding down once.                *)
LEMMA QuotientsAdd ==
  ASSUME NEW a \in Nat, NEW b \in Nat, NEW c \in Nat \ {0}
  PROVE  (a \div c) + (b \div c) <= (a + b) \div c
<1> DEFINE p == a \div c
           q == b \div c
<1>1. p \in Nat /\ p * c <= a /\ q \in Nat /\ q * c <= b
  BY Quotient
<1> HIDE DEF p, q
<1>2. (p + q) * c = p * c + q * c /\ p * c \in Nat /\ q * c \in Nat
  BY <1>1
<1>3. p + q \in Nat /\ (p + q) * c <= a + b
  BY <1>1, <1>2
<1>4. p + q <= (a + b) \div c
  BY <1>3, QuotientBounds
<1> QED BY <1>4 DEF p, q

(* Whole multiples add to the quotient.                                      *)
LEMMA QuotientOfMore ==
  ASSUME NEW a \in Nat, NEW n \in Nat, NEW c \in Nat \ {0}
  PROVE  (a + n * c) \div c = (a \div c) + n
<1> DEFINE q == a \div c
           r == (a + n * c) \div c
<1>1. n * c \in Nat /\ a + n * c \in Nat
  OBVIOUS
<1>2. q \in Nat /\ q * c <= a /\ a < q * c + c
  BY Quotient
<1>3. r \in Nat /\ r * c <= a + n * c
  BY <1>1, Quotient
<1>4. (q + n) * c <= a + n * c
  BY <1>1, <1>2
<1>5. q + n <= r
  BY <1>1, <1>2, <1>4, QuotientBounds
<1> HIDE DEF q, r
<1>6. CASE r <= q + n
  BY <1>2, <1>3, <1>5, <1>6 DEF q, r
<1>7. CASE ~ (r <= q + n)
  <2>1. q + n + 1 <= r /\ q + n + 1 \in Nat
    BY <1>2, <1>3, <1>7
  <2>2. (q + n + 1) * c <= r * c /\ (q + n + 1) * c \in Nat /\ r * c \in Nat
    BY <1>3, <2>1, Products
  <2>3. (q + n + 1) * c = q * c + n * c + c /\ q * c \in Nat
    BY <1>2
  <2> QED BY <1>1, <1>2, <1>3, <2>2, <2>3
<1> QED BY <1>6, <1>7

-----------------------------------------------------------------------------
(* Powers of ten, as a function defined by recursion.                        *)

IsPower(p, n) == p = [i \in 0 .. n |-> IF i = 0 THEN 1 ELSE 10 * p[i - 1]]

LEMMA PowersFound ==
  ASSUME NEW n \in Nat, NEW p, p = CHOOSE f : IsPower(f, n)
  PROVE  \A i \in 0 .. n : p[i] \in Nat \ {0} /\ p[i] = IF i = 0 THEN 1 ELSE 10 * p[i - 1]
<1> DEFINE Q     == Nat \ {0}
           Step  == [r \in (1 .. n) \X Q |-> 10 * r[2]]
<1>1. PICK g : Steps(g, Q, 1, n, Step)
  <2>1. Step \in [(1 .. n) \X Q -> Q] /\ 1 \in Q
    OBVIOUS
  <2> HIDE DEF Step, Q
  <2> QED BY <2>1, StepsExist
<1>2. IsPower(g, n)
  <2>1. g \in [0 .. n -> Q] /\ g[0] = 1 /\ \A i \in 1 .. n : g[i] = Step[<<i, g[i - 1]>>]
    BY <1>1 DEF Steps
  <2>2. \A i \in 1 .. n : g[i - 1] \in Q
    BY <2>1
  <2>3. \A i \in 1 .. n : g[i] = 10 * g[i - 1]
    BY <2>1, <2>2
  <2>4. \A i \in 0 .. n : g[i] = IF i = 0 THEN 1 ELSE 10 * g[i - 1]
    BY <2>1, <2>3
  <2> QED BY <2>1, <2>4 DEF IsPower
<1>3. IsPower(p, n)
  BY <1>2
<1>4. \A i \in 0 .. n : p[i] = IF i = 0 THEN 1 ELSE 10 * p[i - 1]
  BY <1>3 DEF IsPower
<1> DEFINE T == {i \in 0 .. n : p[i] \in Nat \ {0}}
<1>5. 0 \in T
  BY <1>4
<1>6. \A i \in 1 .. n : i - 1 \in T => i \in T
  BY <1>4
<1>7. \A i \in 0 .. n : i \in T
  <2> HIDE DEF T
  <2> QED BY <1>5, <1>6, UpTo
<1> QED BY <1>4, <1>7

(* A number below the largest power has a number of digits.                  *)
LEMMA WidthExists ==
  ASSUME NEW n \in Nat \ {0}, NEW p, \A i \in 0 .. n : p[i] \in Nat, NEW m \in Nat, m < p[n]
  PROVE  \E w \in 1 .. n : m < p[w] /\ (w > 1 => m >= p[w - 1])
<1> DEFINE S == {w \in 1 .. n : m < p[w]}
<1>1. S \in SUBSET Nat /\ n \in S
  OBVIOUS
<1>2. PICK w \in S : \A v \in S : w <= v
  <2> HIDE DEF S
  <2> QED BY <1>1, SmallestExists
<1>3. w > 1 => m >= p[w - 1]
  <2> SUFFICES ASSUME w > 1 PROVE m >= p[w - 1]
    OBVIOUS
  <2>1. w - 1 \in 1 .. n /\ ~ (w <= w - 1)
    BY <1>2
  <2>2. w - 1 \notin S
    BY <1>2, <2>1
  <2> QED BY <2>1, <2>2
<1> QED BY <1>2, <1>3
=============================================================================
