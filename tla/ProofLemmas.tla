---------------------------- MODULE ProofLemmas -----------------------------
(***************************************************************************)
(* Facts about numbers, induction on them and recursion over them that the *)
(* proofs of several components rest on.                                   *)
(***************************************************************************)
EXTENDS Integers, FiniteSets, FiniteSetsExt, NaturalsInduction,
        WellFoundedInduction, TLAPS

\* The modulus of uint32_t arithmetic leaves values in range alone, ...
LEMMA ModSmall ==
    ASSUME NEW w \in Nat \ {0}, NEW x \in 0 .. w - 1
    PROVE  x % w = x
  OBVIOUS

\* ... takes one turn off sums that overflow, ...
LEMMA ModOnce ==
    ASSUME NEW w \in Nat \ {0}, NEW x \in w .. 2 * w - 1
    PROVE  x % w = x - w
  OBVIOUS

\* ... and adds one to differences below zero.
LEMMA ModNegative ==
    ASSUME NEW w \in Nat \ {0}, NEW x \in Int, -w <= x, x < 0
    PROVE  x % w = x + w
  OBVIOUS

\* Quotient and remainder, ...
LEMMA DivMod ==
    ASSUME NEW x \in Nat, NEW d \in Nat \ {0}
    PROVE  x \div d \in Nat /\ x % d \in 0 .. d - 1 /\ x = d * (x \div d) + (x % d)
  OBVIOUS

\* ... also of numbers below zero.
LEMMA DivModInt ==
    ASSUME NEW x \in Int, NEW d \in Nat \ {0}
    PROVE  x \div d \in Int /\ x % d \in 0 .. d - 1 /\ x = d * (x \div d) + (x % d)
  OBVIOUS

\* There is only one quotient and remainder.
LEMMA QuotientUnique ==
    ASSUME NEW d \in Nat \ {0}, NEW q \in Int, NEW p \in Int,
           NEW r \in 0 .. d - 1, NEW s \in 0 .. d - 1, d * q + r = d * p + s
    PROVE  q = p /\ r = s
  <1>1. d * (q - p) = s - r
    OBVIOUS
  <1>2. q - p >= 1 => d * (q - p) >= d
    OBVIOUS
  <1>3. q - p <= -1 => d * (q - p) <= -d
    OBVIOUS
  <1>4. q - p = 0
    BY <1>1, <1>2, <1>3
  <1> QED
    BY <1>4

\* Dividing twice is dividing by the product.
LEMMA DivDiv ==
    ASSUME NEW x \in Nat, NEW a \in Nat \ {0}, NEW b \in Nat \ {0}
    PROVE  x \div (a * b) = (x \div b) \div a
  <1> DEFINE y == x \div b
             q == y \div a
  <1>1. y \in Nat /\ x % b \in 0 .. b - 1 /\ x = b * y + (x % b)
    BY DivMod
  <1>2. q \in Nat /\ y % a \in 0 .. a - 1 /\ y = a * q + (y % a)
    BY <1>1, DivMod
  <1>3. a * b \in Nat \ {0}
    OBVIOUS
  <1> DEFINE r == b * (y % a) + (x % b)
  <1>4. x = (a * b) * q + r
    <2> HIDE DEF y, q
    <2>1. b * y = b * (a * q) + b * (y % a)
      BY <1>1, <1>2
    <2>2. b * (a * q) = (a * b) * q
      BY <1>2
    <2> QED
      BY <1>1, <1>2, <2>1, <2>2
  <1>5. r \in 0 .. (a * b) - 1
    <2> HIDE DEF y, q
    <2>1. b * (y % a) <= b * (a - 1)
      BY <1>2
    <2>2. b * (a - 1) = a * b - b
      OBVIOUS
    <2> QED
      BY <1>1, <1>2, <2>1, <2>2
  <1>6. /\ x \div (a * b) \in Nat /\ x % (a * b) \in 0 .. (a * b) - 1
        /\ x = (a * b) * (x \div (a * b)) + (x % (a * b))
    BY <1>3, DivMod
  <1> DEFINE d == a * b
             p == x \div d
             s == x % d
  <1>7. /\ d \in Nat \ {0} /\ q \in Int /\ p \in Int /\ r \in 0 .. d - 1 /\ s \in 0 .. d - 1
        /\ d * q + r = d * p + s
    BY <1>2, <1>3, <1>4, <1>5, <1>6
  <1>8. q = p
    <2> HIDE DEF q, r, d, p, s
    <2> QED
      BY <1>7, QuotientUnique
  <1> QED
    BY <1>8

\* The remainder of the next number is the next remainder.
LEMMA ModNext ==
    ASSUME NEW d \in Nat \ {0}, NEW x \in Int
    PROVE  (x + 1) % d = IF x % d = d - 1 THEN 0 ELSE (x % d) + 1
  <1> DEFINE q == x \div d
             r == x % d
             p == (x + 1) \div d
             s == (x + 1) % d
  <1>1. q \in Int /\ r \in 0 .. d - 1 /\ x = d * q + r
    BY DivModInt
  <1>2. p \in Int /\ s \in 0 .. d - 1 /\ x + 1 = d * p + s
    BY DivModInt
  <1> HIDE DEF q, r, p, s
  <1>3. CASE r = d - 1
    <2>1. d * (q + 1) + 0 = d * p + s
      BY <1>1, <1>2, <1>3
    <2>2. s = 0
      BY <1>1, <1>2, <2>1, QuotientUnique
    <2> QED
      BY <1>3, <2>2 DEF r, s
  <1>4. CASE r # d - 1
    <2>1. d * q + (r + 1) = d * p + s /\ r + 1 \in 0 .. d - 1
      BY <1>1, <1>2, <1>4
    <2>2. s = r + 1
      BY <1>1, <1>2, <2>1, QuotientUnique
    <2> QED
      BY <1>4, <2>2 DEF r, s
  <1> QED
    BY <1>3, <1>4

\* A non-empty set of natural numbers has a least element.
LEMMA MinExists ==
    ASSUME NEW S \in SUBSET Nat, S # {}
    PROVE  Min(S) \in S /\ \A y \in S : Min(S) <= y
  <1> DEFINE R == {p \in Nat \X Nat : p[1] < p[2]}
  <1>1. R = OpToRel(<, Nat)
    BY Zenon DEF OpToRel
  <1>2. IsWellFoundedOn(R, Nat)
    BY <1>1, NatLessThanWellFounded
  <1>3. PICK x \in S : \A y \in S : ~(<<y, x>> \in R)
    <2> HIDE DEF R
    <2>1. S \subseteq Nat
      OBVIOUS
    <2> QED
      BY <1>2, <2>1, WFMin, Zenon
  <1>4. ASSUME NEW y \in S PROVE x <= y
    <2>1. x \in Nat /\ y \in Nat
      OBVIOUS
    <2>2. y < x => <<y, x>> \in R
      BY <2>1
    <2> QED
      BY <1>3, <2>1, <2>2 DEF R
  <1> QED
    BY <1>4 DEF Min

\* A non-empty set of natural numbers with a bound has a greatest element.
LEMMA MaxExists ==
    ASSUME NEW n \in Nat, NEW S \in SUBSET (0 .. n), S # {}
    PROVE  Max(S) \in S /\ \A y \in S : Max(S) >= y
  <1> DEFINE T == {n - x : x \in S}
  <1>1. T \in SUBSET Nat /\ T # {}
    <2>1. ASSUME NEW x \in S PROVE n - x \in Nat
      OBVIOUS
    <2> QED
      BY <2>1
  <1> HIDE DEF T
  <1>2. Min(T) \in T /\ \A y \in T : Min(T) <= y
    BY <1>1, MinExists
  <1>3. PICK x \in S : Min(T) = n - x
    BY <1>2 DEF T
  <1>4. ASSUME NEW y \in S PROVE x >= y
    <2>1. n - y \in T /\ x \in 0 .. n /\ y \in 0 .. n
      BY DEF T
    <2>2. n - x <= n - y
      BY <1>2, <1>3, <2>1
    <2> QED
      BY <2>1, <2>2
  <1> QED
    BY <1>4 DEF Max

\* A set of numbers that holds each number below which it holds all is Nat.
LEMMA StrongInduction ==
    ASSUME NEW S \in SUBSET Nat,
           \A n \in Nat : (\A m \in 0 .. n - 1 : m \in S) => n \in S
    PROVE  S = Nat
  <1> DEFINE R == Nat \ S
  <1>1. SUFFICES ASSUME R # {} PROVE FALSE
    OBVIOUS
  <1>2. Min(R) \in R /\ \A y \in R : Min(R) <= y
    <2>1. R \in SUBSET Nat
      OBVIOUS
    <2> QED
      BY <1>1, <2>1, MinExists, Zenon
  <1>4. PICK k \in R : \A y \in R : k <= y
    BY <1>2
  <1>5. ASSUME NEW m \in 0 .. k - 1 PROVE m \in S
    BY <1>4
  <1> QED
    BY <1>4, <1>5

\* So does one that holds 0 and the successor of each of its members.
LEMMA SimpleInduction ==
    ASSUME NEW S \in SUBSET Nat, 0 \in S, \A n \in S : n + 1 \in S
    PROVE  S = Nat
  <1>1. ASSUME NEW n \in Nat, \A m \in 0 .. n - 1 : m \in S PROVE n \in S
    <2>1. CASE n = 0
      BY <2>1
    <2>2. CASE n # 0
      <3>1. n - 1 \in S
        BY <1>1, <2>2
      <3>2. (n - 1) + 1 \in S
        BY <3>1
      <3> QED
        BY <3>2
    <2> QED
      BY <2>1, <2>2
  <1> QED
    BY <1>1, StrongInduction

\* A recursion says what a function is at 0 and how it follows, at every other
\* number n, from its value at the smaller number p[n].
IsRecursion(V, a, p, step) ==
    /\ a \in V
    /\ p \in [Nat -> Nat]
    /\ step \in [Nat -> [V -> V]]
    /\ \A n \in Nat \ {0} : p[n] < n

Solves(f, V, a, p, step) ==
    /\ f \in [Nat -> V]
    /\ f[0] = a
    /\ \A n \in Nat \ {0} : f[n] = step[n][f[p[n]]]

SolvesUpto(k, f, V, a, p, step) ==
    /\ f \in [0 .. k -> V]
    /\ f[0] = a
    /\ \A n \in 1 .. k : f[n] = step[n][f[p[n]]]

\* Such a function exists.
LEMMA RecursionExists ==
    ASSUME NEW V, NEW a, NEW p, NEW step, IsRecursion(V, a, p, step)
    PROVE  \E f : Solves(f, V, a, p, step)
  <1> USE DEF IsRecursion
  <1> DEFINE Upto(k, f) == SolvesUpto(k, f, V, a, p, step)
  <1>1. \A k \in Nat : \E f : Upto(k, f)
    <2> DEFINE S == {k \in Nat : \E f : Upto(k, f)}
    <2>1. 0 \in S
      <3>1. Upto(0, [n \in 0 .. 0 |-> a])
        BY DEF SolvesUpto
      <3> HIDE DEF Upto
      <3> QED
        BY <3>1
    <2>2. ASSUME NEW k \in S PROVE k + 1 \in S
      <3>1. PICK f : Upto(k, f)
        OBVIOUS
      <3> DEFINE v == step[k + 1][f[p[k + 1]]]
                 g == [n \in 0 .. k + 1 |-> IF n = k + 1 THEN v ELSE f[n]]
      <3>2. k \in Nat /\ k + 1 \in Nat \ {0} /\ p[k + 1] \in 0 .. k
        OBVIOUS
      <3>3. v \in V
        BY <3>1, <3>2 DEF SolvesUpto
      <3>4. g \in [0 .. k + 1 -> V] /\ g[0] = a
        BY <3>1, <3>2, <3>3 DEF SolvesUpto
      <3>5. \A n \in 0 .. k : g[n] = f[n]
        BY <3>2
      <3>6. g[k + 1] = v
        BY <3>2
      <3> HIDE DEF g
      <3>7. ASSUME NEW n \in 1 .. k + 1 PROVE g[n] = step[n][g[p[n]]]
        <4>1. n \in Nat \ {0} /\ p[n] \in 0 .. k
          BY <3>2
        <4>2. g[p[n]] = f[p[n]]
          BY <3>5, <4>1
        <4>3. CASE n = k + 1
          BY <3>6, <4>2, <4>3
        <4>4. CASE n # k + 1
          <5>1. n \in 1 .. k /\ g[n] = f[n]
            BY ONLY <3>2, <3>5, <4>4
          <5>2. f[n] = step[n][f[p[n]]]
            BY <3>1, <5>1 DEF SolvesUpto
          <5> QED
            BY <4>2, <5>1, <5>2
        <4> QED
          BY <4>3, <4>4
      <3>8. Upto(k + 1, g)
        BY <3>4, <3>7 DEF SolvesUpto
      <3> HIDE DEF Upto
      <3> QED
        BY <3>2, <3>8
    <2>3. S \in SUBSET Nat
      OBVIOUS
    <2> HIDE DEF Upto
    <2>4. S = Nat
      <3> HIDE DEF S
      <3> QED
        BY <2>1, <2>2, <2>3, SimpleInduction
    <2> QED
      BY <2>4
  <1> DEFINE F == [k \in Nat |-> CHOOSE f : Upto(k, f)]
             h == [n \in Nat |-> F[n][n]]
  <1>2. \A k \in Nat : Upto(k, F[k])
    <2> HIDE DEF Upto
    <2> QED
      BY <1>1
  <1> HIDE DEF F
  <1>3. ASSUME NEW k \in Nat, NEW l \in Nat, k <= l PROVE \A n \in 0 .. k : F[k][n] = F[l][n]
    <2> DEFINE S == {n \in Nat : n <= k => F[k][n] = F[l][n]}
    <2>1. ASSUME NEW n \in Nat, \A m \in 0 .. n - 1 : m \in S PROVE n \in S
      <3> SUFFICES ASSUME n <= k PROVE F[k][n] = F[l][n]
        OBVIOUS
      <3>1. CASE n = 0
        BY <3>1, <1>2 DEF SolvesUpto
      <3>2. CASE n # 0
        <4>1. n \in 1 .. k /\ n \in 1 .. l /\ n \in Nat \ {0}
          BY <3>2, <1>3
        <4>2. p[n] \in 0 .. n - 1
          BY <4>1
        <4>3. p[n] \in S /\ p[n] <= k
          BY <2>1, <4>1, <4>2
        <4>4. F[k][p[n]] = F[l][p[n]]
          BY <4>3
        <4>5. F[k][n] = step[n][F[k][p[n]]] /\ F[l][n] = step[n][F[l][p[n]]]
          BY <4>1, <1>2 DEF SolvesUpto
        <4> QED
          BY <4>4, <4>5
      <3> QED
        BY <3>1, <3>2
    <2>2. S = Nat
      <3>1. S \in SUBSET Nat
        OBVIOUS
      <3> HIDE DEF S
      <3> QED
        BY <2>1, <3>1, StrongInduction
    <2> QED
      BY ONLY <2>2
  <1>4. ASSUME NEW n \in Nat \ {0} PROVE h[n] = step[n][h[p[n]]]
    <2>1. p[n] \in Nat /\ p[n] <= n /\ n \in 1 .. n
      OBVIOUS
    <2>2. F[n][n] = step[n][F[n][p[n]]]
      BY <1>2, <2>1 DEF SolvesUpto
    <2>3. Upto(p[n], F[p[n]]) /\ Upto(n, F[n])
      BY <1>2, <2>1
    <2>4. F[p[n]][p[n]] = F[n][p[n]]
      <3>1. p[n] \in Nat /\ n \in Nat /\ p[n] \in 0 .. p[n]
        BY <2>1
      <3>2. \A m \in 0 .. p[n] : F[p[n]][m] = F[n][m]
        BY <1>3, <2>1, <3>1
      <3> QED
        BY <3>1, <3>2
    <2> QED
      BY <2>1, <2>2, <2>4
  <1>5. ASSUME NEW n \in Nat PROVE h[n] \in V
    <2>1. F[n] \in [0 .. n -> V] /\ n \in 0 .. n
      BY <1>2 DEF SolvesUpto
    <2> HIDE DEF F
    <2> QED
      BY <2>1
  <1>6. h[0] = a
    BY <1>2 DEF SolvesUpto
  <1> HIDE DEF h
  <1>7. h \in [Nat -> V]
    <2>1. h = [n \in Nat |-> h[n]]
      BY DEF h
    <2> QED
      BY <1>5, <2>1
  <1> QED
    BY <1>4, <1>6, <1>7 DEF Solves
=============================================================================
