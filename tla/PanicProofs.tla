---------------------------- MODULE PanicProofs -----------------------------
(***************************************************************************)
(* Proofs about Format and Panic.                                          *)
(***************************************************************************)
EXTENDS Panic, ProofLemmas, FiniteSetTheorems, SequenceTheorems, TLAPS

-----------------------------------------------------------------------------
\* Two sequences joined, under a name that hides the operator from the provers.
Cat(p, q) == p \o q

\* Joining sequences may be bracketed either way.
LEMMA CatAssociative ==
    ASSUME NEW S, NEW p \in Seq(S), NEW q \in Seq(S), NEW r \in Seq(S)
    PROVE  Cat(Cat(p, q), r) = Cat(p, Cat(q, r))
  <1>1. (p \o q) \o r = p \o (q \o r)
    BY ONLY p \in Seq(S), q \in Seq(S), r \in Seq(S), ConcatAssociative, SMTT(30)
  <1> QED
    BY ONLY <1>1, Zenon DEF Cat

\* Powers by their recursion.
LEMMA PowerFunction ==
    ASSUME NEW b \in Nat
    PROVE  \E g \in [Nat -> Nat] :
              /\ g[0] = 1
              /\ \A i \in Nat \ {0} : g[i] = b * g[i - 1]
              /\ \A k \in Nat : Power(b, k) = g[k]
  <1> DEFINE p == [i \in Nat |-> IF i = 0 THEN 0 ELSE i - 1]
             step == [i \in Nat |-> [v \in Nat |-> b * v]]
  <1>1. PICK g : Solves(g, Nat, 1, p, step)
    <2>1. IsRecursion(Nat, 1, p, step)
      BY DEF IsRecursion
    <2> HIDE DEF p, step
    <2> QED
      BY <2>1, RecursionExists
  <1>2. g \in [Nat -> Nat] /\ g[0] = 1 /\ \A i \in Nat \ {0} : g[i] = b * g[i - 1]
    <2>1. g \in [Nat -> Nat] /\ g[0] = 1
      BY <1>1 DEF Solves
    <2>2. ASSUME NEW i \in Nat \ {0} PROVE g[i] = b * g[i - 1]
      <3>1. g[i] = step[i][g[i - 1]] /\ g[i - 1] \in Nat
        BY <1>1, <2>2 DEF Solves
      <3> QED
        BY <3>1
    <2> QED
      BY <2>1, <2>2
  <1> HIDE DEF p, step
  <1>3. ASSUME NEW k \in Nat PROVE Power(b, k) = g[k]
    <2> DEFINE IsPower(f) == f = [i \in 0 .. k |-> IF i = 0 THEN 1 ELSE b * f[i - 1]]
               f0 == [i \in 0 .. k |-> g[i]]
               h == CHOOSE f : IsPower(f)
    <2>1. IsPower(f0)
      <3>1. ASSUME NEW i \in 0 .. k PROVE f0[i] = IF i = 0 THEN 1 ELSE b * f0[i - 1]
        <4>1. CASE i = 0
          BY <1>2, <4>1
        <4>2. CASE i # 0
          <5>1. i \in Nat \ {0} /\ i - 1 \in 0 .. k
            BY <4>2
          <5>2. f0[i] = g[i] /\ f0[i - 1] = g[i - 1]
            BY <5>1
          <5> QED
            BY <1>2, <4>2, <5>1, <5>2
        <4> QED
          BY <4>1, <4>2
      <3>2. f0 = [i \in 0 .. k |-> f0[i]]
        OBVIOUS
      <3> HIDE DEF f0
      <3> QED
        BY <3>1, <3>2
    <2>2. IsPower(h)
      <3> HIDE DEF IsPower, f0
      <3> QED
        BY <2>1
    <2>3. Power(b, k) = h[k]
      BY DEF Power
    <2> HIDE DEF h
    <2>4. ASSUME NEW i \in 0 .. k PROVE h[i] = IF i = 0 THEN 1 ELSE b * h[i - 1]
      BY <2>2
    <2> DEFINE S == {i \in Nat : i <= k => h[i] = g[i]}
    <2>5. 0 \in S
      BY <1>2, <2>4
    <2>6. ASSUME NEW i \in S PROVE i + 1 \in S
      BY <1>2, <2>4
    <2>7. S = Nat
      <3>1. S \in SUBSET Nat
        OBVIOUS
      <3> HIDE DEF S
      <3> QED
        BY <2>5, <2>6, <3>1, SimpleInduction
    <2>8. k \in S
      BY <2>7
    <2> QED
      BY <2>3, <2>8
  <1> QED
    BY <1>2, <1>3

\* What Format's Power computes, and that it is never zero.
LEMMA PowerFacts ==
    ASSUME NEW b \in Nat \ {0}
    PROVE  /\ Power(b, 0) = 1
           /\ \A k \in Nat : Power(b, k) \in Nat \ {0} /\ Power(b, k + 1) = b * Power(b, k)
  <1>1. PICK g \in [Nat -> Nat] :
              /\ g[0] = 1
              /\ \A i \in Nat \ {0} : g[i] = b * g[i - 1]
              /\ \A k \in Nat : Power(b, k) = g[k]
    BY PowerFunction
  <1>2. \A k \in Nat : g[k + 1] = b * g[k]
    BY <1>1
  <1> DEFINE S == {i \in Nat : g[i] # 0}
  <1>3. S = Nat
    <2>1. 0 \in S
      BY <1>1
    <2>2. ASSUME NEW i \in S PROVE i + 1 \in S
      <3>1. g[i] \in Nat /\ g[i] > 0 /\ g[i + 1] = b * g[i]
        BY <1>1, <1>2
      <3>2. b * g[i] > 0
        BY <3>1
      <3> QED
        BY <3>1, <3>2
    <2>3. S \in SUBSET Nat
      OBVIOUS
    <2> HIDE DEF S
    <2> QED
      BY <2>1, <2>2, <2>3, SimpleInduction
  <1>4. ASSUME NEW k \in Nat
        PROVE  Power(b, k) \in Nat \ {0} /\ Power(b, k + 1) = b * Power(b, k)
    <2>1. g[k] \in Nat \ {0}
      BY <1>1, <1>3
    <2>2. Power(b, k) = g[k] /\ Power(b, k + 1) = g[k + 1]
      BY <1>1
    <2> QED
      BY ONLY <1>2, <2>1, <2>2, k \in Nat
  <1>5. Power(b, 0) = 1
    BY <1>1
  <1> QED
    BY ONLY <1>4, <1>5

\* Powers grow with the exponent, ...
LEMMA PowerGrows ==
    ASSUME NEW b \in Nat \ {0}, NEW i \in Nat, NEW j \in Nat, i <= j
    PROVE  Power(b, i) <= Power(b, j)
  <1> DEFINE S == {k \in Nat : Power(b, i) <= Power(b, i + k)}
  <1>1. 0 \in S
    BY PowerFacts
  <1>2. ASSUME NEW k \in S PROVE k + 1 \in S
    <2>1. /\ Power(b, i) \in Nat /\ Power(b, i + k) \in Nat
          /\ Power(b, (i + k) + 1) = b * Power(b, i + k)
      <3>1. i + k \in Nat
        OBVIOUS
      <3> QED
        BY <3>1, PowerFacts
    <2>2. b * Power(b, i + k) >= Power(b, i + k)
      BY <2>1
    <2>3. i + (k + 1) = (i + k) + 1
      OBVIOUS
    <2> QED
      BY <2>1, <2>2, <2>3
  <1>3. S = Nat
    <2>1. S \in SUBSET Nat
      OBVIOUS
    <2> HIDE DEF S
    <2> QED
      BY <1>1, <1>2, <2>1, SimpleInduction
  <1>4. j - i \in S /\ i + (j - i) = j
    <2>1. j - i \in Nat /\ i + (j - i) = j
      OBVIOUS
    <2> HIDE DEF S
    <2> QED
      BY <1>3, <2>1
  <1> QED
    BY <1>4

\* ... and with the base.
LEMMA PowerGrowsInBase ==
    ASSUME NEW b \in Nat \ {0}, NEW c \in Nat \ {0}, b <= c, NEW k \in Nat
    PROVE  Power(b, k) <= Power(c, k)
  <1> DEFINE S == {i \in Nat : Power(b, i) <= Power(c, i)}
  <1>1. 0 \in S
    BY PowerFacts
  <1>2. ASSUME NEW i \in S PROVE i + 1 \in S
    <2>1. /\ Power(b, i) \in Nat /\ Power(c, i) \in Nat /\ Power(b, i) <= Power(c, i)
          /\ Power(b, i + 1) = b * Power(b, i) /\ Power(c, i + 1) = c * Power(c, i)
      BY PowerFacts
    <2>2. b * Power(b, i) <= c * Power(b, i) /\ c * Power(b, i) <= c * Power(c, i)
      BY <2>1
    <2> QED
      BY <2>1, <2>2
  <1>3. S = Nat
    <2>1. S \in SUBSET Nat
      OBVIOUS
    <2> HIDE DEF S
    <2> QED
      BY <1>1, <1>2, <2>1, SimpleInduction
  <1> QED
    BY <1>3

-----------------------------------------------------------------------------
\* A sequence is a function of its positions.
LEMMA SeqFunction ==
    ASSUME NEW S, NEW s \in Seq(S), NEW n, Len(s) = n
    PROVE  s = [i \in 1 .. n |-> s[i]]
  BY LenProperties

\* The elements of a concatenation, by position in either half.
LEMMA ConcatAt ==
    ASSUME NEW S, NEW a \in Seq(S), NEW b \in Seq(S), NEW m, NEW n, Len(a) = m, Len(b) = n
    PROVE  /\ m \in Nat /\ n \in Nat /\ a \o b \in Seq(S) /\ Len(a \o b) = m + n
           /\ \A i \in 1 .. m : i \in 1 .. m + n /\ (a \o b)[i] = a[i]
           /\ \A i \in 1 .. n : m + i \in 1 .. m + n /\ (a \o b)[m + i] = b[i]
           /\ \A i \in 1 .. m + n : i \in 1 .. m \/ (i - m \in 1 .. n /\ m + (i - m) = i)
  <1> DEFINE s == a \o b
  <1>1. /\ m \in Nat /\ n \in Nat /\ s \in Seq(S) /\ Len(s) = m + n
        /\ \A i \in 1 .. m + n : s[i] = IF i <= m THEN a[i] ELSE b[i - m]
    BY ConcatProperties
  <1> HIDE DEF s
  <1>2. ASSUME NEW i \in 1 .. m PROVE i \in 1 .. m + n /\ s[i] = a[i]
    BY <1>1
  <1>3. ASSUME NEW i \in 1 .. n PROVE m + i \in 1 .. m + n /\ s[m + i] = b[i]
    <2>1. m + i \in 1 .. m + n /\ ~(m + i <= m) /\ (m + i) - m = i
      BY <1>1
    <2> QED
      BY <1>1, <2>1
  <1>4. ASSUME NEW i \in 1 .. m + n PROVE i \in 1 .. m \/ (i - m \in 1 .. n /\ m + (i - m) = i)
    BY <1>1
  <1> QED
    BY <1>1, <1>2, <1>3, <1>4 DEF s

\* What digits are.
Digits ==
    {"0", "1", "2", "3", "4", "5", "6", "7", "8", "9",
     "a", "b", "c", "d", "e", "f", "A", "B", "C", "D", "E", "F"}

\* The digits of either case are the sixteen digits.
LEMMA DigitTypes ==
    ASSUME NEW d \in 0 .. 15, NEW uppercase
    PROVE  Digit(d, uppercase) \in Digits
  <1>1. d + 1 \in 1 .. 16
    OBVIOUS
  <1>2. \A i \in 1 .. 16 : LowerDigits[i] \in Digits /\ UpperDigits[i] \in Digits
    BY DEF LowerDigits, UpperDigits, Digits
  <1> QED
    BY <1>1, <1>2 DEF Digit

\* The decimal digits and their values.
LEMMA DecimalDigits ==
    ASSUME NEW d \in 0 .. 9
    PROVE  IsDigit(Digit(d, FALSE)) /\ DigitValue(Digit(d, FALSE)) = d
  <1>1. d + 1 \in 1 .. 10 /\ Digit(d, FALSE) = LowerDigits[d + 1]
    BY DEF Digit
  <1>2. \A i, j \in 1 .. 10 : LowerDigits[i] = LowerDigits[j] => i = j
    BY DEF LowerDigits
  <1>3. DigitValue(Digit(d, FALSE)) = d
    <2> DEFINE e == CHOOSE i \in 1 .. 10 : LowerDigits[i] = Digit(d, FALSE)
    <2>1. e \in 1 .. 10 /\ LowerDigits[e] = Digit(d, FALSE)
      BY <1>1
    <2>2. e = d + 1
      BY <1>1, <1>2, <2>1
    <2>3. DigitValue(Digit(d, FALSE)) = (d + 1) - 1
      BY <2>2, Zenon DEF DigitValue
    <2>4. (d + 1) - 1 = d
      OBVIOUS
    <2> QED
      BY <2>3, <2>4, Zenon
  <1> QED
    BY <1>1, <1>3 DEF IsDigit

\* DigitsOf by its recursion.
ByDivision(g, base, uppercase) ==
    /\ g \in [Nat -> Seq(Digits)]
    /\ g[0] = << >>
    /\ \A n \in Nat \ {0} : g[n] = Append(g[n \div base], Digit(n % base, uppercase))

\* DigitsOf is such a function: its recursion is well-founded.
LEMMA DigitsFunction ==
    ASSUME NEW base \in 2 .. 16, NEW uppercase
    PROVE  \E g :
              /\ ByDivision(g, base, uppercase)
              /\ \A n \in Words : DigitsOf(n, base, uppercase) = g[n]
  <1> DEFINE V == Seq(Digits)
             p == [n \in Nat |-> n \div base]
             step == [n \in Nat |-> [s \in V |-> Append(s, Digit(n % base, uppercase))]]
  <1>1. PICK g : Solves(g, V, << >>, p, step)
    <2>1. ASSUME NEW n \in Nat \ {0} PROVE n \div base < n
      <3>1. n \div base \in Nat /\ n % base \in 0 .. base - 1
            /\ n = base * (n \div base) + (n % base)
        BY DivMod
      <3>2. n \div base = 0 \/ base * (n \div base) >= 2 * (n \div base)
        BY <3>1
      <3> QED
        BY <3>1, <3>2
    <2>2. p \in [Nat -> Nat]
      BY DivMod
    <2>3. step \in [Nat -> [V -> V]]
      <3>1. ASSUME NEW n \in Nat PROVE Digit(n % base, uppercase) \in Digits
        <4>1. n % base \in 0 .. 15
          OBVIOUS
        <4> QED
          BY <4>1, DigitTypes
      <3>2. ASSUME NEW n \in Nat, NEW s \in V
            PROVE  Append(s, Digit(n % base, uppercase)) \in V
        <4>1. Digit(n % base, uppercase) \in Digits
          BY <3>1
        <4> QED
          BY <4>1
      <3> HIDE DEF V
      <3> QED
        BY <3>2
    <2>4. \A n \in Nat \ {0} : p[n] < n
      BY <2>1
    <2>5. << >> \in V
      OBVIOUS
    <2>6. IsRecursion(V, << >>, p, step)
      BY <2>2, <2>3, <2>4, <2>5 DEF IsRecursion
    <2> HIDE DEF p, step, V
    <2> QED
      BY <2>6, RecursionExists
  <1>2. g \in [Nat -> V] /\ g[0] = << >>
    BY <1>1 DEF Solves
  <1>3. ASSUME NEW n \in Nat \ {0}
        PROVE  g[n] = Append(g[n \div base], Digit(n % base, uppercase))
    <2>1. n \div base \in Nat
      BY DivMod
    <2>2. g[n] = step[n][g[n \div base]] /\ g[n \div base] \in V
      BY <1>1, <1>3, <2>1 DEF Solves
    <2> QED
      BY <2>2
  <1> HIDE DEF p, step
  <1>4. ASSUME NEW num \in Words PROVE DigitsOf(num, base, uppercase) = g[num]
    <2> DEFINE Is(f) ==
                  f = [n \in 0 .. Word - 1 |->
                          IF n = 0 THEN << >>
                          ELSE Append(f[n \div base], Digit(n % base, uppercase))]
               f0 == [n \in 0 .. Word - 1 |-> g[n]]
               h == CHOOSE f : Is(f)
    <2> USE FormatAssumption
    <2>1. ASSUME NEW n \in 0 .. Word - 1, n # 0
          PROVE  n \div base \in 0 .. Word - 1 /\ n \div base < n
      <3>1. n \in Nat \ {0}
        BY <2>1
      <3>2. n \div base \in Nat /\ n % base \in 0 .. base - 1
            /\ n = base * (n \div base) + (n % base)
        BY ONLY <3>1, DivMod, base \in 2 .. 16
      <3>3. n \div base = 0 \/ base * (n \div base) >= 2 * (n \div base)
        BY <3>2
      <3> QED
        BY <3>1, <3>2, <3>3
    <2>2. Is(f0)
      <3>1. ASSUME NEW n \in 0 .. Word - 1
            PROVE  f0[n] = IF n = 0 THEN << >>
                           ELSE Append(f0[n \div base], Digit(n % base, uppercase))
        <4>1. CASE n = 0
          BY <1>2, <4>1
        <4>2. CASE n # 0
          <5>1. n \in Nat \ {0} /\ n \div base \in 0 .. Word - 1
            BY <4>2, <2>1
          <5>2. f0[n] = g[n] /\ f0[n \div base] = g[n \div base]
            BY <5>1
          <5> HIDE DEF f0
          <5> QED
            BY <1>3, <4>2, <5>1, <5>2
        <4> QED
          BY <4>1, <4>2
      <3>2. f0 = [n \in 0 .. Word - 1 |-> f0[n]]
        OBVIOUS
      <3> HIDE DEF f0
      <3> QED
        BY <3>1, <3>2
    <2>3. Is(h)
      <3> HIDE DEF Is, f0
      <3> QED
        BY <2>2
    <2>4. DigitsOf(num, base, uppercase) = h[num]
      BY DEF DigitsOf
    <2> HIDE DEF h
    <2>5. ASSUME NEW n \in 0 .. Word - 1
          PROVE  h[n] = IF n = 0 THEN << >>
                        ELSE Append(h[n \div base], Digit(n % base, uppercase))
      BY <2>3
    <2> HIDE DEF Is, f0
    <2> DEFINE S == {n \in Nat : n <= Word - 1 => h[n] = g[n]}
    <2>6. ASSUME NEW n \in Nat, \A m \in 0 .. n - 1 : m \in S PROVE n \in S
      <3> SUFFICES ASSUME n <= Word - 1 PROVE h[n] = g[n]
        OBVIOUS
      <3>1. CASE n = 0
        <4>1. n \in 0 .. Word - 1
          OBVIOUS
        <4>2. h[n] = << >>
          BY <2>5, <3>1, <4>1, Zenon
        <4> QED
          BY ONLY <1>2, <3>1, <4>2
      <3>2. CASE n # 0
        <4>1. n \in 0 .. Word - 1
          OBVIOUS
        <4>2. n \div base \in 0 .. n - 1 /\ n \div base <= Word - 1
          BY <2>1, <3>2, <4>1
        <4>3. h[n \div base] = g[n \div base]
          BY <2>6, <4>2
        <4>4. h[n] = Append(h[n \div base], Digit(n % base, uppercase))
          BY <2>5, <3>2, <4>1
        <4>5. g[n] = Append(g[n \div base], Digit(n % base, uppercase))
          BY <1>3, <3>2
        <4> QED
          BY <4>3, <4>4, <4>5
      <3> QED
        BY <3>1, <3>2
    <2>7. S = Nat
      <3>1. S \in SUBSET Nat
        OBVIOUS
      <3> HIDE DEF S
      <3> QED
        BY <2>6, <3>1, StrongInduction
    <2>8. num \in Nat /\ num <= Word - 1
      BY DEF Words
    <2>9. num \in S
      BY <2>7, <2>8
    <2> QED
      BY <2>4, <2>8, <2>9
  <1>5. ByDivision(g, base, uppercase)
    BY <1>2, <1>3 DEF ByDivision
  <1> QED
    BY <1>4, <1>5

\* The digits of n at the last m places.
PlaceDigits(n, base, uppercase, m) ==
    [i \in 1 .. m |-> Digit((n \div Power(base, m - i)) % base, uppercase)]

\* A number written with m places has m digits.
LEMMA PlaceTypes ==
    ASSUME NEW n \in Nat, NEW base \in 2 .. 16, NEW uppercase, NEW m \in Nat
    PROVE  /\ PlaceDigits(n, base, uppercase, m) \in Seq(Digits)
           /\ Len(PlaceDigits(n, base, uppercase, m)) = m
  <1>1. ASSUME NEW i \in 1 .. m
        PROVE  Digit((n \div Power(base, m - i)) % base, uppercase) \in Digits
    <2>1. m - i \in Nat /\ base \in Nat \ {0}
      OBVIOUS
    <2>2. Power(base, m - i) \in Nat \ {0}
      BY <2>1, PowerFacts
    <2>3. n \div Power(base, m - i) \in Nat
      BY <2>2, DivMod
    <2>4. (n \div Power(base, m - i)) % base \in 0 .. base - 1
      BY <2>1, <2>3, DivMod
    <2>5. (n \div Power(base, m - i)) % base \in 0 .. 15
      BY <2>4
    <2> QED
      BY <2>5, DigitTypes
  <1> QED
    BY <1>1 DEF PlaceDigits

\* A quotient lies between the bounds of its dividend, each divided by the base.
LEMMA QuotientBetween ==
    ASSUME NEW b \in Nat \ {0}, NEW q \in Nat, NEW r \in 0 .. b - 1,
           NEW low \in Nat, NEW high \in Nat, b * low <= b * q + r, b * q + r < b * high
    PROVE  low <= q /\ q < high
  <1>1. q + 1 <= low => b * (q + 1) <= b * low
    OBVIOUS
  <1>2. high <= q => b * high <= b * q
    OBVIOUS
  <1>3. b * (q + 1) = b * q + b
    OBVIOUS
  <1> QED
    BY <1>1, <1>2, <1>3

\* Division by the base, again and again, finds the digit of every place.
LEMMA DivisionFindsDigits ==
    ASSUME NEW base \in 2 .. 16, NEW uppercase, NEW g, ByDivision(g, base, uppercase)
    PROVE  \A m, n \in Nat :
              Power(base, m) <= n /\ n < Power(base, m + 1) =>
                 g[n] = PlaceDigits(n, base, uppercase, m + 1)
  <1> DEFINE Right(m) == \A n \in Nat : Power(base, m) <= n /\ n < Power(base, m + 1) =>
                            g[n] = PlaceDigits(n, base, uppercase, m + 1)
             S == {m \in Nat : Right(m)}
  <1>0. base \in Nat \ {0}
    OBVIOUS
  <1>1. Power(base, 0) = 1 /\ Power(base, 1) = base
    <2>1. Power(base, 0) = 1 /\ Power(base, 0 + 1) = base * Power(base, 0)
      BY <1>0, PowerFacts
    <2>2. base * 1 = base /\ 0 + 1 = 1
      OBVIOUS
    <2> QED
      BY <2>1, <2>2
  <1>2. 0 \in S
    <2> SUFFICES ASSUME NEW n \in Nat, 1 <= n, n < base
                 PROVE  g[n] = PlaceDigits(n, base, uppercase, 1)
      BY <1>1
    <2>1. n \div base = 0 /\ n % base = n
      OBVIOUS
    <2>2. g[n] = Append(<< >>, Digit(n % base, uppercase))
      <3>1. n \in Nat \ {0}
        OBVIOUS
      <3> QED
        BY <2>1, <3>1 DEF ByDivision
    <2>3. PlaceDigits(n, base, uppercase, 1) = << Digit(n % base, uppercase) >>
      <3>1. \A i \in 1 .. 1 : 1 - i = 0 /\ n \div 1 = n
        OBVIOUS
      <3> QED
        BY <1>1, <3>1 DEF PlaceDigits
    <2> QED
      BY <2>2, <2>3
  <1>3. ASSUME NEW m \in S PROVE m + 1 \in S
    <2> SUFFICES ASSUME NEW n \in Nat, Power(base, m + 1) <= n, n < Power(base, (m + 1) + 1)
                 PROVE  g[n] = PlaceDigits(n, base, uppercase, (m + 1) + 1)
      OBVIOUS
    <2> DEFINE q == n \div base
    <2>1. /\ Power(base, m) \in Nat \ {0} /\ Power(base, m + 1) = base * Power(base, m)
          /\ Power(base, (m + 1) + 1) = base * Power(base, m + 1)
          /\ Power(base, m + 1) \in Nat \ {0}
      <3>1. m \in Nat /\ m + 1 \in Nat
        OBVIOUS
      <3> QED
        BY <1>0, <3>1, PowerFacts
    <2>2. q \in Nat /\ n % base \in 0 .. base - 1 /\ n = base * q + (n % base)
      BY <1>0, DivMod
    <2> HIDE DEF q
    <2>3. Power(base, m) <= q /\ q < Power(base, m + 1)
      BY <2>1, <2>2, QuotientBetween
    <2>5. g[q] = PlaceDigits(q, base, uppercase, m + 1)
      BY <2>2, <2>3
    <2>6. n # 0
      BY <2>1
    <2>7. g[n] = Append(PlaceDigits(q, base, uppercase, m + 1), Digit(n % base, uppercase))
      BY <2>5, <2>6 DEF q, ByDivision
    <2>8. ASSUME NEW i \in 1 .. m + 1
          PROVE  n \div Power(base, (m + 1) + 1 - i) = q \div Power(base, (m + 1) - i)
      <3>1. (m + 1) - i \in Nat /\ (m + 1) + 1 - i = ((m + 1) - i) + 1
        OBVIOUS
      <3>2. /\ Power(base, (m + 1) - i) \in Nat \ {0}
            /\ Power(base, ((m + 1) - i) + 1) = base * Power(base, (m + 1) - i)
        BY <1>0, <3>1, PowerFacts
      <3>3. base * Power(base, (m + 1) - i) = Power(base, (m + 1) - i) * base
        BY <3>2
      <3>4. n \div (Power(base, (m + 1) - i) * base) = q \div Power(base, (m + 1) - i)
        BY <1>0, <3>2, DivDiv DEF q
      <3> QED
        BY <3>1, <3>2, <3>3, <3>4
    <2> DEFINE a == PlaceDigits(q, base, uppercase, m + 1)
               b == PlaceDigits(n, base, uppercase, (m + 1) + 1)
               last == Digit(n % base, uppercase)
    <2>9. a \in Seq(Digits) /\ Len(a) = m + 1 /\ b \in Seq(Digits) /\ Len(b) = (m + 1) + 1
      <3>1. m + 1 \in Nat /\ (m + 1) + 1 \in Nat
        OBVIOUS
      <3> QED
        <4>1. a \in Seq(Digits) /\ Len(a) = m + 1
          <5> HIDE DEF b
          <5> QED
            BY <2>2, <3>1, PlaceTypes, SMTT(30)
        <4>2. b \in Seq(Digits) /\ Len(b) = (m + 1) + 1
          <5> HIDE DEF a
          <5> QED
            BY <3>1, PlaceTypes
        <4> QED
          BY ONLY <4>1, <4>2
    <2>10. last \in Digits
      <3>1. n % base \in 0 .. 15
        BY ONLY <2>2, base \in 2 .. 16
      <3> QED
        BY <3>1, DigitTypes
    <2>11. ASSUME NEW i \in 1 .. m + 1 PROVE a[i] = b[i]
      BY <2>8 DEF PlaceDigits
    <2>12. b[(m + 1) + 1] = last
      <3>1. (m + 1) + 1 - ((m + 1) + 1) = 0 /\ n \div 1 = n /\ (m + 1) + 1 \in 1 .. (m + 1) + 1
        OBVIOUS
      <3> QED
        BY <1>1, <3>1 DEF PlaceDigits
    <2> HIDE DEF a, b, last
    <2>13. Append(a, last) = b
      <3>1. /\ Append(a, last) \in Seq(Digits) /\ Len(Append(a, last)) = (m + 1) + 1
            /\ \A i \in 1 .. m + 1 : Append(a, last)[i] = a[i]
            /\ Append(a, last)[(m + 1) + 1] = last
        BY ONLY <2>9, <2>10, m \in Nat
      <3>2. \A i \in 1 .. Len(b) : Append(a, last)[i] = b[i]
        BY ONLY <2>9, <2>11, <2>12, <3>1, m \in Nat
      <3> QED
        BY <2>9, <3>1, <3>2, SeqEqual
    <2> QED
      BY <2>7, <2>13 DEF a, b, last
  <1>4. S = Nat
    <2>1. S \in SUBSET Nat
      OBVIOUS
    <2> HIDE DEF S
    <2> QED
      BY <1>2, <1>3, <2>1, SimpleInduction
  <1> QED
    BY <1>4

\* As many places as a number takes.
Enough(n, base) == Min({k \in 1 .. MostDigits : n < Power(base, k)})

\* It is a number of places that exists, suffices, and is the least that does.
LEMMA EnoughFacts ==
    ASSUME NEW n \in Words, NEW base \in 10 .. 16
    PROVE  /\ Enough(n, base) \in 1 .. MostDigits
           /\ n < Power(base, Enough(n, base))
           /\ \A k \in 1 .. MostDigits : n < Power(base, k) => Enough(n, base) <= k
           /\ Power(base, Enough(n, base) - 1) <= n \/ Enough(n, base) = 1
  <1> USE FormatAssumption
  <1> DEFINE K == {k \in 1 .. MostDigits : n < Power(base, k)}
             e == Enough(n, base)
  <1>0. base \in Nat \ {0} /\ 10 \in Nat \ {0} /\ 10 <= base
    OBVIOUS
  <1>1. K # {}
    <2>1. Power(10, MostDigits) <= Power(base, MostDigits)
      BY <1>0, PowerGrowsInBase
    <2>2. MostDigits # 0
      <3>1. Power(10, 0) = 1
        BY PowerFacts
      <3>2. Word >= 2
        OBVIOUS
      <3> QED
        BY <3>1, <3>2
    <2>3. Power(10, MostDigits) \in Nat /\ Power(base, MostDigits) \in Nat
      BY <1>0, PowerFacts
    <2>4. n < Power(base, MostDigits) /\ MostDigits \in 1 .. MostDigits
      BY <2>1, <2>2, <2>3 DEF Words
    <2> QED
      BY <2>4
  <1>2. K \in SUBSET Nat
    OBVIOUS
  <1>3. e \in K /\ \A k \in K : e <= k
    <2> HIDE DEF K
    <2>1. Min(K) \in K /\ \A k \in K : Min(K) <= k
      BY <1>1, <1>2, MinExists, Zenon
    <2>2. e = Min(K)
      BY DEF Enough, K
    <2> QED
      BY <2>1, <2>2
  <1>4. ASSUME e # 1 PROVE Power(base, e - 1) <= n
    <2> HIDE DEF e
    <2>1. e - 1 \in 1 .. MostDigits /\ e - 1 < e /\ e - 1 \in Nat
      BY <1>3, <1>4
    <2>2. e - 1 \notin K
      BY <1>3, <2>1
    <2>3. Power(base, e - 1) \in Nat
      BY <1>0, <2>1, PowerFacts
    <2> QED
      BY <2>1, <2>2, <2>3 DEF Words
  <1> QED
    BY <1>3, <1>4

\* Nothing but zeros stands before the places a number takes.
LEMMA ZerosBefore ==
    ASSUME NEW n \in Words, NEW base \in 10 .. 16, NEW uppercase, NEW k \in Nat,
           k >= Enough(n, base)
    PROVE  Digit((n \div Power(base, k)) % base, uppercase) = "0"
  <1>1. base \in Nat \ {0} /\ n \in Nat /\ Enough(n, base) \in Nat
    BY EnoughFacts DEF Words
  <1>2. /\ Power(base, k) \in Nat \ {0}
        /\ Power(base, Enough(n, base)) <= Power(base, k)
        /\ Power(base, Enough(n, base)) \in Nat
        /\ n < Power(base, Enough(n, base))
    BY <1>1, PowerFacts, PowerGrows, EnoughFacts
  <1> DEFINE d == Power(base, k)
  <1>3. n < d /\ d \in Nat \ {0}
    BY <1>1, <1>2
  <1> HIDE DEF d
  <1>4. n \div d = 0
    BY <1>1, <1>3
  <1>5. 0 % base = 0
    BY <1>1
  <1> QED
    BY <1>4, <1>5 DEF d, Digit, LowerDigits, UpperDigits

\* kprint_unsigned without padding.
LEMMA PlainDigits ==
    ASSUME NEW n \in Words, NEW base \in 10 .. 16, NEW uppercase
    PROVE  (IF n = 0 THEN << "0" >> ELSE DigitsOf(n, base, uppercase))
              = PlaceDigits(n, base, uppercase, Enough(n, base))
  <1> DEFINE e == Enough(n, base)
  <1>0. /\ e \in Nat \ {0} /\ n \in Nat /\ base \in 2 .. 16 /\ base \in Nat \ {0}
        /\ n < Power(base, e)
    BY EnoughFacts DEF Words
  <1>1. CASE n = 0
    <2>1. e = 1
      <3>1. 1 \in 1 .. MostDigits
        BY EnoughFacts, FormatAssumption
      <3>2. Power(base, 0 + 1) \in Nat \ {0}
        BY <1>0, PowerFacts
      <3>3. n < Power(base, 1)
        BY <1>1, <3>2
      <3>4. e <= 1
        BY <3>1, <3>3, EnoughFacts
      <3> HIDE DEF e
      <3> QED
        BY <1>0, <3>4
    <2>2. PlaceDigits(n, base, uppercase, 1) = << "0" >>
      <3>1. Power(base, 0) = 1
        BY <1>0, PowerFacts
      <3>2. \A i \in 1 .. 1 : 1 - i = 0
        OBVIOUS
      <3>3. 0 \div 1 = 0 /\ 0 % base = 0
        BY <1>0
      <3>4. Digit(0, uppercase) = "0"
        BY DEF Digit, LowerDigits, UpperDigits
      <3> QED
        BY <1>1, <3>1, <3>2, <3>3, <3>4 DEF PlaceDigits
    <2> HIDE DEF e
    <2> QED
      BY <1>1, <2>1, <2>2 DEF e
  <1>2. CASE n # 0
    <2>1. PICK g : /\ ByDivision(g, base, uppercase)
                   /\ \A i \in Words : DigitsOf(i, base, uppercase) = g[i]
      BY <1>0, DigitsFunction
    <2>2. Power(base, e - 1) <= n
      <3>1. Power(base, 0) = 1
        BY <1>0, PowerFacts
      <3>2. CASE e = 1
        BY <1>0, <1>2, <3>1, <3>2
      <3>3. CASE e # 1
        BY <3>3, EnoughFacts
      <3> QED
        BY <3>2, <3>3
    <2> HIDE DEF e
    <2>3. e - 1 \in Nat /\ (e - 1) + 1 = e
      BY <1>0
    <2>4. g[n] = PlaceDigits(n, base, uppercase, e)
      <3>1. \A m, i \in Nat : Power(base, m) <= i /\ i < Power(base, m + 1) =>
                 g[i] = PlaceDigits(i, base, uppercase, m + 1)
        BY <1>0, <2>1, DivisionFindsDigits
      <3> QED
        BY <1>0, <2>2, <2>3, <3>1
    <2> QED
      BY <1>2, <2>1, <2>4 DEF e
  <1> QED
    BY <1>1, <1>2

\* Padding puts zeros in front.
LEMMA PaddedPlaces ==
    ASSUME NEW n \in Words, NEW base \in 10 .. 16, NEW uppercase, NEW width \in Int
    PROVE  [i \in 1 .. width - Enough(n, base) |-> "0"]
              \o PlaceDigits(n, base, uppercase, Enough(n, base))
           = Numeral(n, base, uppercase, width)
  <1> DEFINE e == Enough(n, base)
             z == [i \in 1 .. width - e |-> "0"]
             d == PlaceDigits(n, base, uppercase, e)
             places == IF width > e THEN width ELSE e
             numeral == [i \in 1 .. places |->
                           IF places - i >= e THEN "0"
                           ELSE Digit((n \div Power(base, places - i)) % base, uppercase)]
  <1>1. e \in Nat \ {0} /\ n \in Nat /\ base \in 2 .. 16
    BY EnoughFacts DEF Words
  <1>2. Numeral(n, base, uppercase, width) = numeral
    BY DEF Numeral, Enough
  <1>3. d \in Seq(Digits) /\ Len(d) = e
    BY <1>1, PlaceTypes
  <1>4. \A i \in 1 .. e : d[i] = Digit((n \div Power(base, e - i)) % base, uppercase)
    BY DEF PlaceDigits
  <1> HIDE DEF d, e
  <1>5. CASE width > e
    <2>1. z \in Seq(Digits) /\ Len(z) = width - e
      <3>1. width - e \in Nat /\ "0" \in Digits
        BY <1>1, <1>5 DEF Digits
      <3> QED
        BY <3>1
    <2>2. \A i \in 1 .. width - e : z[i] = "0"
      OBVIOUS
    <2> HIDE DEF z
    <2>3. /\ z \o d \in Seq(Digits) /\ Len(z \o d) = width
          /\ \A i \in 1 .. width : (z \o d)[i] = IF i <= width - e THEN z[i] ELSE d[i - (width - e)]
      <3>1. Len(z) + Len(d) = width
        BY <1>1, <1>3, <2>1
      <3>2. /\ z \o d \in Seq(Digits) /\ Len(z \o d) = Len(z) + Len(d)
            /\ \A i \in 1 .. Len(z) + Len(d) :
                  (z \o d)[i] = IF i <= Len(z) THEN z[i] ELSE d[i - Len(z)]
        BY <1>3, <2>1, ConcatProperties
      <3> QED
        BY <2>1, <3>1, <3>2
    <2>4. places = width
      BY <1>5
    <2>5. ASSUME NEW i \in 1 .. width PROVE (z \o d)[i] = numeral[i]
      <3>1. numeral[i] = IF width - i >= e THEN "0"
                         ELSE Digit((n \div Power(base, width - i)) % base, uppercase)
        BY <2>4
      <3> HIDE DEF numeral
      <3>2. CASE i <= width - e
        BY <1>1, <2>2, <2>3, <3>1, <3>2
      <3>3. CASE ~(i <= width - e)
        <4>1. i - (width - e) \in 1 .. e /\ e - (i - (width - e)) = width - i /\ ~(width - i >= e)
          BY <1>1, <3>3
        <4>2. (z \o d)[i] = d[i - (width - e)]
          BY <2>3, <3>3
        <4> QED
          BY <1>4, <3>1, <4>1, <4>2
      <3> QED
        BY <3>2, <3>3
    <2>6. z \o d = [i \in 1 .. width |-> (z \o d)[i]]
      BY <2>3, SeqFunction
    <2>7. numeral = [i \in 1 .. width |-> numeral[i]]
      BY <2>4
    <2> HIDE DEF numeral
    <2> QED
      BY <1>2, <2>5, <2>6, <2>7 DEF z, d, e
  <1>6. CASE ~(width > e)
    <2>1. z = << >>
      <3>1. 1 .. width - e = {}
        BY <1>1, <1>6
      <3> QED
        BY <3>1
    <2>2. z \o d = d
      BY <1>3, <2>1, ConcatEmptySeq
    <2>3. places = e
      BY <1>6
    <2>4. ASSUME NEW i \in 1 .. e PROVE d[i] = numeral[i]
      BY <1>1, <1>4, <2>3
    <2>5. d = [i \in 1 .. e |-> d[i]]
      BY <1>3
    <2>6. numeral = [i \in 1 .. e |-> numeral[i]]
      BY <2>3
    <2> HIDE DEF numeral, z
    <2> QED
      BY <1>2, <2>2, <2>4, <2>5, <2>6 DEF z, d, e
  <1> QED
    BY <1>5, <1>6

\* A numeral consists of digits, at least one, and is padded to its width.
LEMMA NumeralTypes ==
    ASSUME NEW n \in Words, NEW base \in 10 .. 16, NEW uppercase, NEW width \in Int
    PROVE  /\ Numeral(n, base, uppercase, width) \in Seq(Digits)
           /\ Len(Numeral(n, base, uppercase, width)) \in Nat \ {0}
           /\ width > Enough(n, base) => Len(Numeral(n, base, uppercase, width)) = width
           /\ width <= Enough(n, base) =>
                 Numeral(n, base, uppercase, width)
                    = PlaceDigits(n, base, uppercase, Enough(n, base))
  <1> DEFINE e == Enough(n, base)
             d == PlaceDigits(n, base, uppercase, e)
             z == [i \in 1 .. width - e |-> "0"]
             r == Numeral(n, base, uppercase, width)
  <1>1. e \in Nat \ {0} /\ d \in Seq(Digits) /\ Len(d) = e
    <2>1. e \in Nat \ {0} /\ n \in Nat /\ base \in 2 .. 16
      BY EnoughFacts DEF Words
    <2> HIDE DEF e
    <2> QED
      BY <2>1, PlaceTypes
  <1>2. r = z \o d
    BY PaddedPlaces
  <1> HIDE DEF e, d, r
  <1>3. CASE width > e
    <2>1. width - e \in Nat /\ "0" \in Digits
      BY <1>1, <1>3 DEF Digits
    <2>2. z \in Seq(Digits) /\ Len(z) = width - e
      BY <2>1
    <2> HIDE DEF z
    <2>3. r \in Seq(Digits) /\ Len(r) = Len(z) + Len(d)
      BY <1>1, <1>2, <2>2, ConcatProperties
    <2>4. Len(r) = width
      BY <1>1, <2>2, <2>3
    <2> QED
      BY <1>1, <1>3, <2>3, <2>4 DEF r, e
  <1>4. CASE ~(width > e)
    <2>1. z = << >>
      <3>1. 1 .. width - e = {}
        BY <1>1, <1>4
      <3> QED
        BY <3>1
    <2> HIDE DEF z
    <2>2. r = d
      BY <1>1, <1>2, <2>1, ConcatEmptySeq
    <2> QED
      BY <1>1, <1>4, <2>2 DEF r, e, d
  <1> QED
    BY <1>3, <1>4

\* The conversions of unsigned and of signed numbers are right.
LEMMA UnsignedRight ==
    ASSUME NEW n \in Words, NEW base \in 10 .. 16, NEW uppercase, NEW width \in Int
    PROVE  kprint_unsigned_padded(n, base, uppercase, width) = Numeral(n, base, uppercase, width)
  <1> DEFINE e == Enough(n, base)
             d == PlaceDigits(n, base, uppercase, e)
             digits == IF n = 0 THEN << "0" >> ELSE DigitsOf(n, base, uppercase)
  <1>1. digits = d
    BY PlainDigits
  <1>2. Len(d) = e
    <2>1. e \in Nat \ {0} /\ n \in Nat /\ base \in 2 .. 16
      BY EnoughFacts DEF Words
    <2> HIDE DEF e
    <2> QED
      BY <2>1, PlaceTypes
  <1>3. kprint_unsigned_padded(n, base, uppercase, width)
           = [i \in 1 .. width - Len(digits) |-> "0"] \o digits
    BY DEF kprint_unsigned_padded
  <1>4. [i \in 1 .. width - e |-> "0"] \o d = Numeral(n, base, uppercase, width)
    BY PaddedPlaces
  <1> HIDE DEF e, d, digits
  <1> QED
    BY <1>1, <1>2, <1>3, <1>4

\* kprint_number_padded, the lowest number included, whose negation wraps.
LEMMA SignedRight ==
    ASSUME NEW n \in -(Word \div 2) .. (Word \div 2) - 1, NEW width \in Int
    PROVE  kprint_number_padded(n, width) = SignedNumeral(n, width)
  <1> USE FormatAssumption
  <1>1. CASE n < 0
    <2>1. -n \in Words /\ Word \in Nat \ {0} /\ -n \in 0 .. Word - 1
      BY <1>1 DEF Words
    <2>2. (-n) % Word = -n
      BY <2>1, ModSmall
    <2>3. kprint_unsigned_padded(-n, 10, FALSE, width - 1) = Numeral(-n, 10, FALSE, width - 1)
      <3>1. 10 \in 10 .. 16 /\ width - 1 \in Int
        OBVIOUS
      <3> QED
        BY <2>1, <3>1, UnsignedRight, Zenon
    <2> QED
      BY <1>1, <2>2, <2>3 DEF kprint_number_padded, SignedNumeral
  <1>2. CASE ~(n < 0)
    <2>1. n \in Words
      BY <1>2 DEF Words
    <2>2. kprint_unsigned_padded(n, 10, FALSE, width) = Numeral(n, 10, FALSE, width)
      <3>1. 10 \in 10 .. 16
        OBVIOUS
      <3> QED
        BY <2>1, <3>1, UnsignedRight, Zenon
    <2> QED
      BY <1>2, <2>2 DEF kprint_number_padded, SignedNumeral
  <1> QED
    BY <1>1, <1>2

\* So are the masks and shifts of print_hex.
LEMMA HexValues ==
    ASSUME NEW n \in Words
    PROVE  LET value[i \in 0 .. HexDigits] == IF i = 0 THEN n ELSE value[i - 1] \div 16
           IN  \A i \in 0 .. HexDigits : value[i] = n \div Power(16, i)
  <1> USE PanicAssumption
  <1> DEFINE Is(f) == f = [i \in 0 .. HexDigits |-> IF i = 0 THEN n ELSE f[i - 1] \div 16]
             h == CHOOSE f : Is(f)
             f0 == [i \in 0 .. HexDigits |-> n \div Power(16, i)]
  <1>1. n \div Power(16, 0) = n
    <2>1. Power(16, 0) = 1
      BY PowerFacts
    <2>2. n \div 1 = n
      BY DEF Words
    <2> QED
      BY <2>1, <2>2
  <1>2. ASSUME NEW i \in Nat
        PROVE  n \div Power(16, i + 1) = (n \div Power(16, i)) \div 16
    <2>1. Power(16, i) \in Nat \ {0} /\ Power(16, i + 1) = 16 * Power(16, i)
      <3>1. 16 \in Nat \ {0}
        OBVIOUS
      <3> QED
        BY <3>1, PowerFacts
    <2>2. n \in Nat /\ 16 \in Nat \ {0}
      BY DEF Words
    <2>3. n \div (16 * Power(16, i)) = (n \div Power(16, i)) \div 16
      BY ONLY <2>1, <2>2, DivDiv
    <2> QED
      BY <2>1, <2>3
  <1>3. Is(f0)
    <2>1. ASSUME NEW i \in 0 .. HexDigits PROVE f0[i] = IF i = 0 THEN n ELSE f0[i - 1] \div 16
      <3>1. CASE i = 0
        BY <1>1, <3>1
      <3>2. CASE i # 0
        <4>1. i - 1 \in Nat /\ i - 1 \in 0 .. HexDigits /\ (i - 1) + 1 = i
          BY <3>2
        <4>2. f0[i] = n \div Power(16, i) /\ f0[i - 1] = n \div Power(16, i - 1)
          BY <4>1
        <4> HIDE DEF f0
        <4> QED
          BY <1>2, <3>2, <4>1, <4>2
      <3> QED
        BY <3>1, <3>2
    <2>2. f0 = [i \in 0 .. HexDigits |-> f0[i]]
      OBVIOUS
    <2> HIDE DEF f0
    <2> QED
      BY <2>1, <2>2
  <1> HIDE DEF f0
  <1>4. Is(h)
    <2> HIDE DEF Is
    <2> QED
      BY <1>3
  <1> HIDE DEF h
  <1>5. ASSUME NEW i \in 0 .. HexDigits PROVE h[i] = IF i = 0 THEN n ELSE h[i - 1] \div 16
    BY <1>4
  <1> HIDE DEF Is
  <1> DEFINE S == {i \in Nat : i <= HexDigits => h[i] = n \div Power(16, i)}
  <1>6. 0 \in S
    <2>1. 0 \in 0 .. HexDigits
      OBVIOUS
    <2> QED
      BY <1>1, <1>5, <2>1
  <1>7. ASSUME NEW i \in S PROVE i + 1 \in S
    <2> SUFFICES ASSUME i + 1 <= HexDigits PROVE h[i + 1] = n \div Power(16, i + 1)
      OBVIOUS
    <2>1. i + 1 \in 0 .. HexDigits /\ i + 1 # 0 /\ (i + 1) - 1 = i /\ i <= HexDigits /\ i \in Nat
      OBVIOUS
    <2>2. h[i + 1] = h[(i + 1) - 1] \div 16 /\ h[i] = n \div Power(16, i)
      BY <1>5, <2>1
    <2> HIDE DEF S
    <2> QED
      BY <1>2, <2>1, <2>2
  <1>8. S = Nat
    <2>1. S \in SUBSET Nat
      OBVIOUS
    <2> HIDE DEF S
    <2> QED
      BY <1>6, <1>7, <2>1, SimpleInduction
  <1>9. \A i \in 0 .. HexDigits : h[i] = n \div Power(16, i)
    BY <1>8
  <1> QED
    BY <1>9 DEF h, Is

\* Eight hexadecimal digits are enough for every word.
LEMMA HexEnough ==
    ASSUME NEW n \in Words
    PROVE  Enough(n, 16) \in 1 .. HexDigits
  <1> USE PanicAssumption, FormatAssumption
  <1>1. Enough(n, 16) \in 1 .. MostDigits
    BY EnoughFacts
  <1>2. CASE HexDigits <= MostDigits
    <2>1. HexDigits \in 1 .. MostDigits /\ n < Power(16, HexDigits)
      BY <1>2 DEF Words
    <2>2. Enough(n, 16) <= HexDigits
      BY <2>1, EnoughFacts
    <2> QED
      BY <1>1, <2>2
  <1>3. CASE ~(HexDigits <= MostDigits)
    BY <1>1, <1>3
  <1> QED
    BY <1>2, <1>3

\* print_hex writes the eight digits of every word, zeros in front included.
LEMMA HexRight ==
    ASSUME NEW n \in Words
    PROVE  print_hex(n) = << [format |-> << "0x" >>, args |-> << >>] >>
                          \o << [format |-> Numeral(n, 16, TRUE, HexDigits), args |-> << >>] >>
  <1> USE PanicAssumption
  <1> DEFINE e == Enough(n, 16)
             h == CHOOSE f : f = [i \in 0 .. HexDigits |-> IF i = 0 THEN n ELSE f[i - 1] \div 16]
             buffer == [i \in 1 .. HexDigits |-> Digit(h[HexDigits - i] % 16, TRUE)]
             numeral == [i \in 1 .. HexDigits |->
                           IF HexDigits - i >= e THEN "0"
                           ELSE Digit((n \div Power(16, HexDigits - i)) % 16, TRUE)]
  <1>1. \A i \in 0 .. HexDigits : h[i] = n \div Power(16, i)
    BY HexValues
  <1>2. print_hex(n) = << [format |-> << "0x" >>, args |-> << >>] >>
                          \o << [format |-> buffer, args |-> << >>] >>
    BY DEF print_hex, Say
  <1>3. e \in 1 .. HexDigits
    BY HexEnough
  <1>4. Numeral(n, 16, TRUE, HexDigits) = numeral
    <2> DEFINE places == IF HexDigits > e THEN HexDigits ELSE e
    <2>1. places = HexDigits
      <3> HIDE DEF e
      <3> QED
        BY <1>3
    <2>2. Numeral(n, 16, TRUE, HexDigits)
             = [i \in 1 .. places |->
                   IF places - i >= e THEN "0"
                   ELSE Digit((n \div Power(16, places - i)) % 16, TRUE)]
      BY DEF Numeral, Enough
    <2> HIDE DEF places
    <2> QED
      BY <2>1, <2>2
  <1> HIDE DEF h, e
  <1>5. ASSUME NEW i \in 1 .. HexDigits PROVE buffer[i] = numeral[i]
    <2>1. HexDigits - i \in 0 .. HexDigits /\ HexDigits - i \in Nat
      OBVIOUS
    <2>2. buffer[i] = Digit((n \div Power(16, HexDigits - i)) % 16, TRUE)
      BY <1>1, <2>1
    <2>3. HexDigits - i >= e => Digit((n \div Power(16, HexDigits - i)) % 16, TRUE) = "0"
      <3>1. 16 \in 10 .. 16
        OBVIOUS
      <3> QED
        BY <2>1, <3>1, ZerosBefore, Zenon DEF e
    <2> HIDE DEF buffer
    <2> QED
      BY <2>2, <2>3
  <1>6. buffer = numeral
    <2>1. buffer = [i \in 1 .. HexDigits |-> buffer[i]] /\ numeral = [i \in 1 .. HexDigits |-> numeral[i]]
      OBVIOUS
    <2> HIDE DEF buffer, numeral
    <2> QED
      BY <1>5, <2>1
  <1> HIDE DEF buffer, numeral
  <1> QED
    BY <1>2, <1>4, <1>6, Zenon

-----------------------------------------------------------------------------
(***************************************************************************)
(* Sequences joined one after the other.                                   *)
(***************************************************************************)
Joins(g, ss, S) ==
    /\ g \in [0 .. Len(ss) -> Seq(S)]
    /\ g[0] = << >>
    /\ \A i \in 1 .. Len(ss) : g[i] = g[i - 1] \o ss[i]

\* Such a function exists for all pieces.
LEMMA JoinsExist ==
    ASSUME NEW S, NEW ss \in Seq(Seq(S))
    PROVE  \E g : Joins(g, ss, S)
  <1> DEFINE p == [i \in Nat |-> IF i = 0 THEN 0 ELSE i - 1]
             next(i) == IF i \in 1 .. Len(ss) THEN ss[i] ELSE << >>
             step == [i \in Nat |-> [s \in Seq(S) |-> s \o next(i)]]
  <1>1. p \in [Nat -> Nat] /\ \A i \in Nat \ {0} : p[i] < i
    OBVIOUS
  <1>2. step \in [Nat -> [Seq(S) -> Seq(S)]]
    <2>1. ASSUME NEW i \in Nat PROVE next(i) \in Seq(S)
      BY ElementOfSeq, EmptySeq
    <2> HIDE DEF next
    <2>2. ASSUME NEW i \in Nat, NEW s \in Seq(S) PROVE s \o next(i) \in Seq(S)
      BY <2>1, ConcatProperties
    <2> QED
      BY <2>2
  <1>3. << >> \in Seq(S)
    OBVIOUS
  <1>4. PICK g : Solves(g, Seq(S), << >>, p, step)
    <2> HIDE DEF p, step
    <2>1. IsRecursion(Seq(S), << >>, p, step)
      BY <1>1, <1>2, <1>3 DEF IsRecursion
    <2> QED
      BY <2>1, RecursionExists
  <1>5. g[0] = << >> /\ \A i \in Nat : g[i] \in Seq(S)
    BY <1>4 DEF Solves
  <1>6. ASSUME NEW i \in 1 .. Len(ss) PROVE g[i] = g[i - 1] \o ss[i]
    <2>1. i \in Nat \ {0} /\ p[i] = i - 1 /\ i - 1 \in Nat
      OBVIOUS
    <2>2. g[i] = step[i][g[p[i]]]
      <3> HIDE DEF p, step
      <3> QED
        BY <1>4, <2>1 DEF Solves
    <2>3. next(i) = ss[i]
      OBVIOUS
    <2> HIDE DEF p, next
    <2>4. step[i][g[i - 1]] = g[i - 1] \o next(i)
      BY <1>5, <2>1
    <2> QED
      BY <2>1, <2>2, <2>3, <2>4
  <1> DEFINE h == [i \in 0 .. Len(ss) |-> g[i]]
  <1>7. Len(ss) \in Nat
    OBVIOUS
  <1>8. h \in [0 .. Len(ss) -> Seq(S)] /\ h[0] = << >>
    BY <1>5, <1>7
  <1>9. ASSUME NEW i \in 1 .. Len(ss) PROVE h[i] = h[i - 1] \o ss[i]
    <2>1. i - 1 \in 0 .. Len(ss) /\ i \in 0 .. Len(ss)
      BY <1>7
    <2> QED
      BY <1>6, <2>1
  <1> HIDE DEF h
  <1> QED
    BY <1>8, <1>9 DEF Joins

\* Its last value is what FlattenSeq, a fold over the pieces, yields.
LEMMA FlattenJoins ==
    ASSUME NEW S, NEW ss \in Seq(Seq(S)), NEW g, Joins(g, ss, S)
    PROVE  FlattenSeq(ss) = g[Len(ss)]
  <1> DEFINE n == Len(ss)
  <1>0. n \in Nat
    OBVIOUS
  <1>1. CASE n = 0
    <2>1. ss = << >>
      BY <1>1, EmptySeq
    <2>2. FlattenSeq(ss) = ss
      BY <1>1 DEF FlattenSeq
    <2> QED
      BY <1>1, <2>1, <2>2 DEF Joins
  <1>2. CASE n # 0
    <2> DEFINE Is(f) == f = [i \in 1 .. n |-> IF i = 1 THEN ss[i] ELSE f[i - 1] \o ss[i]]
               h == CHOOSE f : Is(f)
               f0 == [i \in 1 .. n |-> g[i]]
    <2>0. FlattenSeq(ss) = h[n]
      BY <1>2 DEF FlattenSeq
    <2> HIDE DEF n
    <2>1. ASSUME NEW i \in 1 .. n PROVE g[i] = IF i = 1 THEN ss[i] ELSE g[i - 1] \o ss[i]
      <3>1. g[i] = g[i - 1] \o ss[i]
        BY DEF Joins, n
      <3>2. CASE i = 1
        <4>1. ss[i] \in Seq(S)
          BY ElementOfSeq DEF n
        <4>2. g[i - 1] = << >>
          BY <3>2 DEF Joins
        <4> QED
          BY <3>1, <3>2, <4>1, <4>2, ConcatEmptySeq
      <3> QED
        BY <3>1, <3>2
    <2>2. Is(f0)
      <3>1. ASSUME NEW i \in 1 .. n
            PROVE  f0[i] = IF i = 1 THEN ss[i] ELSE f0[i - 1] \o ss[i]
        <4>1. CASE i = 1
          BY <2>1, <4>1
        <4>2. CASE i # 1
          <5>1. i - 1 \in 1 .. n
            BY <1>0, <4>2
          <5>2. f0[i] = g[i] /\ f0[i - 1] = g[i - 1]
            BY <5>1
          <5> HIDE DEF f0
          <5> QED
            BY <2>1, <4>2, <5>2
        <4> QED
          BY <4>1, <4>2
      <3>2. f0 = [i \in 1 .. n |-> f0[i]]
        OBVIOUS
      <3> HIDE DEF f0
      <3> QED
        BY <3>1, <3>2
    <2>3. Is(h)
      <3> HIDE DEF Is, f0
      <3> QED
        BY <2>2
    <2> HIDE DEF h
    <2>4. ASSUME NEW i \in 1 .. n PROVE h[i] = IF i = 1 THEN ss[i] ELSE h[i - 1] \o ss[i]
      BY <2>3
    <2> HIDE DEF Is, f0
    <2> DEFINE T == {i \in Nat : i \in 1 .. n => h[i] = g[i]}
    <2>5. 0 \in T
      OBVIOUS
    <2>6. ASSUME NEW i \in T PROVE i + 1 \in T
      <3> SUFFICES ASSUME i + 1 \in 1 .. n PROVE h[i + 1] = g[i + 1]
        OBVIOUS
      <3>1. i \in Nat /\ (i + 1) - 1 = i /\ (i \in 1 .. n => h[i] = g[i])
        OBVIOUS
      <3>2. CASE i = 0
        <4>1. h[1] = ss[1] /\ g[1] = ss[1]
          <5>1. 1 \in 1 .. n
            BY <3>2
          <5> QED
            BY <2>1, <2>4, <5>1
        <4> QED
          BY <3>2, <4>1
      <3>3. CASE i # 0
        <4>1. i \in 1 .. n /\ i + 1 # 1
          BY <1>0, <3>1, <3>3
        <4> HIDE DEF T
        <4> QED
          BY <2>1, <2>4, <3>1, <4>1
      <3> QED
        BY <3>2, <3>3
    <2>7. T = Nat
      <3>1. T \in SUBSET Nat
        OBVIOUS
      <3> HIDE DEF T
      <3> QED
        BY <2>5, <2>6, <3>1, SimpleInduction
    <2>8. n \in 1 .. n
      BY <1>0, <1>2
    <2>9. h[n] = g[n]
      BY <1>0, <2>7, <2>8
    <2> QED
      BY <2>0, <2>9 DEF n
  <1> QED
    BY <1>1, <1>2

\* The first k sequences joined.
Joined(ss, k) == FlattenSeq([i \in 1 .. k |-> ss[i]])

\* The first k pieces joined, from none to all of them.
LEMMA JoinedFacts ==
    ASSUME NEW S, NEW ss \in Seq(Seq(S))
    PROVE  /\ Joined(ss, 0) = << >>
           /\ Joined(ss, Len(ss)) = FlattenSeq(ss)
           /\ \A k \in 0 .. Len(ss) : Joined(ss, k) \in Seq(S)
           /\ \A k \in 1 .. Len(ss) : Joined(ss, k) = Joined(ss, k - 1) \o ss[k]
  <1>0. Len(ss) \in Nat
    OBVIOUS
  <1>1. PICK g : Joins(g, ss, S)
    BY JoinsExist
  <1>2. ASSUME NEW k \in 0 .. Len(ss) PROVE Joined(ss, k) = g[k]
    <2> DEFINE first == [i \in 1 .. k |-> ss[i]]
               h == [i \in 0 .. k |-> g[i]]
    <2>1. first \in Seq(Seq(S)) /\ Len(first) = k
      <3>1. k \in Nat /\ \A i \in 1 .. k : ss[i] \in Seq(S)
        BY <1>0, ElementOfSeq
      <3> QED
        BY <3>1
    <2>2. \A i \in 1 .. k : first[i] = ss[i]
      OBVIOUS
    <2>3. h \in [0 .. k -> Seq(S)] /\ h[0] = << >> /\ h[k] = g[k]
      BY <1>0, <1>1 DEF Joins
    <2>4. ASSUME NEW i \in 1 .. k PROVE h[i] = h[i - 1] \o ss[i]
      <3>1. i - 1 \in 0 .. k /\ i \in 0 .. k /\ i \in 1 .. Len(ss)
        BY <1>0
      <3> QED
        BY <1>1, <3>1 DEF Joins
    <2> HIDE DEF first, h
    <2>5. Joins(h, first, S)
      BY <2>1, <2>2, <2>3, <2>4 DEF Joins
    <2>6. FlattenSeq(first) = h[Len(first)]
      BY <2>1, <2>5, FlattenJoins
    <2> QED
      BY <2>1, <2>3, <2>6 DEF Joined, first
  <1>3. ss = [i \in 1 .. Len(ss) |-> ss[i]]
    BY SeqFunction
  <1>4. Joined(ss, Len(ss)) = FlattenSeq(ss)
    BY <1>3 DEF Joined
  <1>5. \A k \in 1 .. Len(ss) : k \in 0 .. Len(ss) /\ k - 1 \in 0 .. Len(ss)
    BY <1>0
  <1>6. Joined(ss, 0) = << >>
    <2>1. 0 \in 0 .. Len(ss) /\ g[0] = << >>
      BY <1>0, <1>1 DEF Joins
    <2> QED
      BY <1>2, <2>1
  <1>7. ASSUME NEW k \in 0 .. Len(ss) PROVE Joined(ss, k) \in Seq(S)
    <2>1. g[k] \in Seq(S)
      BY <1>1 DEF Joins
    <2> QED
      BY <1>2, <2>1
  <1>8. ASSUME NEW k \in 1 .. Len(ss) PROVE Joined(ss, k) = Joined(ss, k - 1) \o ss[k]
    <2>1. g[k] = g[k - 1] \o ss[k]
      BY <1>1 DEF Joins
    <2> QED
      BY <1>2, <1>5, <2>1
  <1> QED
    BY <1>4, <1>6, <1>7, <1>8

\* What follows the first k of them.
LEMMA JoinedRest ==
    ASSUME NEW S, NEW ss \in Seq(Seq(S)), NEW k \in 0 .. Len(ss)
    PROVE  \E rest \in Seq(S) : FlattenSeq(ss) = Joined(ss, k) \o rest
  <1> DEFINE n == Len(ss)
             T == {i \in Nat : k + i <= n => \E rest \in Seq(S) : Joined(ss, k + i) = Joined(ss, k) \o rest}
  <1>0. n \in Nat /\ k \in Nat /\ k <= n
    OBVIOUS
  <1>1. 0 \in T
    <2>1. Joined(ss, k) \in Seq(S)
      BY JoinedFacts
    <2>2. Joined(ss, k) = Joined(ss, k) \o << >> /\ << >> \in Seq(S)
      BY <2>1, ConcatEmptySeq
    <2>3. k + 0 = k
      BY <1>0
    <2>4. \E rest \in Seq(S) : Joined(ss, k + 0) = Joined(ss, k) \o rest
      BY <2>2, <2>3, Zenon
    <2> HIDE DEF n
    <2> QED
      BY <2>4
  <1>2. ASSUME NEW i \in T PROVE i + 1 \in T
    <2> SUFFICES ASSUME k + (i + 1) <= n
                 PROVE  \E rest \in Seq(S) : Joined(ss, k + (i + 1)) = Joined(ss, k) \o rest
      <3>1. i + 1 \in Nat
        OBVIOUS
      <3> QED
        BY <3>1, Zenon
    <2>1. i \in Nat /\ k + i <= n /\ k + (i + 1) \in 1 .. n /\ (k + (i + 1)) - 1 = k + i
      BY <1>0
    <2>2. PICK rest \in Seq(S) : Joined(ss, k + i) = Joined(ss, k) \o rest
      BY <2>1
    <2> HIDE DEF T
    <2>3. Joined(ss, k + (i + 1)) = Joined(ss, k + i) \o ss[k + (i + 1)]
      BY <2>1, JoinedFacts
    <2>4. ss[k + (i + 1)] \in Seq(S) /\ Joined(ss, k) \in Seq(S)
      BY <2>1, ElementOfSeq, JoinedFacts
    <2>5. (Joined(ss, k) \o rest) \o ss[k + (i + 1)] = Joined(ss, k) \o (rest \o ss[k + (i + 1)])
      <3> DEFINE a == Joined(ss, k)
                 b == ss[k + (i + 1)]
      <3> HIDE DEF a, b
      <3>1. a \in Seq(S) /\ b \in Seq(S)
        BY <2>4 DEF a, b
      <3>2. (a \o rest) \o b = a \o (rest \o b)
        <4>1. Cat(Cat(a, rest), b) = Cat(a, Cat(rest, b))
          BY ONLY <3>1, rest \in Seq(S), CatAssociative
        <4> QED
          BY ONLY <4>1, Zenon DEF Cat
      <3> QED
        BY <3>2 DEF a, b
    <2>6. rest \o ss[k + (i + 1)] \in Seq(S)
      BY <2>4, ConcatProperties
    <2> QED
      BY <2>2, <2>3, <2>5, <2>6
  <1>3. T = Nat
    <2>1. T \in SUBSET Nat
      OBVIOUS
    <2> HIDE DEF T
    <2> QED
      BY <1>1, <1>2, <2>1, SimpleInduction
  <1>4. n - k \in T /\ k + (n - k) = n
    <2>1. n - k \in Nat /\ k + (n - k) = n
      BY <1>0
    <2> HIDE DEF T
    <2> QED
      BY <1>3, <2>1
  <1>5. \E rest \in Seq(S) : Joined(ss, n) = Joined(ss, k) \o rest
    <2>1. k + (n - k) <= n
      BY <1>0
    <2> HIDE DEF n
    <2> QED
      BY <1>4, <2>1
  <1> QED
    BY <1>5, JoinedFacts

\* What follows a prefix is determined.
LEMMA Cancel ==
    ASSUME NEW S, NEW a \in Seq(S), NEW s \in Seq(S), NEW t \in Seq(S), a \o s = a \o t
    PROVE  s = t
  <1>1. Len(s) = Len(t)
    <2>1. Len(a \o s) = Len(a) + Len(s) /\ Len(a \o t) = Len(a) + Len(t)
      BY ConcatProperties
    <2>2. Len(a) \in Nat /\ Len(s) \in Nat /\ Len(t) \in Nat
      OBVIOUS
    <2> QED
      BY <2>1, <2>2
  <1>2. ASSUME NEW i \in 1 .. Len(s) PROVE s[i] = t[i]
    <2>1. /\ Len(a) \in Nat /\ Len(s) \in Nat /\ Len(a) + i \in 1 .. Len(a) + Len(s)
          /\ ~(Len(a) + i <= Len(a)) /\ (Len(a) + i) - Len(a) = i
      OBVIOUS
    <2>2. (a \o s)[Len(a) + i] = s[i]
      BY <2>1, ConcatProperties
    <2>3. (a \o t)[Len(a) + i] = t[i]
      BY <1>1, <2>1, ConcatProperties
    <2> QED
      BY <2>2, <2>3
  <1> QED
    BY <1>1, <1>2, SeqEqual

\* What is left when the front is taken away.
LEMMA DropFront ==
    ASSUME NEW S, NEW f \in Seq(S), NEW r \in Seq(S)
    PROVE  SubSeq(f \o r, Len(f) + 1, Len(f \o r)) = r
  <1> DEFINE s == f \o r
             t == SubSeq(s, Len(f) + 1, Len(s))
  <1>1. /\ s \in Seq(S) /\ Len(s) = Len(f) + Len(r)
        /\ \A i \in 1 .. Len(f) + Len(r) : s[i] = IF i <= Len(f) THEN f[i] ELSE r[i - Len(f)]
    BY ConcatProperties
  <1>2. Len(f) \in Nat /\ Len(r) \in Nat
    OBVIOUS
  <1> HIDE DEF s
  <1>3. /\ t \in Seq(S) /\ Len(t) = Len(r)
        /\ \A i \in 1 .. Len(r) : t[i] = s[Len(f) + i]
    <2>1. CASE Len(r) = 0
      BY <1>1, <1>2, <2>1
    <2>2. CASE Len(r) # 0
      BY <1>1, <1>2, <2>2
    <2> QED
      BY <2>1, <2>2
  <1>4. ASSUME NEW i \in 1 .. Len(r) PROVE t[i] = r[i]
    <2>1. /\ Len(f) + i \in 1 .. Len(f) + Len(r) /\ ~(Len(f) + i <= Len(f))
          /\ (Len(f) + i) - Len(f) = i
      BY <1>2
    <2> HIDE DEF t
    <2> QED
      BY <1>1, <1>3, <2>1
  <1> HIDE DEF t
  <1>5. t = r
    BY <1>3, <1>4, SeqEqual
  <1> QED
    BY <1>5 DEF t, s

\* The first elements of a sequence.
LEMMA FrontOne ==
    ASSUME NEW S, NEW a \in S, NEW r \in Seq(S)
    PROVE  /\ << a >> \o r \in Seq(S) /\ << a >> \o r # << >>
           /\ Len(<< a >> \o r) = Len(r) + 1
           /\ (<< a >> \o r)[1] = a /\ Head(<< a >> \o r) = a
           /\ SubSeq(<< a >> \o r, 2, Len(<< a >> \o r)) = r
  <1>1. << a >> \in Seq(S) /\ Len(<< a >>) = 1
    OBVIOUS
  <1>2. SubSeq(<< a >> \o r, 2, Len(<< a >> \o r)) = r
    <2>1. SubSeq(<< a >> \o r, Len(<< a >>) + 1, Len(<< a >> \o r)) = r
      BY <1>1, DropFront
    <2> QED
      BY <1>1, <2>1
  <1>3. /\ << a >> \o r \in Seq(S) /\ Len(<< a >> \o r) = Len(r) + 1
        /\ (<< a >> \o r)[1] = a
    <2>1. Len(r) \in Nat
      OBVIOUS
    <2> QED
      BY <1>1, <2>1
  <1> QED
    BY <1>2, <1>3

\* The first two elements of a sequence.
LEMMA FrontTwo ==
    ASSUME NEW S, NEW a \in S, NEW b \in S, NEW r \in Seq(S)
    PROVE  /\ << a, b >> \o r \in Seq(S) /\ Len(<< a, b >> \o r) = Len(r) + 2
           /\ (<< a, b >> \o r)[1] = a /\ (<< a, b >> \o r)[2] = b
           /\ SubSeq(<< a, b >> \o r, 3, Len(<< a, b >> \o r)) = r
  <1>1. << a, b >> \in Seq(S) /\ Len(<< a, b >>) = 2
    OBVIOUS
  <1>2. SubSeq(<< a, b >> \o r, 3, Len(<< a, b >> \o r)) = r
    <2>1. SubSeq(<< a, b >> \o r, Len(<< a, b >>) + 1, Len(<< a, b >> \o r)) = r
      BY <1>1, DropFront
    <2> QED
      BY <1>1, <2>1
  <1>3. /\ << a, b >> \o r \in Seq(S) /\ Len(<< a, b >> \o r) = Len(r) + 2
        /\ (<< a, b >> \o r)[1] = a /\ (<< a, b >> \o r)[2] = b
    <2>1. Len(r) \in Nat
      OBVIOUS
    <2> QED
      BY <1>1, <2>1
  <1> QED
    BY <1>2, <1>3

-----------------------------------------------------------------------------
(***************************************************************************)
(* One step of kprintf, by what the format begins with.                    *)
(***************************************************************************)
\* Prints takes what it printed from the format and the arguments it used.
LEMMA PrintsEffect ==
    ASSUME NEW S, NEW f \in Seq(S), NEW r \in Seq(S), format = f \o r,
           NEW T, NEW a \in Seq(T), NEW b \in Seq(T), args = a \o b,
           NEW text, Prints(text, Len(a), Len(f))
    PROVE  out' = out \o text /\ format' = r /\ args' = b
  <1>1. SubSeq(f \o r, Len(f) + 1, Len(f \o r)) = r
    BY DropFront
  <1>2. SubSeq(a \o b, Len(a) + 1, Len(a \o b)) = b
    BY DropFront
  <1> QED
    BY <1>1, <1>2 DEF Prints

\* A character that is no percent sign is printed as it is.
LEMMA LiteralStep ==
    ASSUME kprintf_step, NEW S, format \in Seq(S), format # << >>, format[1] # "%"
    PROVE  Prints(<< format[1] >>, 0, 1) /\ past' = past
  <1>1. Head(format) = format[1]
    OBVIOUS
  <1>2. ~Directive("d") /\ ~Directive("u") /\ ~Directive("x") /\ ~Directive("X") /\ ~Directive("p")
        /\ ~Directive("c") /\ ~Directive("s") /\ ~Directive("%") /\ ~Directive("0")
    BY DEF Directive
  <1>3. Literal
    BY <1>1, <1>2 DEF kprintf_step, Convert, ZeroPadded, Unknown
  <1> QED
    BY <1>1, <1>3 DEF Literal

\* A directive of one letter prints what its conversion of the next argument yields.
LEMMA ConvertStep ==
    ASSUME kprintf_step, NEW S, format \in Seq(S), Len(format) >= 2, format[1] = "%",
           format[2] \in Conversions \ {"0"}
    PROVE  /\ past' = past
           /\ format[2] = "d" => Prints(kprint_number(args[1]), 1, 2)
           /\ format[2] = "u" => Prints(kprint_unsigned(args[1], 10, FALSE), 1, 2)
           /\ format[2] = "x" => Prints(kprint_unsigned(args[1], 16, FALSE), 1, 2)
           /\ format[2] = "X" => Prints(kprint_unsigned(args[1], 16, TRUE), 1, 2)
           /\ format[2] = "p" =>
                 Prints(<< "0", "x" >> \o kprint_unsigned(args[1], 16, FALSE), 1, 2)
           /\ format[2] = "c" => Prints(<< args[1] >>, 1, 2)
           /\ format[2] = "s" => Prints(IF args[1] = NULL THEN Null ELSE args[1], 1, 2)
           /\ format[2] = "%" => Prints(<< "%" >>, 0, 2)
  <1>1. format # << >> /\ Head(format) = "%" /\ Len(format) # 1
    OBVIOUS
  <1>2. format[2] # "0" /\ format[2] \in Conversions
    OBVIOUS
  <1>3. ~Literal /\ ~ZeroPadded /\ ~Unknown
    BY <1>1, <1>2 DEF Literal, ZeroPadded, Directive, Unknown
  <1>4. Convert
    BY <1>3 DEF kprintf_step
  <1> QED
    BY <1>4 DEF Convert, Directive

\* A zero after the percent sign begins a width.
LEMMA PaddedStep ==
    ASSUME kprintf_step, NEW S, format \in Seq(S), Len(format) >= 2, format[1] = "%",
           format[2] = "0"
    PROVE  ZeroPadded
  <1>1. format # << >> /\ Head(format) = "%" /\ Len(format) # 1
    OBVIOUS
  <1>2. ~Literal /\ ~Unknown
    BY <1>1 DEF Literal, Unknown, Conversions
  <1>3. ~Convert
    BY DEF Convert, Directive
  <1> QED
    BY <1>2, <1>3 DEF kprintf_step

\* Of an unknown directive kprintf prints the percent sign and the letter.
LEMMA UnknownStep ==
    ASSUME kprintf_step, NEW S, format \in Seq(S), format # << >>, format[1] = "%",
           Len(format) >= 2 => format[2] \notin Conversions
    PROVE  IF Len(format) = 1
           THEN Prints(<< "%", "NUL" >>, 0, 1) /\ past' = {"format"}
           ELSE Prints(<< "%", format[2] >>, 0, 2) /\ past' = past
  <1>1. Head(format) = "%"
    OBVIOUS
  <1>2. ~Literal
    BY <1>1 DEF Literal
  <1>3. ~Convert /\ ~ZeroPadded
    BY DEF Convert, ZeroPadded, Directive, Conversions
  <1>4. Unknown
    BY <1>2, <1>3 DEF kprintf_step
  <1> QED
    BY <1>4 DEF Unknown

\* The first character after the digits of a width is where the width ends.
LEMMA WidthEndIs ==
    ASSUME NEW S, format \in Seq(S), NEW k \in 3 .. Len(format) + 1,
           \A i \in 3 .. k - 1 : IsDigit(format[i]),
           k <= Len(format) => ~IsDigit(format[k])
    PROVE  WidthEnd = k
  <1> DEFINE Ends(e) == /\ \A i \in 3 .. e - 1 : IsDigit(format[i])
                        /\ e <= Len(format) => ~IsDigit(format[e])
             l == CHOOSE e \in 3 .. Len(format) + 1 : Ends(e)
  <1>0. Len(format) \in Nat
    OBVIOUS
  <1>1. l \in 3 .. Len(format) + 1 /\ Ends(l)
    <2>1. Ends(k)
      OBVIOUS
    <2> HIDE DEF Ends
    <2> QED
      BY <2>1
  <1>2. WidthEnd = l
    BY DEF WidthEnd
  <1> HIDE DEF l
  <1>3. ~(l < k)
    <2> SUFFICES ASSUME l < k PROVE FALSE
      OBVIOUS
    <2>1. l \in 3 .. k - 1 /\ l <= Len(format)
      BY <1>0, <1>1
    <2> QED
      BY <1>1, <2>1
  <1>4. ~(k < l)
    <2> SUFFICES ASSUME k < l PROVE FALSE
      OBVIOUS
    <2>1. k \in 3 .. l - 1 /\ k <= Len(format)
      BY <1>0, <1>1
    <2> QED
      BY <1>1, <2>1
  <1> QED
    BY <1>0, <1>1, <1>2, <1>3, <1>4

\* Which characters of the directives are digits.
LEMMA DigitOrNot ==
    /\ IsDigit("4")
    /\ ~IsDigit("x") /\ ~IsDigit("X") /\ ~IsDigit("d") /\ ~IsDigit("u")
  <1>1. LowerDigits[5] = "4" /\ 5 \in 1 .. 10
    BY DEF LowerDigits
  <1>2. \A i \in 1 .. 10 : /\ LowerDigits[i] # "x" /\ LowerDigits[i] # "X"
                           /\ LowerDigits[i] # "d" /\ LowerDigits[i] # "u"
    BY DEF LowerDigits
  <1> QED
    BY <1>1, <1>2 DEF IsDigit

\* The digits of a width, and the number read back from them.
LEMMA WidthDigitFacts ==
    ASSUME NEW w \in Words
    PROVE  /\ WidthDigits(w) \in Seq(Digits)
           /\ Len(WidthDigits(w)) = Enough(w, 10)
           /\ \A i \in 1 .. Enough(w, 10) :
                 /\ IsDigit(WidthDigits(w)[i])
                 /\ DigitValue(WidthDigits(w)[i]) = (w \div Power(10, Enough(w, 10) - i)) % 10
  <1> DEFINE e == Enough(w, 10)
  <1>0. e \in Nat \ {0} /\ w \in Nat /\ 10 \in 2 .. 16 /\ 10 \in 10 .. 16 /\ 10 \in Nat \ {0}
    BY EnoughFacts DEF Words
  <1>1. WidthDigits(w) = PlaceDigits(w, 10, FALSE, e)
    <2>1. kprint_unsigned_padded(w, 10, FALSE, 0) = Numeral(w, 10, FALSE, 0)
      <3>1. 0 \in Int
        OBVIOUS
      <3> QED
        BY <1>0, <3>1, UnsignedRight, Zenon
    <2>2. 0 \in Int /\ 0 <= e
      BY <1>0
    <2> HIDE DEF e
    <2>3. Numeral(w, 10, FALSE, 0) = PlaceDigits(w, 10, FALSE, e)
      BY <1>0, <2>2, NumeralTypes, Zenon DEF e
    <2> QED
      BY <2>1, <2>3 DEF WidthDigits, kprint_unsigned
  <1> HIDE DEF e
  <1>2. PlaceDigits(w, 10, FALSE, e) \in Seq(Digits) /\ Len(PlaceDigits(w, 10, FALSE, e)) = e
    <2>1. e \in Nat /\ w \in Nat /\ 10 \in 2 .. 16
      BY <1>0
    <2>2. PICK uppercase : uppercase = FALSE
      OBVIOUS
    <2>3. /\ PlaceDigits(w, 10, uppercase, e) \in Seq(Digits)
          /\ Len(PlaceDigits(w, 10, uppercase, e)) = e
      BY ONLY <2>1, PlaceTypes
    <2> QED
      BY ONLY <2>2, <2>3, Zenon
  <1>3. ASSUME NEW i \in 1 .. e
        PROVE  /\ IsDigit(WidthDigits(w)[i])
               /\ DigitValue(WidthDigits(w)[i]) = (w \div Power(10, e - i)) % 10
    <2> DEFINE d == (w \div Power(10, e - i)) % 10
    <2>1. e - i \in Nat
      BY <1>0
    <2>2. Power(10, e - i) \in Nat \ {0}
      BY <1>0, <2>1, PowerFacts
    <2>3. w \div Power(10, e - i) \in Nat
      BY <1>0, <2>2, DivMod
    <2>4. d \in 0 .. 9
      BY <2>3
    <2>5. WidthDigits(w)[i] = Digit(d, FALSE)
      BY <1>1 DEF PlaceDigits
    <2> HIDE DEF d
    <2>6. IsDigit(Digit(d, FALSE)) /\ DigitValue(Digit(d, FALSE)) = d
      BY <2>4, DecimalDigits
    <2> QED
      BY <2>5, <2>6 DEF d
  <1> QED
    BY <1>1, <1>2, <1>3 DEF e

\* The width is read back as the number whose digits were written.
LEMMA WidthRead ==
    ASSUME NEW w \in Words, NEW S, format \in Seq(S),
           Len(format) >= 2 + Enough(w, 10),
           \A i \in 1 .. Enough(w, 10) : format[2 + i] = WidthDigits(w)[i],
           WidthEnd = 3 + Enough(w, 10)
    PROVE  Width = w
  <1> DEFINE e == Enough(w, 10)
             value(k) == w \div Power(10, e - (k - 2))
             Is(f) == f = [k \in 2 .. WidthEnd - 1 |->
                             IF k = 2 THEN 0 ELSE f[k - 1] * 10 + DigitValue(format[k])]
             h == CHOOSE f : Is(f)
             f0 == [k \in 2 .. 2 + e |-> value(k)]
  <1>0. /\ e \in Nat \ {0} /\ w \in Nat /\ 10 \in 10 .. 16 /\ 10 \in Nat \ {0}
        /\ w < Power(10, e)
    BY ONLY EnoughFacts DEF Words
  <1>1. Width = h[WidthEnd - 1]
    BY DEF Width
  <1>2. WidthEnd - 1 = 2 + e
    <2> HIDE DEF e
    <2> QED
      BY <1>0 DEF e
  <1>3. value(2) = 0 /\ value(2 + e) = w
    <2> HIDE DEF e
    <2>1. e - (2 - 2) = e /\ e - ((2 + e) - 2) = 0
      BY <1>0
    <2>2. Power(10, 0) = 1 /\ Power(10, e) \in Nat \ {0}
      BY <1>0, PowerFacts
    <2>3. w \div 1 = w
      BY <1>0
    <2> DEFINE b == Power(10, e)
    <2>4. w \div b = 0
      <3>1. b \in Nat \ {0} /\ w < b
        BY <1>0, <2>2
      <3> HIDE DEF b
      <3> QED
        BY <1>0, <3>1
    <2>5. value(2) = w \div b
      BY <2>1
    <2>6. value(2 + e) = w \div Power(10, 0)
      BY <2>1, Zenon
    <2> HIDE DEF value, b
    <2> QED
      BY <2>2, <2>3, <2>4, <2>5, <2>6
  <1>4. ASSUME NEW k \in 3 .. 2 + e PROVE value(k) = value(k - 1) * 10 + DigitValue(format[k])
    <2> DEFINE i == k - 2
               b == Power(10, e - i)
    <2> HIDE DEF e
    <2>1. i \in 1 .. e /\ 2 + i = k /\ e - i \in Nat /\ e - ((k - 1) - 2) = (e - i) + 1
      BY <1>0
    <2>2. format[k] = WidthDigits(w)[i]
      <3> HIDE DEF i
      <3> QED
        BY <2>1 DEF e
    <2>3. DigitValue(format[k]) = (w \div b) % 10
      <3> HIDE DEF i
      <3> QED
        BY <2>1, <2>2, WidthDigitFacts DEF e
    <2>4. b \in Nat \ {0} /\ Power(10, (e - i) + 1) = 10 * b
      BY <1>0, <2>1, PowerFacts
    <2>5. value(k) = w \div b /\ value(k - 1) = w \div (10 * b)
      BY <2>1, <2>4
    <2> HIDE DEF b, value, i
    <2>6. w \div (10 * b) = (w \div b) \div 10
      BY ONLY <1>0, <2>4, DivDiv
    <2>7. w \div b \in Nat
      BY <1>0, <2>4, DivMod
    <2> DEFINE q == w \div b
    <2>8. value(k) = q /\ value(k - 1) = q \div 10 /\ DigitValue(format[k]) = q % 10 /\ q \in Nat
      BY <2>3, <2>5, <2>6, <2>7
    <2> HIDE DEF q
    <2>9. q = (q \div 10) * 10 + (q % 10)
      BY <2>8
    <2> QED
      BY <2>8, <2>9
  <1> HIDE DEF value, e
  <1>5. Is(f0)
    <2>1. ASSUME NEW k \in 2 .. 2 + e
          PROVE  f0[k] = IF k = 2 THEN 0 ELSE f0[k - 1] * 10 + DigitValue(format[k])
      <3>1. CASE k = 2
        BY <1>3, <3>1
      <3>2. CASE k # 2
        <4>1. k \in 3 .. 2 + e /\ k - 1 \in 2 .. 2 + e
          BY <1>0, <3>2
        <4>2. f0[k] = value(k) /\ f0[k - 1] = value(k - 1)
          BY <4>1
        <4> HIDE DEF f0
        <4> QED
          BY <1>4, <3>2, <4>1, <4>2
      <3> QED
        BY <3>1, <3>2
    <2>2. f0 = [k \in 2 .. 2 + e |-> f0[k]]
      OBVIOUS
    <2> HIDE DEF f0
    <2>3. f0 = [k \in 2 .. 2 + e |->
                  IF k = 2 THEN 0 ELSE f0[k - 1] * 10 + DigitValue(format[k])]
      BY <2>1, <2>2
    <2> QED
      BY <1>2, <2>3
  <1> HIDE DEF f0
  <1>6. Is(h)
    <2> HIDE DEF Is
    <2> QED
      BY <1>5
  <1> HIDE DEF h
  <1>7. ASSUME NEW k \in 2 .. 2 + e
        PROVE  h[k] = IF k = 2 THEN 0 ELSE h[k - 1] * 10 + DigitValue(format[k])
    <2>1. h = [k1 \in 2 .. 2 + e |->
                 IF k1 = 2 THEN 0 ELSE h[k1 - 1] * 10 + DigitValue(format[k1])]
      BY <1>2, <1>6
    <2> HIDE DEF Is
    <2> QED
      BY <2>1
  <1> HIDE DEF Is
  <1> DEFINE T == {i \in Nat : i <= e => h[2 + i] = value(2 + i)}
  <1>8. 0 \in T
    BY <1>0, <1>3, <1>7
  <1>9. ASSUME NEW i \in T PROVE i + 1 \in T
    <2> SUFFICES ASSUME i + 1 <= e PROVE h[2 + (i + 1)] = value(2 + (i + 1))
      OBVIOUS
    <2>1. /\ i \in Nat /\ i <= e /\ 2 + (i + 1) \in 3 .. 2 + e /\ 2 + (i + 1) \in 2 .. 2 + e
          /\ 2 + (i + 1) # 2 /\ (2 + (i + 1)) - 1 = 2 + i
      BY <1>0, SMTT(30)
    <2>2. h[2 + i] = value(2 + i)
      BY <2>1
    <2> HIDE DEF T
    <2>3. h[2 + (i + 1)] = h[(2 + (i + 1)) - 1] * 10 + DigitValue(format[2 + (i + 1)])
      BY <1>7, <2>1
    <2>4. value(2 + (i + 1)) = value((2 + (i + 1)) - 1) * 10 + DigitValue(format[2 + (i + 1)])
      BY <1>4, <2>1
    <2> QED
      BY <2>1, <2>2, <2>3, <2>4
  <1>10. T = Nat
    <2>1. T \in SUBSET Nat
      OBVIOUS
    <2> HIDE DEF T
    <2> QED
      BY <1>8, <1>9, <2>1, SimpleInduction
  <1>11. h[2 + e] = value(2 + e)
    BY <1>0, <1>10
  <1> QED
    BY <1>1, <1>2, <1>3, <1>11

-----------------------------------------------------------------------------
(***************************************************************************)
(* The directives of main's calls.                                         *)
(***************************************************************************)
Letters == {"%", "d", "u", "x", "X", "p", "c", "s", "l", "n", "(", ")", "-", "text", "NUL"}
Labels ==
    {"0x", "\n", "=== KERNEL PANIC ===", "Exception Number: ", "Fault Address (EIP): ",
     "Error Code: ", "System halted.", "EAX=", "EBX=", "ECX=", "EDX=", "ESP=", "EBP=",
     "ESI=", "EDI=", "EIP=", "CS=", "EFLAGS=", "SS=", "Faulting address: 0x",
     "Error code: 0x", "Page was present ", "Page not present ", "Write access ",
     "Read access ", "User mode ", "Kernel mode ", "Reserved bit violation ",
     "Instruction fetch "}
    \cup {Messages[i] : i \in 1 .. 20}
Chars == Digits \cup Letters \cup Labels
Values == Int \cup {"c", NULL, << "a", "%", "d" >>}

\* A directive consists of characters and values.
TokenTyped(t) ==
    /\ t.format \in Seq(Chars) /\ t.format # << >>
    /\ t.args \in Seq(Values)
    /\ t.shows \in Seq(Chars)

\* kprintf stands at a token, r and b are what comes after it.
At(t, r, b) ==
    /\ r \in Seq(Chars) /\ b \in Seq(Values)
    /\ format = t.format \o r
    /\ args = t.args \o b

\* It is past the token, which has printed what it should, or past the buffer.
Passed(t, r, b) ==
    IF TooWide(t)
    THEN /\ out' = out \o (IF Negative(t) THEN << "-" >> ELSE << >>)
         /\ past' = {"buffer"}
         /\ format' = format /\ args' = args
    ELSE /\ out' = out \o t.shows
         /\ format' = r /\ args' = b
         /\ past' = past

\* Numerals are characters, at least one, and no minus sign stands first.
LEMMA NumeralChars ==
    ASSUME NEW n \in Words, NEW base \in 10 .. 16, NEW uppercase, NEW width \in Int
    PROVE  /\ Numeral(n, base, uppercase, width) \in Seq(Chars)
           /\ Numeral(n, base, uppercase, width) # << >>
           /\ Len(Numeral(n, base, uppercase, width)) \in Nat
           /\ Numeral(n, base, uppercase, width)[1] # "-"
           /\ Numeral(n, base, uppercase, width)[1] # "%"
  <1> DEFINE s == Numeral(n, base, uppercase, width)
  <1>1. s \in Seq(Digits) /\ Len(s) \in Nat \ {0}
    BY NumeralTypes
  <1> HIDE DEF s
  <1>2. Digits \subseteq Chars
    BY DEF Chars
  <1>3. s \in Seq(Chars)
    BY <1>1, <1>2, SeqMonotonic
  <1>4. s[1] \in Digits
    BY <1>1
  <1>5. "-" \notin Digits /\ "%" \notin Digits
    BY DEF Digits
  <1>6. s # << >>
    BY <1>1
  <1> QED
    BY <1>1, <1>3, <1>4, <1>5, <1>6 DEF s

\* So are signed ones, where the minus sign may.
LEMMA SignedChars ==
    ASSUME NEW n \in -(Word \div 2) .. (Word \div 2) - 1, NEW width \in Int
    PROVE  /\ SignedNumeral(n, width) \in Seq(Chars)
           /\ SignedNumeral(n, width) # << >>
           /\ Len(SignedNumeral(n, width)) \in Nat
           /\ SignedNumeral(n, width)[1] = "-" <=> n < 0
           /\ SignedNumeral(n, width)[1] # "%"
  <1> USE FormatAssumption
  <1>0. 10 \in 10 .. 16 /\ width - 1 \in Int
    OBVIOUS
  <1>1. CASE n < 0
    <2> DEFINE s == Numeral(-n, 10, FALSE, width - 1)
    <2>1. -n \in Words
      BY <1>1 DEF Words
    <2>2. s \in Seq(Chars)
      BY <1>0, <2>1, NumeralChars, Zenon
    <2>3. "-" \in Chars
      BY DEF Chars, Letters
    <2>4. SignedNumeral(n, width) = << "-" >> \o s
      BY <1>1 DEF SignedNumeral
    <2> HIDE DEF s
    <2>5. /\ << "-" >> \o s \in Seq(Chars) /\ << "-" >> \o s # << >>
          /\ Len(<< "-" >> \o s) = Len(s) + 1 /\ (<< "-" >> \o s)[1] = "-"
      BY <2>2, <2>3, FrontOne
    <2>6. Len(s) \in Nat
      BY <2>2
    <2> QED
      BY <1>1, <2>4, <2>5, <2>6
  <1>2. CASE ~(n < 0)
    <2>1. n \in Words
      BY <1>2 DEF Words
    <2>2. SignedNumeral(n, width) = Numeral(n, 10, FALSE, width)
      BY <1>2 DEF SignedNumeral
    <2>3. /\ Numeral(n, 10, FALSE, width) \in Seq(Chars)
          /\ Numeral(n, 10, FALSE, width) # << >>
          /\ Len(Numeral(n, 10, FALSE, width)) \in Nat
          /\ Numeral(n, 10, FALSE, width)[1] # "-"
          /\ Numeral(n, 10, FALSE, width)[1] # "%"
      BY <1>0, <2>1, NumeralChars, Zenon
    <2> QED
      BY <1>2, <2>2, <2>3
  <1> QED
    BY <1>1, <1>2

\* A directive of one letter with an argument, and one without.
LEMMA AtConversion ==
    ASSUME NEW t, NEW r, NEW b, At(t, r, b), NEW c \in Chars, NEW v \in Values,
           t.format = << "%", c >>, t.args = << v >>
    PROVE  /\ format \in Seq(Chars) /\ Len(format) >= 2
           /\ format[1] = "%" /\ format[2] = c /\ args[1] = v
           /\ Prints(t.shows, 1, 2) /\ past' = past => Passed(t, r, b)
  <1> DEFINE a == << v >>
             f == << "%", c >>
  <1>1. r \in Seq(Chars) /\ b \in Seq(Values) /\ format = << "%", c >> \o r /\ args = << v >> \o b
    BY DEF At
  <1>2. "%" \in Chars
    BY DEF Chars, Letters
  <1>3. /\ format \in Seq(Chars) /\ Len(format) = Len(r) + 2
        /\ format[1] = "%" /\ format[2] = c
    BY <1>1, <1>2, FrontTwo
  <1>4. Len(r) \in Nat
    BY <1>1
  <1>5. args[1] = v
    BY <1>1, FrontOne
  <1>6. f \in Seq(Chars) /\ Len(f) = 2 /\ a \in Seq(Values) /\ Len(a) = 1
    BY <1>2
  <1>7. ~TooWide(t)
    BY <1>6 DEF TooWide
  <1> HIDE DEF a, f
  <1>8. ASSUME Prints(t.shows, 1, 2) PROVE out' = out \o t.shows /\ format' = r /\ args' = b
    <2>1. format = f \o r /\ args = a \o b
      BY <1>1 DEF a, f
    <2>2. Prints(t.shows, Len(a), Len(f))
      BY <1>6, <1>8
    <2> QED
      BY <1>1, <1>6, <2>1, <2>2, PrintsEffect
  <1> QED
    BY <1>3, <1>4, <1>5, <1>7, <1>8 DEF Passed

\* A directive with a width.
HasWidth(t, c, v, w) ==
    /\ c \in {"x", "X", "d"} /\ v \in Values /\ w \in Words
    /\ t.format = (<< "%", "0" >> \o WidthDigits(w)) \o << c >>
    /\ t.args = << v >>

\* What kprintf reads there: its letter, its argument and its width.
LEMMA AtPadded ==
    ASSUME NEW t, NEW r, NEW b, At(t, r, b), NEW c, NEW v, NEW w, HasWidth(t, c, v, w)
    PROVE  /\ format \in Seq(Chars) /\ Len(format) >= 2
           /\ format[1] = "%" /\ format[2] = "0" /\ args[1] = v
           /\ ~(WidthEnd > Len(format)) /\ format[WidthEnd] = c /\ Width = w
           /\ t.format \in Seq(Chars) /\ Len(t.format) > 2 /\ t.format[2] = "0"
           /\ Prints(t.shows, 1, WidthEnd) => out' = out \o t.shows /\ format' = r /\ args' = b
  <1> DEFINE d == WidthDigits(w)
             e == Enough(w, 10)
             z == << "%", "0" >>
             y == << c >>
             f == (z \o d) \o y
             a == << v >>
  <1>0. c \in {"x", "X", "d"} /\ v \in Values /\ w \in Words
    BY DEF HasWidth
  <1>1. /\ r \in Seq(Chars) /\ b \in Seq(Values) /\ format = f \o r /\ args = a \o b
        /\ t.format = f
    BY DEF At, HasWidth
  <1>2. /\ "%" \in Chars /\ "0" \in Chars /\ c \in Chars /\ Digits \subseteq Chars
        /\ ~IsDigit(c)
    BY <1>0, DigitOrNot DEF Chars, Letters, Digits
  <1>3. /\ d \in Seq(Chars) /\ Len(d) = e /\ e \in Nat \ {0}
        /\ \A i \in 1 .. e : IsDigit(d[i])
    <2>1. d \in Seq(Digits)
      BY <1>0, WidthDigitFacts
    <2>2. d \in Seq(Chars)
      BY <1>2, <2>1, SeqMonotonic
    <2>3. 10 \in 10 .. 16
      OBVIOUS
    <2>4. e \in Nat \ {0}
      BY <1>0, <2>3, EnoughFacts
    <2> QED
      BY <1>0, <2>2, <2>4, WidthDigitFacts
  <1> HIDE DEF d, e
  <1>4. z \in Seq(Chars) /\ Len(z) = 2 /\ z[1] = "%" /\ z[2] = "0"
        /\ y \in Seq(Chars) /\ Len(y) = 1 /\ y[1] = c
        /\ a \in Seq(Values) /\ Len(a) = 1
    BY <1>0, <1>2
  <1>5. args[1] = v
    BY <1>0, <1>1, FrontOne
  <1> HIDE DEF z, y, a
  <1>6. /\ z \o d \in Seq(Chars) /\ Len(z \o d) = 2 + e
        /\ \A i \in 1 .. 2 + e : (z \o d)[i] = IF i <= 2 THEN z[i] ELSE d[i - 2]
    <2>1. /\ z \o d \in Seq(Chars) /\ Len(z \o d) = Len(z) + Len(d)
          /\ \A i \in 1 .. Len(z) + Len(d) :
                (z \o d)[i] = IF i <= Len(z) THEN z[i] ELSE d[i - Len(z)]
      BY <1>3, <1>4, ConcatProperties
    <2>2. Len(z) + Len(d) = 2 + e
      BY <1>3, <1>4
    <2> QED
      BY <1>4, <2>1, <2>2
  <1>7. /\ f \in Seq(Chars) /\ Len(f) = 3 + e
        /\ \A i \in 1 .. 3 + e : f[i] = IF i <= 2 + e THEN (z \o d)[i] ELSE y[i - (2 + e)]
    <2> DEFINE zd == z \o d
    <2>1. zd \in Seq(Chars) /\ Len(zd) = 2 + e
      BY <1>6
    <2> HIDE DEF zd
    <2>2. /\ zd \o y \in Seq(Chars) /\ Len(zd \o y) = Len(zd) + Len(y)
          /\ \A i \in 1 .. Len(zd) + Len(y) :
                (zd \o y)[i] = IF i <= Len(zd) THEN zd[i] ELSE y[i - Len(zd)]
      BY <1>4, <2>1, ConcatProperties
    <2>3. Len(zd) + Len(y) = 3 + e
      BY <1>3, <1>4, <2>1
    <2> QED
      BY <2>1, <2>2, <2>3 DEF zd
  <1>8. /\ f[1] = "%" /\ f[2] = "0" /\ f[3 + e] = c
        /\ \A i \in 1 .. e : f[2 + i] = d[i]
    <2>1. f[1] = "%" /\ f[2] = "0"
      BY <1>3, <1>4, <1>6, <1>7
    <2>2. 3 + e \in 1 .. 3 + e /\ ~(3 + e <= 2 + e) /\ (3 + e) - (2 + e) = 1
      BY <1>3
    <2>3. f[3 + e] = c
      BY <1>4, <1>7, <2>2
    <2>4. ASSUME NEW i \in 1 .. e PROVE f[2 + i] = d[i]
      <3>1. /\ 2 + i \in 1 .. 3 + e /\ 2 + i \in 1 .. 2 + e /\ 2 + i <= 2 + e /\ ~(2 + i <= 2)
            /\ (2 + i) - 2 = i
        BY <1>3
      <3> HIDE DEF f
      <3> QED
        BY <1>6, <1>7, <3>1
    <2> QED
      BY <2>1, <2>3, <2>4
  <1> HIDE DEF f
  <1>9. /\ format \in Seq(Chars) /\ Len(format) = (3 + e) + Len(r) /\ Len(r) \in Nat
        /\ \A i \in 1 .. 3 + e : format[i] = f[i]
    <2>1. /\ f \o r \in Seq(Chars) /\ Len(f \o r) = Len(f) + Len(r)
          /\ \A i \in 1 .. Len(f) + Len(r) :
                (f \o r)[i] = IF i <= Len(f) THEN f[i] ELSE r[i - Len(f)]
      BY ONLY <1>1, <1>7, ConcatProperties, ZenonT(40)
    <2>2. Len(r) \in Nat
      BY <1>1
    <2> QED
      BY <1>1, <1>3, <1>7, <2>1, <2>2
  <1>10. format[1] = "%" /\ format[2] = "0" /\ format[3 + e] = c
    BY <1>3, <1>8, <1>9
  <1>11. ASSUME NEW i \in 1 .. e PROVE format[2 + i] = d[i]
    <2>1. 2 + i \in 1 .. 3 + e
      BY <1>3
    <2> QED
      BY <1>8, <1>9, <2>1
  <1>12. WidthEnd = 3 + e
    <2>1. 3 + e \in 3 .. Len(format) + 1
      BY <1>3, <1>9
    <2>2. ASSUME NEW i \in 3 .. (3 + e) - 1 PROVE IsDigit(format[i])
      <3>1. i - 2 \in 1 .. e /\ 2 + (i - 2) = i
        BY <1>3
      <3>2. format[2 + (i - 2)] = d[i - 2]
        BY <1>11, <3>1
      <3> QED
        BY <1>3, <3>1, <3>2
    <2>3. ~IsDigit(format[3 + e])
      BY <1>2, <1>10
    <2> QED
      BY <1>9, <2>1, <2>2, <2>3, WidthEndIs
  <1>13. Width = w
    <2>1. Len(format) >= 2 + e
      BY <1>3, <1>9
    <2> QED
      BY <1>0, <1>9, <1>11, <1>12, <2>1, WidthRead DEF d, e
  <1>14. ASSUME Prints(t.shows, 1, WidthEnd)
         PROVE  out' = out \o t.shows /\ format' = r /\ args' = b
    <2>1. Prints(t.shows, Len(a), Len(f))
      BY <1>4, <1>7, <1>12, <1>14
    <2>2. format = f \o r /\ args = a \o b /\ r \in Seq(Chars) /\ b \in Seq(Values)
      BY <1>1
    <2>3. f \in Seq(Chars) /\ a \in Seq(Values)
      BY <1>4, <1>7
    <2> QED
      BY ONLY <2>1, <2>2, <2>3, PrintsEffect
  <1>15. t.format \in Seq(Chars) /\ Len(t.format) > 2 /\ t.format[2] = "0"
    <2>1. 3 + e > 2
      BY <1>3
    <2> QED
      BY <1>1, <1>7, <1>8, <2>1
  <1>16. ~(WidthEnd > Len(format)) /\ Len(format) >= 2
    BY <1>3, <1>9, <1>12
  <1>17. format[WidthEnd] = c
    BY <1>10, <1>12
  <1> QED
    BY <1>5, <1>9, <1>10, <1>13, <1>14, <1>15, <1>16, <1>17, Zenon

\* A directive of one letter without an argument, and a letter.
LEMMA AtPlain ==
    ASSUME NEW t, NEW r, NEW b, At(t, r, b), NEW f \in Seq(Chars), t.format = f,
           t.args = << >>
    PROVE  /\ format = f \o r /\ format \in Seq(Chars)
           /\ Prints(t.shows, 0, Len(f)) => out' = out \o t.shows /\ format' = r /\ args' = b
  <1> DEFINE a == << >>
  <1>1. r \in Seq(Chars) /\ b \in Seq(Values) /\ format = f \o r /\ args = a \o b
    BY DEF At
  <1>2. a \in Seq(Values) /\ Len(a) = 0
    OBVIOUS
  <1> HIDE DEF a
  <1>3. ASSUME Prints(t.shows, 0, Len(f)) PROVE out' = out \o t.shows /\ format' = r /\ args' = b
    <2>1. Prints(t.shows, Len(a), Len(f))
      BY <1>2, <1>3
    <2> QED
      BY <1>1, <1>2, <2>1, PrintsEffect
  <1>4. f \o r \in Seq(Chars)
    BY <1>1, ConcatProperties
  <1> QED
    BY <1>1, <1>3, <1>4

\* The kinds of tokens.
LEMMA TokenKinds ==
    ASSUME NEW t \in Tokens
    PROVE  \/ \E n \in Signed : t = Token(<< "%", "d" >>, << n >>, SignedNumeral(n, 0))
           \/ \E n \in Signed, w \in Widths :
                 t = Token((<< "%", "0" >> \o WidthDigits(w)) \o << "d" >>, << n >>,
                           SignedNumeral(n, w))
           \/ \E n \in Unsigned :
                 \/ t = Token(<< "%", "u" >>, << n >>, Numeral(n, 10, FALSE, 0))
                 \/ t = Token(<< "%", "x" >>, << n >>, Numeral(n, 16, FALSE, 0))
                 \/ t = Token(<< "%", "X" >>, << n >>, Numeral(n, 16, TRUE, 0))
                 \/ t = Token(<< "%", "p" >>, << n >>,
                              << "0", "x" >> \o Numeral(n, 16, FALSE, 0))
           \/ \E n \in Unsigned, w \in Widths :
                 \/ t = Token((<< "%", "0" >> \o WidthDigits(w)) \o << "x" >>, << n >>,
                              Numeral(n, 16, FALSE, w))
                 \/ t = Token((<< "%", "0" >> \o WidthDigits(w)) \o << "X" >>, << n >>,
                              Numeral(n, 16, TRUE, w))
           \/ t \in OtherTokens
  <1>1. CASE \E n \in Signed : t \in SignedTokens(n)
    BY <1>1, Zenon DEF SignedTokens
  <1>2. CASE \E n \in Signed, w \in Widths : t \in PaddedSignedTokens(n, w)
    BY <1>2, Zenon DEF PaddedSignedTokens
  <1>3. CASE \E n \in Unsigned : t \in UnsignedTokens(n)
    BY <1>3, Zenon DEF UnsignedTokens
  <1>4. CASE \E n \in Unsigned, w \in Widths : t \in PaddedTokens(n, w)
    BY <1>4, Zenon DEF PaddedTokens
  <1>5. \/ \E n \in Signed : t \in SignedTokens(n)
        \/ \E n \in Signed, w \in Widths : t \in PaddedSignedTokens(n, w)
        \/ \E n \in Unsigned : t \in UnsignedTokens(n)
        \/ \E n \in Unsigned, w \in Widths : t \in PaddedTokens(n, w)
        \/ t \in OtherTokens
    <2>1. \/ t \in UNION {SignedTokens(n) : n \in Signed}
          \/ t \in UNION {PaddedSignedTokens(n, w) : n \in Signed, w \in Widths}
          \/ t \in UNION {UnsignedTokens(n) : n \in Unsigned}
          \/ t \in UNION {PaddedTokens(n, w) : n \in Unsigned, w \in Widths}
          \/ t \in OtherTokens
      <3> DEFINE A == UNION {SignedTokens(n) : n \in Signed}
                 B == UNION {PaddedSignedTokens(n, w) : n \in Signed, w \in Widths}
                 C == UNION {UnsignedTokens(n) : n \in Unsigned}
                 D == UNION {PaddedTokens(n, w) : n \in Unsigned, w \in Widths}
      <3>1. Tokens = A \cup B \cup C \cup D \cup OtherTokens
        BY DEF Tokens
      <3> HIDE DEF A, B, C, D
      <3>2. t \in A \/ t \in B \/ t \in C \/ t \in D \/ t \in OtherTokens
        BY <3>1
      <3> QED
        BY <3>2 DEF A, B, C, D
    <2>2. CASE t \in UNION {SignedTokens(n) : n \in Signed}
      BY ONLY <2>2
    <2>3. CASE t \in UNION {PaddedSignedTokens(n, w) : n \in Signed, w \in Widths}
      BY ONLY <2>3
    <2>4. CASE t \in UNION {UnsignedTokens(n) : n \in Unsigned}
      BY ONLY <2>4
    <2>5. CASE t \in UNION {PaddedTokens(n, w) : n \in Unsigned, w \in Widths}
      BY ONLY <2>5
    <2> QED
      BY <2>1, <2>2, <2>3, <2>4, <2>5
  <1> QED
    BY <1>1, <1>2, <1>3, <1>4, <1>5, Zenon

\* Sizes of numbers and widths.
LEMMA NumberTypes ==
    /\ \A n \in Signed : n \in -(Word \div 2) .. (Word \div 2) - 1 /\ n \in Values
    /\ \A n \in Unsigned : n \in Words /\ n \in Values
    /\ \A w \in Widths : w \in Words /\ w \in Int
    /\ 0 \in Int /\ 10 \in 10 .. 16 /\ 16 \in 10 .. 16
  BY FormatAssumption, PanicAssumption DEF Words, Values

\* What a directive shows once its conversion is known to be right.
LEMMA SignedPasses ==
    ASSUME kprintf_step, NEW n \in Signed, NEW t, NEW r, NEW b, At(t, r, b),
           t = Token(<< "%", "d" >>, << n >>, SignedNumeral(n, 0))
    PROVE  Passed(t, r, b)
  <1>1. /\ t.format = << "%", "d" >> /\ t.args = << n >> /\ t.shows = SignedNumeral(n, 0)
        /\ "d" \in Chars /\ "d" \in Conversions \ {"0"}
    BY DEF Token, Chars, Letters, Conversions
  <1>2. n \in -(Word \div 2) .. (Word \div 2) - 1 /\ n \in Values /\ 0 \in Int
    BY NumberTypes
  <1>3. /\ format \in Seq(Chars) /\ Len(format) >= 2
        /\ format[1] = "%" /\ format[2] = "d" /\ args[1] = n
        /\ Prints(t.shows, 1, 2) /\ past' = past => Passed(t, r, b)
    BY <1>1, <1>2, AtConversion
  <1>4. past' = past /\ Prints(kprint_number(args[1]), 1, 2)
    BY <1>1, <1>3, ConvertStep
  <1>5. kprint_number(n) = SignedNumeral(n, 0)
    BY <1>2, SignedRight DEF kprint_number
  <1> QED
    BY <1>1, <1>3, <1>4, <1>5

\* Unsigned numbers, in either base and in either case.
LEMMA UnsignedPasses ==
    ASSUME kprintf_step, NEW n \in Unsigned, NEW t, NEW r, NEW b, At(t, r, b),
           \/ t = Token(<< "%", "u" >>, << n >>, Numeral(n, 10, FALSE, 0))
           \/ t = Token(<< "%", "x" >>, << n >>, Numeral(n, 16, FALSE, 0))
           \/ t = Token(<< "%", "X" >>, << n >>, Numeral(n, 16, TRUE, 0))
           \/ t = Token(<< "%", "p" >>, << n >>, << "0", "x" >> \o Numeral(n, 16, FALSE, 0))
    PROVE  Passed(t, r, b)
  <1>0. n \in Words /\ n \in Values /\ 0 \in Int /\ 10 \in 10 .. 16 /\ 16 \in 10 .. 16
    BY NumberTypes
  <1>1. /\ kprint_unsigned(n, 10, FALSE) = Numeral(n, 10, FALSE, 0)
        /\ kprint_unsigned(n, 16, FALSE) = Numeral(n, 16, FALSE, 0)
        /\ kprint_unsigned(n, 16, TRUE) = Numeral(n, 16, TRUE, 0)
    BY <1>0, UnsignedRight, Zenon DEF kprint_unsigned
  <1>2. /\ "u" \in Chars /\ "x" \in Chars /\ "X" \in Chars /\ "p" \in Chars
        /\ {"u", "x", "X", "p"} \subseteq Conversions \ {"0"}
    BY DEF Chars, Letters, Conversions
  <1>3. ASSUME NEW c \in {"u", "x", "X", "p"}, t.format = << "%", c >>, t.args = << n >>,
               c = "u" => t.shows = Numeral(n, 10, FALSE, 0),
               c = "x" => t.shows = Numeral(n, 16, FALSE, 0),
               c = "X" => t.shows = Numeral(n, 16, TRUE, 0),
               c = "p" => t.shows = << "0", "x" >> \o Numeral(n, 16, FALSE, 0)
        PROVE  Passed(t, r, b)
    <2>1. c \in Chars
      BY <1>2
    <2>2. /\ format \in Seq(Chars) /\ Len(format) >= 2
          /\ format[1] = "%" /\ format[2] = c /\ args[1] = n
          /\ Prints(t.shows, 1, 2) /\ past' = past => Passed(t, r, b)
      BY <1>0, <1>3, <2>1, AtConversion
    <2>3. format[2] \in Conversions \ {"0"}
      BY <1>2, <2>2
    <2>4. /\ past' = past
          /\ format[2] = "u" => Prints(kprint_unsigned(args[1], 10, FALSE), 1, 2)
          /\ format[2] = "x" => Prints(kprint_unsigned(args[1], 16, FALSE), 1, 2)
          /\ format[2] = "X" => Prints(kprint_unsigned(args[1], 16, TRUE), 1, 2)
          /\ format[2] = "p" =>
                Prints(<< "0", "x" >> \o kprint_unsigned(args[1], 16, FALSE), 1, 2)
      BY <2>2, <2>3, ConvertStep
    <2>5. Prints(t.shows, 1, 2)
      BY <1>1, <1>3, <2>2, <2>4
    <2> QED
      BY <2>2, <2>4, <2>5
  <1>4. CASE t = Token(<< "%", "u" >>, << n >>, Numeral(n, 10, FALSE, 0))
    <2>1. t.format = << "%", "u" >> /\ t.args = << n >> /\ t.shows = Numeral(n, 10, FALSE, 0)
      BY <1>4 DEF Token
    <2> QED
      BY <1>3, <2>1
  <1>5. CASE t = Token(<< "%", "x" >>, << n >>, Numeral(n, 16, FALSE, 0))
    <2>1. t.format = << "%", "x" >> /\ t.args = << n >> /\ t.shows = Numeral(n, 16, FALSE, 0)
      BY <1>5 DEF Token
    <2> QED
      BY <1>3, <2>1
  <1>6. CASE t = Token(<< "%", "X" >>, << n >>, Numeral(n, 16, TRUE, 0))
    <2>1. t.format = << "%", "X" >> /\ t.args = << n >> /\ t.shows = Numeral(n, 16, TRUE, 0)
      BY <1>6 DEF Token
    <2> QED
      BY <1>3, <2>1
  <1>7. CASE t = Token(<< "%", "p" >>, << n >>, << "0", "x" >> \o Numeral(n, 16, FALSE, 0))
    <2>1. /\ t.format = << "%", "p" >> /\ t.args = << n >>
          /\ t.shows = << "0", "x" >> \o Numeral(n, 16, FALSE, 0)
      BY <1>7 DEF Token
    <2> QED
      BY <1>3, <2>1
  <1> QED
    BY <1>4, <1>5, <1>6, <1>7

\* Numbers with a width.
LEMMA PaddedPasses ==
    ASSUME kprintf_step, NEW w \in Widths, NEW t, NEW r, NEW b, At(t, r, b),
           \/ \E n \in Signed :
                 t = Token((<< "%", "0" >> \o WidthDigits(w)) \o << "d" >>, << n >>,
                           SignedNumeral(n, w))
           \/ \E n \in Unsigned :
                 \/ t = Token((<< "%", "0" >> \o WidthDigits(w)) \o << "x" >>, << n >>,
                              Numeral(n, 16, FALSE, w))
                 \/ t = Token((<< "%", "0" >> \o WidthDigits(w)) \o << "X" >>, << n >>,
                              Numeral(n, 16, TRUE, w))
    PROVE  Passed(t, r, b)
  <1>0. w \in Words /\ w \in Int /\ 16 \in 10 .. 16
    BY NumberTypes
  <1>1. ASSUME NEW c \in {"x", "X", "d"}, NEW v \in Values,
               t.format = (<< "%", "0" >> \o WidthDigits(w)) \o << c >>, t.args = << v >>,
               t.shows \in Seq(Chars), t.shows # << >>, Len(t.shows) \in Nat,
               c = "d" => v \in Int /\ t.shows = kprint_number_padded(v, w)
                          /\ (t.shows[1] = "-" <=> v < 0),
               c = "x" => t.shows = kprint_unsigned_padded(v, 16, FALSE, w),
               c = "X" => t.shows = kprint_unsigned_padded(v, 16, TRUE, w),
               c # "d" => t.shows[1] # "-"
        PROVE  Passed(t, r, b)
    <2>1. /\ format \in Seq(Chars) /\ Len(format) >= 2
          /\ format[1] = "%" /\ format[2] = "0" /\ args[1] = v
          /\ ~(WidthEnd > Len(format)) /\ format[WidthEnd] = c /\ Width = w
          /\ t.format \in Seq(Chars) /\ Len(t.format) > 2 /\ t.format[2] = "0"
          /\ Prints(t.shows, 1, WidthEnd) => out' = out \o t.shows /\ format' = r /\ args' = b
      <3>1. HasWidth(t, c, v, w)
        BY <1>0, <1>1 DEF HasWidth
      <3> QED
        BY <3>1, AtPadded, Zenon
    <2>2. ZeroPadded
      BY <2>1, PaddedStep
    <2> DEFINE sign == IF c = "d" /\ v < 0 THEN 1 ELSE 0
    <2>3. PrintsPadded(t.shows, sign)
      <3>2. (IF WidthEnd > Len(format) THEN "NUL" ELSE format[WidthEnd]) = c
        BY <2>1, Zenon
      <3>3. \/ /\ c \in {"x", "X"}
               /\ PrintsPadded(kprint_unsigned_padded(v, 16, c = "X", w), 0)
            \/ /\ c = "d"
               /\ PrintsPadded(kprint_number_padded(v, w), IF v < 0 THEN 1 ELSE 0)
        BY <2>1, <2>2, <3>2 DEF ZeroPadded
      <3>4. CASE c = "x"
        <4>1. PrintsPadded(kprint_unsigned_padded(v, 16, FALSE, w), 0)
          BY <3>3, <3>4
        <4> QED
          BY <1>1, <3>4, <4>1
      <3>5. CASE c = "X"
        <4>1. PrintsPadded(kprint_unsigned_padded(v, 16, TRUE, w), 0)
          BY <3>3, <3>5
        <4> QED
          BY <1>1, <3>5, <4>1
      <3>6. CASE c = "d"
        BY <1>1, <3>3, <3>6
      <3> QED
        BY <3>4, <3>5, <3>6
    <2>5. sign = IF Negative(t) THEN 1 ELSE 0
      BY <1>1 DEF Negative
    <2> HIDE DEF sign
    <2>6. TooWide(t) <=> ~(Len(t.shows) - sign <= BufferSize)
      <3>1. sign \in {0, 1} /\ BufferSize \in Nat
        BY <2>5, FormatAssumption
      <3>2. TooWide(t) <=> Len(t.shows) > BufferSize + sign
        BY <1>1, <2>1, <2>5 DEF TooWide
      <3> QED
        BY <1>1, <3>1, <3>2
    <2>7. CASE TooWide(t)
      <3>1. /\ out' = out \o (IF sign = 1 THEN << "-" >> ELSE << >>)
            /\ past' = {"buffer"} /\ format' = format /\ args' = args
        BY ONLY <2>3, <2>6, <2>7 DEF PrintsPadded
      <3>2. sign = 1 <=> Negative(t)
        BY ONLY <2>5
      <3>3. (IF sign = 1 THEN << "-" >> ELSE << >>) = IF Negative(t) THEN << "-" >> ELSE << >>
        BY ONLY <3>2
      <3> QED
        BY ONLY <2>7, <3>1, <3>3, Zenon DEF Passed
    <2>8. CASE ~TooWide(t)
      <3>1. Prints(t.shows, 1, WidthEnd) /\ past' = past
        BY ONLY <2>3, <2>6, <2>8 DEF PrintsPadded
      <3> QED
        BY ONLY <2>1, <2>8, <3>1, Zenon DEF Passed
    <2> QED
      BY <2>7, <2>8
  <1>2. CASE \E n \in Signed :
                 t = Token((<< "%", "0" >> \o WidthDigits(w)) \o << "d" >>, << n >>,
                           SignedNumeral(n, w))
    <2>1. PICK n \in Signed :
                 t = Token((<< "%", "0" >> \o WidthDigits(w)) \o << "d" >>, << n >>,
                           SignedNumeral(n, w))
      BY <1>2
    <2>2. /\ t.format = (<< "%", "0" >> \o WidthDigits(w)) \o << "d" >> /\ t.args = << n >>
          /\ t.shows = SignedNumeral(n, w)
      BY <2>1 DEF Token
    <2>3. n \in -(Word \div 2) .. (Word \div 2) - 1 /\ n \in Values /\ n \in Int
      BY NumberTypes
    <2>4. /\ t.shows \in Seq(Chars) /\ t.shows # << >> /\ Len(t.shows) \in Nat
          /\ t.shows[1] = "-" <=> n < 0
      BY <1>0, <2>2, <2>3, SignedChars
    <2>5. t.shows = kprint_number_padded(n, w)
      BY <1>0, <2>2, <2>3, SignedRight
    <2> QED
      BY <1>1, <2>2, <2>3, <2>4, <2>5
  <1>3. ASSUME NEW n \in Unsigned, NEW c \in {"x", "X"},
               t = Token((<< "%", "0" >> \o WidthDigits(w)) \o << c >>, << n >>,
                         Numeral(n, 16, c = "X", w))
        PROVE  Passed(t, r, b)
    <2>1. /\ t.format = (<< "%", "0" >> \o WidthDigits(w)) \o << c >> /\ t.args = << n >>
          /\ t.shows = Numeral(n, 16, c = "X", w)
      BY <1>3 DEF Token
    <2>2. n \in Words /\ n \in Values
      BY NumberTypes
    <2>3. /\ t.shows \in Seq(Chars) /\ t.shows # << >> /\ Len(t.shows) \in Nat
          /\ t.shows[1] # "-"
      <3> DEFINE s == Numeral(n, 16, c = "X", w)
      <3>1. s \in Seq(Chars) /\ s # << >> /\ Len(s) \in Nat /\ s[1] # "-"
        BY <1>0, <2>2, NumeralChars, Zenon
      <3> HIDE DEF s
      <3>2. t.shows = s
        BY <2>1 DEF s
      <3> QED
        BY <3>1, <3>2
    <2>4. t.shows = kprint_unsigned_padded(n, 16, c = "X", w)
      BY ONLY <1>0, <2>1, <2>2, UnsignedRight, ZenonT(40)
    <2>5. /\ c = "x" => t.shows = kprint_unsigned_padded(n, 16, FALSE, w)
          /\ c = "X" => t.shows = kprint_unsigned_padded(n, 16, TRUE, w)
          /\ c # "d"
      BY <2>4
    <2> QED
      BY <1>1, <2>1, <2>2, <2>3, <2>5
  <1>4. ASSUME NEW n \in Unsigned
        PROVE  /\ Numeral(n, 16, FALSE, w) = Numeral(n, 16, "x" = "X", w)
               /\ Numeral(n, 16, TRUE, w) = Numeral(n, 16, "X" = "X", w)
    <2>1. ("x" = "X") = FALSE /\ ("X" = "X") = TRUE
      OBVIOUS
    <2> QED
      BY <2>1
  <1> QED
    BY <1>2, <1>3, <1>4

\* The other directives, which read no number.
LEMMA OtherPasses ==
    ASSUME kprintf_step, NEW t \in OtherTokens, NEW r, NEW b, At(t, r, b)
    PROVE  Passed(t, r, b)
  <1>0. /\ "text" \in Chars /\ "%" \in Chars /\ "c" \in Chars /\ "s" \in Chars
        /\ {"c", "s", "%"} \subseteq Conversions \ {"0"}
        /\ "c" \in Values /\ NULL \in Values /\ << "a", "%", "d" >> \in Values
    BY DEF Chars, Letters, Conversions, Values
  <1>1. ASSUME ~(Len(t.format) > 2), out' = out \o t.shows /\ format' = r /\ args' = b,
               past' = past
        PROVE  Passed(t, r, b)
    BY <1>1 DEF Passed, TooWide
  <1>2. CASE t = Token(<< "text" >>, << >>, << "text" >>)
    <2> DEFINE f == << "text" >>
    <2>1. t.format = f /\ t.args = << >> /\ t.shows = << "text" >>
      BY <1>2 DEF Token
    <2>2. f \in Seq(Chars) /\ Len(f) = 1
      BY <1>0
    <2>3. /\ format = f \o r /\ format \in Seq(Chars)
          /\ Prints(t.shows, 0, Len(f)) => out' = out \o t.shows /\ format' = r /\ args' = b
      <3> HIDE DEF f
      <3> QED
        BY <2>1, <2>2, AtPlain
    <2>4. format # << >> /\ format[1] = "text"
      <3>1. r \in Seq(Chars)
        BY DEF At
      <3> QED
        BY <1>0, <2>3, <3>1, FrontOne
    <2>5. Prints(<< format[1] >>, 0, 1) /\ past' = past
      <3>1. format[1] # "%"
        BY <2>4
      <3> QED
        BY <2>3, <2>4, <3>1, LiteralStep
    <2> QED
      BY <1>1, <2>1, <2>2, <2>3, <2>4, <2>5
  <1>3. CASE t = Token(<< "%", "%" >>, << >>, << "%" >>)
    <2> DEFINE f == << "%", "%" >>
    <2>1. t.format = f /\ t.args = << >> /\ t.shows = << "%" >>
      BY <1>3 DEF Token
    <2>2. f \in Seq(Chars) /\ Len(f) = 2
      BY <1>0
    <2>3. /\ format = f \o r /\ format \in Seq(Chars)
          /\ Prints(t.shows, 0, Len(f)) => out' = out \o t.shows /\ format' = r /\ args' = b
      <3> HIDE DEF f
      <3> QED
        BY <2>1, <2>2, AtPlain
    <2>4. Len(format) >= 2 /\ format[1] = "%" /\ format[2] = "%"
      <3>1. r \in Seq(Chars) /\ Len(r) \in Nat
        BY DEF At
      <3> QED
        BY <1>0, <2>3, <3>1, FrontTwo
    <2>5. Prints(<< "%" >>, 0, 2) /\ past' = past
      <3>1. format[2] \in Conversions \ {"0"}
        BY <1>0, <2>4
      <3> QED
        BY <2>3, <2>4, <3>1, ConvertStep
    <2> QED
      BY <1>1, <2>1, <2>2, <2>3, <2>5
  <1>4. CASE t = Token(<< "%", "c" >>, << "c" >>, << "c" >>)
    <2>1. t.format = << "%", "c" >> /\ t.args = << "c" >> /\ t.shows = << "c" >>
          /\ Len(t.format) = 2
      BY <1>4 DEF Token
    <2>2. /\ format \in Seq(Chars) /\ Len(format) >= 2
          /\ format[1] = "%" /\ format[2] = "c" /\ args[1] = "c"
          /\ Prints(t.shows, 1, 2) /\ past' = past => Passed(t, r, b)
      BY <1>0, <2>1, AtConversion
    <2>3. Prints(<< args[1] >>, 1, 2) /\ past' = past
      BY <1>0, <2>2, ConvertStep
    <2> QED
      BY <2>1, <2>2, <2>3
  <1>5. ASSUME NEW v \in {<< "a", "%", "d" >>, NULL},
               t = Token(<< "%", "s" >>, << v >>, IF v = NULL THEN Null ELSE v)
        PROVE  Passed(t, r, b)
    <2>1. t.format = << "%", "s" >> /\ t.args = << v >> /\ v \in Values
          /\ t.shows = IF v = NULL THEN Null ELSE v
      BY <1>0, <1>5 DEF Token
    <2>2. /\ format \in Seq(Chars) /\ Len(format) >= 2
          /\ format[1] = "%" /\ format[2] = "s" /\ args[1] = v
          /\ Prints(t.shows, 1, 2) /\ past' = past => Passed(t, r, b)
      BY <1>0, <2>1, AtConversion
    <2>3. Prints(IF args[1] = NULL THEN Null ELSE args[1], 1, 2) /\ past' = past
      BY <1>0, <2>2, ConvertStep
    <2> QED
      BY <2>1, <2>2, <2>3
  <1>6. CASE t = Token(<< "%", "s" >>, << << "a", "%", "d" >> >>, << "a", "%", "d" >>)
    <2>1. NULL # << "a", "%", "d" >>
      BY PanicAssumption
    <2> QED
      BY <1>5, <1>6, <2>1
  <1>7. CASE t = Token(<< "%", "s" >>, << NULL >>, Null)
    BY <1>5, <1>7
  <1> QED
    BY <1>2, <1>3, <1>4, <1>6, <1>7 DEF OtherTokens

\* Every directive prints what it should show, with its own arguments, and
\* leaves what comes after it.
LEMMA TokenPasses ==
    ASSUME kprintf_step, NEW t \in Tokens, NEW r, NEW b, At(t, r, b)
    PROVE  Passed(t, r, b)
  BY TokenKinds, SignedPasses, UnsignedPasses, PaddedPasses, OtherPasses

\* What a token consists of, and how the directives differ from formats that
\* end within one.
LEMMA TokenTypes ==
    ASSUME NEW t \in Tokens
    PROVE  TokenTyped(t) /\ t \notin UnendedTokens
  <1> DEFINE Fine == /\ TokenTyped(t) /\ t.shows # << >>
                     /\ t.shows[1] # "%" \/ Len(t.shows) = 1
  <1>0. /\ "%" \in Chars /\ "d" \in Chars /\ "u" \in Chars /\ "x" \in Chars /\ "X" \in Chars
        /\ "p" \in Chars /\ "0" \in Chars /\ "text" \in Chars /\ "c" \in Chars /\ "s" \in Chars
        /\ "a" \in Chars /\ "(" \in Chars /\ ")" \in Chars /\ "n" \in Chars /\ "l" \in Chars
        /\ "c" \in Values /\ NULL \in Values /\ << "a", "%", "d" >> \in Values
    BY DEF Chars, Letters, Digits, Values
  <1>1. ASSUME NEW w \in Widths, NEW c \in Chars
        PROVE  /\ (<< "%", "0" >> \o WidthDigits(w)) \o << c >> \in Seq(Chars)
               /\ (<< "%", "0" >> \o WidthDigits(w)) \o << c >> # << >>
    <2>1. WidthDigits(w) \in Seq(Digits)
      BY NumberTypes, WidthDigitFacts
    <2>2. Digits \subseteq Chars
      BY DEF Chars
    <2>3. WidthDigits(w) \in Seq(Chars)
      BY <2>1, <2>2, SeqMonotonic
    <2>4. << "%", "0" >> \in Seq(Chars) /\ << c >> \in Seq(Chars)
      BY <1>0
    <2>5. << "%", "0" >> \o WidthDigits(w) \in Seq(Chars)
      BY <2>3, <2>4, ConcatProperties
    <2> DEFINE s == << "%", "0" >> \o WidthDigits(w)
    <2>6. s \in Seq(Chars)
      BY <2>5
    <2> HIDE DEF s
    <2>7. s \o << c >> \in Seq(Chars) /\ Len(s \o << c >>) = Len(s) + 1
      BY <2>4, <2>6
    <2>8. s \o << c >> # << >>
      BY <2>6, <2>7
    <2> QED
      BY <2>7, <2>8 DEF s
  <1>2. ASSUME NEW n \in Signed, NEW w \in Int, NEW f \in Seq(Chars), f # << >>,
               t = Token(f, << n >>, SignedNumeral(n, w))
        PROVE  Fine
    <2>1. t.format = f /\ t.args = << n >> /\ t.shows = SignedNumeral(n, w)
      BY <1>2 DEF Token
    <2>2. /\ SignedNumeral(n, w) \in Seq(Chars) /\ SignedNumeral(n, w) # << >>
          /\ SignedNumeral(n, w)[1] # "%"
      BY NumberTypes, SignedChars
    <2>3. << n >> \in Seq(Values)
      BY NumberTypes
    <2> QED
      BY <1>2, <2>1, <2>2, <2>3 DEF TokenTyped
  <1>3. ASSUME NEW n \in Unsigned, NEW w \in Int, NEW base \in 10 .. 16, NEW uppercase,
               NEW f \in Seq(Chars), f # << >>,
               t = Token(f, << n >>, Numeral(n, base, uppercase, w))
        PROVE  Fine
    <2>1. /\ t.format = f /\ t.args = << n >> /\ t.shows = Numeral(n, base, uppercase, w)
      BY <1>3 DEF Token
    <2>2. /\ Numeral(n, base, uppercase, w) \in Seq(Chars)
          /\ Numeral(n, base, uppercase, w) # << >>
          /\ Numeral(n, base, uppercase, w)[1] # "%"
      BY NumberTypes, NumeralChars
    <2>3. << n >> \in Seq(Values)
      BY NumberTypes
    <2> QED
      BY <1>3, <2>1, <2>2, <2>3 DEF TokenTyped
  <1>4. ASSUME NEW n \in Unsigned,
               t = Token(<< "%", "p" >>, << n >>, << "0", "x" >> \o Numeral(n, 16, FALSE, 0))
        PROVE  Fine
    <2> DEFINE s == Numeral(n, 16, FALSE, 0)
    <2>1. /\ t.format = << "%", "p" >> /\ t.args = << n >> /\ t.shows = << "0", "x" >> \o s
      BY <1>4 DEF Token
    <2>2. s \in Seq(Chars)
      BY NumberTypes, NumeralChars, Zenon
    <2> HIDE DEF s
    <2>3. /\ << "0", "x" >> \o s \in Seq(Chars) /\ Len(<< "0", "x" >> \o s) = Len(s) + 2
          /\ (<< "0", "x" >> \o s)[1] = "0"
      BY <1>0, <2>2, FrontTwo
    <2>4. << "0", "x" >> \o s # << >> /\ << n >> \in Seq(Values)
      BY <2>2, <2>3, NumberTypes
    <2>5. << "%", "p" >> \in Seq(Chars) /\ << "%", "p" >> # << >>
      BY <1>0
    <2> QED
      BY <2>1, <2>3, <2>4, <2>5 DEF TokenTyped
  <1>5. ASSUME t \in OtherTokens PROVE Fine
    <2>0. ASSUME NEW f \in Seq(Chars), NEW a \in Seq(Values), NEW text \in Seq(Chars),
                 f # << >>, text # << >>, text[1] # "%" \/ Len(text) = 1,
                 t = Token(f, a, text)
          PROVE  Fine
      <3>1. t.format = f /\ t.args = a /\ t.shows = text
        BY <2>0 DEF Token
      <3> QED
        BY <2>0, <3>1 DEF TokenTyped
    <2>a. << >> \in Seq(Values)
      OBVIOUS
    <2> HIDE DEF Fine
    <2>1. CASE t = Token(<< "text" >>, << >>, << "text" >>)
      <3>1. << "text" >> \in Seq(Chars) /\ << "text" >> # << >> /\ Len(<< "text" >>) = 1
        BY <1>0
      <3> QED
        BY <2>0, <2>1, <2>a, <3>1
    <2>2. CASE t = Token(<< "%", "%" >>, << >>, << "%" >>)
      <3>1. << "%", "%" >> \in Seq(Chars) /\ << "%", "%" >> # << >> /\ << "%" >> \in Seq(Chars)
            /\ << "%" >> # << >> /\ Len(<< "%" >>) = 1
        BY <1>0
      <3> QED
        BY <2>0, <2>2, <2>a, <3>1
    <2>3. CASE t = Token(<< "%", "c" >>, << "c" >>, << "c" >>)
      <3>1. << "%", "c" >> \in Seq(Chars) /\ << "%", "c" >> # << >> /\ << "c" >> \in Seq(Chars)
            /\ << "c" >> # << >> /\ Len(<< "c" >>) = 1 /\ << "c" >> \in Seq(Values)
        BY <1>0
      <3> QED
        BY <2>0, <2>3, <3>1
    <2>s. << "%", "s" >> \in Seq(Chars) /\ << "%", "s" >> # << >>
      BY <1>0
    <2>4. CASE t = Token(<< "%", "s" >>, << << "a", "%", "d" >> >>, << "a", "%", "d" >>)
      <3> DEFINE text == << "a", "%", "d" >>
      <3>1. text \in Seq(Chars) /\ text # << >> /\ text[1] # "%"
        BY <1>0
      <3>2. text \in Values
        BY <1>0
      <3> HIDE DEF text
      <3>3. << text >> \in Seq(Values)
        BY <3>2
      <3>4. t = Token(<< "%", "s" >>, << text >>, text)
        BY <2>4 DEF text
      <3> QED
        BY <2>0, <2>s, <3>1, <3>3, <3>4
    <2>5. CASE t = Token(<< "%", "s" >>, << NULL >>, Null)
      <3>1. Null \in Seq(Chars) /\ Null # << >> /\ Null[1] # "%"
        BY <1>0 DEF Null
      <3>2. << NULL >> \in Seq(Values)
        BY <1>0
      <3> QED
        BY <2>0, <2>5, <2>s, <3>1, <3>2
    <2> QED
      BY <1>5, <2>1, <2>2, <2>3, <2>4, <2>5 DEF OtherTokens
  <1>6. Fine
    <2> HIDE DEF Fine
    <2>1. /\ << "%", "d" >> \in Seq(Chars) /\ << "%", "d" >> # << >>
          /\ << "%", "u" >> \in Seq(Chars) /\ << "%", "u" >> # << >>
          /\ << "%", "x" >> \in Seq(Chars) /\ << "%", "x" >> # << >>
          /\ << "%", "X" >> \in Seq(Chars) /\ << "%", "X" >> # << >>
      BY <1>0
    <2>2. CASE \E n \in Signed : t = Token(<< "%", "d" >>, << n >>, SignedNumeral(n, 0))
      BY <1>2, <2>1, <2>2, NumberTypes
    <2>3. CASE \E n \in Signed, w \in Widths :
                 t = Token((<< "%", "0" >> \o WidthDigits(w)) \o << "d" >>, << n >>,
                           SignedNumeral(n, w))
      BY <1>0, <1>1, <1>2, <2>3, NumberTypes
    <2>4. CASE \E n \in Unsigned :
                 \/ t = Token(<< "%", "u" >>, << n >>, Numeral(n, 10, FALSE, 0))
                 \/ t = Token(<< "%", "x" >>, << n >>, Numeral(n, 16, FALSE, 0))
                 \/ t = Token(<< "%", "X" >>, << n >>, Numeral(n, 16, TRUE, 0))
                 \/ t = Token(<< "%", "p" >>, << n >>,
                              << "0", "x" >> \o Numeral(n, 16, FALSE, 0))
      BY <1>3, <1>4, <2>1, <2>4, NumberTypes
    <2>5. CASE \E n \in Unsigned, w \in Widths :
                 \/ t = Token((<< "%", "0" >> \o WidthDigits(w)) \o << "x" >>, << n >>,
                              Numeral(n, 16, FALSE, w))
                 \/ t = Token((<< "%", "0" >> \o WidthDigits(w)) \o << "X" >>, << n >>,
                              Numeral(n, 16, TRUE, w))
      BY <1>0, <1>1, <1>3, <2>5, NumberTypes
    <2> QED
      BY <1>5, <2>2, <2>3, <2>4, <2>5, TokenKinds, Zenon
  <1>7. ASSUME t \in UnendedTokens PROVE FALSE
    <2>1. CASE t = Token(<< "%" >>, << >>, << "%", "NUL" >>)
      <3>1. t.shows[1] = "%" /\ Len(t.shows) = 2
        BY <2>1 DEF Token
      <3> QED
        BY <1>6, <3>1
    <2>2. CASE t = Token(<< "%", "0", "4" >>, << >>, << >>)
      <3>1. t.shows = << >>
        BY <2>2 DEF Token
      <3> QED
        BY <1>6, <3>1
    <2> QED
      BY <1>7, <2>1, <2>2 DEF UnendedTokens
  <1> QED
    BY <1>6, <1>7

\* What may come last.
LEMMA LastTypes ==
    ASSUME NEW t \in LastTokens
    PROVE  TokenTyped(t) /\ t.args = << >> /\ ~TooWide(t)
  <1>0. "%" \in Chars /\ "l" \in Chars /\ "u" \in Chars /\ "0" \in Chars /\ "4" \in Chars
        /\ "NUL" \in Chars
    BY DEF Chars, Letters, Digits
  <1>1. CASE t = Token(<< "%", "l", "l", "u" >>, << >>, << "%", "l", "l", "u" >>)
    BY <1>0, <1>1 DEF Token, TokenTyped, TooWide, Negative
  <1>2. CASE t = Token(<< "%", "0", "4", "u" >>, << >>, << >>)
    BY <1>0, <1>2 DEF Token, TokenTyped, TooWide, Negative
  <1>3. CASE t = Token(<< "%" >>, << >>, << "%", "NUL" >>)
    BY <1>0, <1>3 DEF Token, TokenTyped, TooWide, Negative
  <1>4. CASE t = Token(<< "%", "0", "4" >>, << >>, << >>)
    BY <1>0, <1>4 DEF Token, TokenTyped, TooWide, Negative
  <1> QED
    BY <1>1, <1>2, <1>3, <1>4 DEF LastTokens, UnknownTokens, UnendedTokens

-----------------------------------------------------------------------------
\* What is left when some pieces are gone begins with the next piece.
LEMMA NextPiece ==
    ASSUME NEW S, NEW ss \in Seq(Seq(S)), NEW k \in 0 .. Len(ss), k # Len(ss),
           NEW left \in Seq(S), Joined(ss, k) \o left = FlattenSeq(ss)
    PROVE  \E r \in Seq(S) :
              left = ss[k + 1] \o r /\ Joined(ss, k + 1) \o r = FlattenSeq(ss)
  <1> DEFINE a == Joined(ss, k)
             b == ss[k + 1]
             whole == FlattenSeq(ss)
  <1>1. k + 1 \in 1 .. Len(ss) /\ k + 1 \in 0 .. Len(ss) /\ (k + 1) - 1 = k
    OBVIOUS
  <1>2. a \in Seq(S) /\ b \in Seq(S) /\ Joined(ss, k + 1) = a \o b
    BY <1>1, ElementOfSeq, JoinedFacts
  <1>3. PICK r \in Seq(S) : whole = Joined(ss, k + 1) \o r
    BY <1>1, JoinedRest
  <1>4. a \o left = whole
    OBVIOUS
  <1> HIDE DEF a, b, whole
  <1>5. whole = a \o (b \o r)
    <2>1. (a \o b) \o r = a \o (b \o r)
      <3>1. Cat(Cat(a, b), r) = Cat(a, Cat(b, r))
        BY ONLY <1>2, r \in Seq(S), CatAssociative
      <3> QED
        BY ONLY <3>1, Zenon DEF Cat
    <2> QED
      BY <1>2, <1>3, <2>1
  <1>6. b \o r \in Seq(S)
    BY <1>2, ConcatProperties
  <1>7. left = b \o r
    BY <1>2, <1>4, <1>5, <1>6, Cancel
  <1> QED
    BY <1>3, <1>7 DEF b, whole

\* Nothing is left when all of them are gone.
LEMMA NoPiece ==
    ASSUME NEW S, NEW ss \in Seq(Seq(S)), NEW left \in Seq(S),
           Joined(ss, Len(ss)) \o left = FlattenSeq(ss)
    PROVE  left = << >>
  <1> DEFINE a == Joined(ss, Len(ss))
  <1>1. a \in Seq(S) /\ a = FlattenSeq(ss)
    <2>1. Len(ss) \in 0 .. Len(ss)
      OBVIOUS
    <2> QED
      BY <2>1, JoinedFacts
  <1>2. a \o left = a \o << >> /\ << >> \in Seq(S)
    BY <1>1, ConcatEmptySeq
  <1> HIDE DEF a
  <1> QED
    BY <1>1, <1>2, Cancel

-----------------------------------------------------------------------------
(***************************************************************************)
(* A call of kprintf.  Between two steps kprintf is between two directives *)
(* of the call, or within the one whose letters it prints one by one.      *)
(***************************************************************************)
Formats == [i \in 1 .. Len(call) |-> call[i].format]
Taken == [i \in 1 .. Len(call) |-> call[i].args]
Shows == [i \in 1 .. Len(call) |-> call[i].shows]
LongLong == Token(<< "%", "l", "l", "u" >>, << >>, << "%", "l", "l", "u" >>)

\* None of the first k directives of the call runs past anything.
PastRight(k) == \A i \in 1 .. k : ~RunsPast(call[i])

\* kprintf has printed the first k directives and has the others before it.
Between(k) ==
    /\ Joined(Formats, k) \o format = FlattenSeq(Formats)
    /\ Joined(Taken, k) \o args = FlattenSeq(Taken)
    /\ out = Joined(Shows, k)
    /\ PastRight(k)

\* It is among the letters of %llu, which it prints one after the other.
Within ==
    /\ call # << >> /\ call[Len(call)] = LongLong
    /\ args = << >>
    /\ \/ /\ format = << "l" >> \o << "u" >>
          /\ out = Joined(Shows, Len(call) - 1) \o << "%", "l" >>
       \/ /\ format = << "u" >>
          /\ out = (Joined(Shows, Len(call) - 1) \o << "%", "l" >>) \o << "l" >>
    /\ PastRight(Len(call) - 1)

\* It has run past something at the directive k.
Lost(k) ==
    /\ RunsPast(call[k]) /\ PastRight(k - 1)
    /\ past = {IF call[k] \in UnendedTokens THEN "format" ELSE "buffer"}
    /\ out = Joined(Shows, k - 1) \o ShownBefore(call[k])

\* The calls that PanicAssumption allows.
Callable ==
    /\ call \in Seq(Tokens \cup LastTokens)
    /\ \A i \in 1 .. Len(call) - 1 : call[i] \in Tokens

\* The inductive invariant of main's calls.
FormatInv ==
    /\ Callable
    /\ format \in Seq(Chars) /\ args \in Seq(Values) /\ out \in Seq(Chars)
    /\ past = {} => (\E k \in 0 .. Len(call) : Between(k)) \/ Within
    /\ past # {} => \E k \in 1 .. Len(call) : Lost(k)

MainInv == stage = "main" => FormatInv

\* The pieces of a call: its formats, its arguments and what it shows.
LEMMA CallTypes ==
    ASSUME Callable
    PROVE  /\ Len(call) \in Nat
           /\ Formats \in Seq(Seq(Chars)) /\ Len(Formats) = Len(call)
           /\ Taken \in Seq(Seq(Values)) /\ Len(Taken) = Len(call)
           /\ Shows \in Seq(Seq(Chars)) /\ Len(Shows) = Len(call)
           /\ \A i \in 1 .. Len(call) :
                 /\ call[i] \in Tokens \cup LastTokens /\ TokenTyped(call[i])
                 /\ Formats[i] = call[i].format /\ Taken[i] = call[i].args
                 /\ Shows[i] = call[i].shows
  <1>1. Len(call) \in Nat /\ \A i \in 1 .. Len(call) : call[i] \in Tokens \cup LastTokens
    BY ElementOfSeq DEF Callable
  <1>2. \A i \in 1 .. Len(call) : TokenTyped(call[i])
    BY <1>1, TokenTypes, LastTypes
  <1>3. \A i \in 1 .. Len(call) : /\ call[i].format \in Seq(Chars) /\ call[i].args \in Seq(Values)
                                  /\ call[i].shows \in Seq(Chars)
    BY <1>2 DEF TokenTyped
  <1>4. Formats \in Seq(Seq(Chars)) /\ Len(Formats) = Len(call)
    BY <1>1, <1>3 DEF Formats
  <1>5. Taken \in Seq(Seq(Values)) /\ Len(Taken) = Len(call)
    BY <1>1, <1>3 DEF Taken
  <1>6. Shows \in Seq(Seq(Chars)) /\ Len(Shows) = Len(call)
    BY <1>1, <1>3 DEF Shows
  <1>7. \A i \in 1 .. Len(call) :
           Formats[i] = call[i].format /\ Taken[i] = call[i].args /\ Shows[i] = call[i].shows
    BY DEF Formats, Taken, Shows
  <1> QED
    BY <1>1, <1>2, <1>4, <1>5, <1>6, <1>7

\* Past one more directive.
LEMMA Advance ==
    ASSUME Callable, NEW k \in 0 .. Len(call), k # Len(call), call' = call,
           out = Joined(Shows, k), out' = out \o call[k + 1].shows,
           Joined(Formats, k + 1) \o format' = FlattenSeq(Formats),
           Joined(Taken, k + 1) \o args' = FlattenSeq(Taken),
           PastRight(k), ~RunsPast(call[k + 1])
    PROVE  Between(k + 1)'
  <1>1. Len(call) \in Nat /\ k + 1 \in 1 .. Len(call) /\ (k + 1) - 1 = k
    BY CallTypes
  <1>2. Formats' = Formats /\ Taken' = Taken /\ Shows' = Shows
    BY DEF Formats, Taken, Shows
  <1>3. out' = Joined(Shows, k + 1)
    <2>1. Joined(Shows, k + 1) = Joined(Shows, k) \o Shows[k + 1] /\ Shows[k + 1] = call[k + 1].shows
      BY <1>1, CallTypes, JoinedFacts
    <2> QED
      BY <2>1
  <1>4. PastRight(k + 1)'
    <2>1. \A i \in Int : i \in 1 .. k + 1 <=> i \in 1 .. k \/ i = k + 1
      BY <1>1
    <2> QED
      BY <2>1 DEF PastRight
  <1> QED
    BY <1>2, <1>3, <1>4 DEF Between

\* Past the end of something at the next directive.
LEMMA GetsLost ==
    ASSUME Callable, NEW k \in 0 .. Len(call), k # Len(call), call' = call,
           out = Joined(Shows, k), out' = out \o ShownBefore(call[k + 1]),
           PastRight(k), RunsPast(call[k + 1]),
           past' = {IF call[k + 1] \in UnendedTokens THEN "format" ELSE "buffer"}
    PROVE  Lost(k + 1)' /\ k + 1 \in 1 .. Len(call') /\ past' # {}
  <1>0. Len(call) \in Nat
    BY CallTypes
  <1>1. k + 1 \in 1 .. Len(call) /\ (k + 1) - 1 = k
    BY ONLY <1>0, k \in 0 .. Len(call), k # Len(call)
  <1>2. Shows' = Shows
    BY DEF Shows
  <1>3. out' = Joined(Shows', k) \o ShownBefore(call'[k + 1])
    BY <1>2
  <1>4. PastRight(k)'
    BY DEF PastRight
  <1> QED
    BY <1>1, <1>3, <1>4 DEF Lost

\* Letters printed one by one make up a directive kprintf does not know.
LEMMA LettersJoin ==
    ASSUME NEW S, NEW s \in Seq(S), NEW a \in S, NEW b \in S, NEW c \in S, NEW d \in S
    PROVE  ((s \o << a, b >>) \o << c >>) \o << d >> = s \o << a, b, c, d >>
  <1> DEFINE x == s \o << a, b >>
             y == x \o << c >>
             z == y \o << d >>
             w == s \o << a, b, c, d >>
             n == Len(s)
  <1>0. n \in Nat
    OBVIOUS
  <1>1. /\ x \in Seq(S) /\ Len(x) = n + 2 /\ x[n + 1] = a /\ x[n + 2] = b
        /\ \A i \in 1 .. n : x[i] = s[i]
    BY <1>0
  <1> HIDE DEF x
  <1>2. /\ y \in Seq(S) /\ Len(y) = n + 3 /\ y[n + 3] = c
        /\ \A i \in 1 .. n + 2 : y[i] = x[i]
    BY <1>0, <1>1
  <1> HIDE DEF y
  <1>3. /\ z \in Seq(S) /\ Len(z) = n + 4 /\ z[n + 4] = d
        /\ \A i \in 1 .. n + 3 : z[i] = y[i]
    BY <1>0, <1>2
  <1> HIDE DEF z
  <1>4. /\ w \in Seq(S) /\ Len(w) = n + 4
        /\ w[n + 1] = a /\ w[n + 2] = b /\ w[n + 3] = c /\ w[n + 4] = d
        /\ \A i \in 1 .. n : w[i] = s[i]
    BY <1>0
  <1> HIDE DEF w, n
  <1>5. ASSUME NEW i \in 1 .. n + 4 PROVE z[i] = w[i]
    <2>1. CASE i \in 1 .. n
      <3>1. i \in 1 .. n + 2 /\ i \in 1 .. n + 3
        BY <1>0, <2>1
      <3> QED
        BY <1>1, <1>2, <1>3, <1>4, <2>1, <3>1
    <2>2. CASE i = n + 1
      <3>1. i \in 1 .. n + 2 /\ i \in 1 .. n + 3
        BY <1>0, <2>2
      <3> QED
        BY <1>1, <1>2, <1>3, <1>4, <2>2, <3>1
    <2>3. CASE i = n + 2
      <3>1. i \in 1 .. n + 2 /\ i \in 1 .. n + 3
        BY <1>0, <2>3
      <3> QED
        BY <1>1, <1>2, <1>3, <1>4, <2>3, <3>1
    <2>4. CASE i = n + 3
      <3>1. i \in 1 .. n + 3
        BY <1>0, <2>4
      <3> QED
        BY <1>2, <1>3, <1>4, <2>4, <3>1
    <2>5. CASE i = n + 4
      BY <1>3, <1>4, <2>5
    <2> QED
      BY <1>0, <2>1, <2>2, <2>3, <2>4, <2>5
  <1>6. Len(z) = Len(w) /\ \A i \in 1 .. Len(z) : z[i] = w[i]
    BY <1>3, <1>4, <1>5
  <1>7. z = w
    BY <1>3, <1>4, <1>6, SeqEqual
  <1> QED
    BY <1>7 DEF x, y, z, w

\* A format that consists of one piece.
LEMMA PrintsLast ==
    ASSUME NEW S, format \in Seq(S), args = << >>, NEW text, NEW n, n = Len(format),
           Prints(text, 0, n)
    PROVE  out' = out \o text /\ format' = << >> /\ args' = << >>
  <1>1. args' = << >> /\ out' = out \o text
    BY DEF Prints
  <1>2. format' = << >>
    <2>1. Len(format) \in Nat /\ format' = SubSeq(format, Len(format) + 1, Len(format))
      BY DEF Prints
    <2> QED
      BY <2>1
  <1> QED
    BY <1>1, <1>2

\* Nothing is printed when nothing is left.
LEMMA NothingLeft ==
    ASSUME format = << >>
    PROVE  ~kprintf_step
  BY DEF kprintf_step, Literal, Convert, ZeroPadded, Unknown, Directive

\* The formats that come last, each from the step that reaches it.
LEMMA LastStep ==
    ASSUME kprintf_step, NEW t \in LastTokens, format = t.format, args = << >>,
           t # LongLong, out \in Seq(Chars)
    PROVE  /\ out' = out \o t.shows /\ format' = << >> /\ args' = << >>
           /\ past' = IF t \in UnendedTokens THEN {"format"} ELSE past
  <1>0. /\ "%" \in Chars /\ "0" \in Chars /\ "4" \in Chars /\ "u" \in Chars
        /\ IsDigit("4") /\ ~IsDigit("u")
    BY DigitOrNot DEF Chars, Letters, Digits
  <1>1. CASE t = Token(<< "%", "0", "4", "u" >>, << >>, << >>)
    <2>1. format = << "%", "0", "4", "u" >> /\ t.shows = << >>
      BY <1>1 DEF Token
    <2>2. /\ format \in Seq(Chars) /\ Len(format) = 4 /\ format[1] = "%" /\ format[2] = "0"
          /\ format[3] = "4" /\ format[4] = "u"
      BY <1>0, <2>1
    <2>3. WidthEnd = 4
      <3>1. 4 \in 3 .. Len(format) + 1 /\ 3 .. 4 - 1 = {3} /\ 4 <= Len(format)
        BY <2>2
      <3>2. \A i \in 3 .. 4 - 1 : IsDigit(format[i])
        BY <1>0, <2>2, <3>1
      <3>3. ~IsDigit(format[4])
        BY <1>0, <2>2
      <3> QED
        BY <2>2, <3>1, <3>2, <3>3, WidthEndIs
    <2>4. ZeroPadded
      BY <2>2, PaddedStep
    <2>5. (IF WidthEnd > Len(format) THEN "NUL" ELSE format[WidthEnd]) = "u"
      BY <2>2, <2>3
    <2>6. Prints(<< >>, 0, WidthEnd) /\ past' = past
      BY <2>4, <2>5 DEF ZeroPadded
    <2>7. t \notin UnendedTokens
      <3>1. Len(t.format) = 4
        BY <1>1 DEF Token
      <3>2. \A u \in UnendedTokens : Len(u.format) # 4
        <4>1. \A u \in UnendedTokens : u.format = << "%" >> \/ u.format = << "%", "0", "4" >>
          BY DEF UnendedTokens, Token
        <4>2. Len(<< "%" >>) # 4 /\ Len(<< "%", "0", "4" >>) # 4
          OBVIOUS
        <4> QED
          BY ONLY <4>1, <4>2, Zenon
      <3> QED
        BY <3>1, <3>2
    <2>8. Prints(t.shows, 0, 4)
      BY <2>1, <2>3, <2>6
    <2> QED
      BY <2>2, <2>6, <2>7, <2>8, PrintsLast
  <1>2. CASE t = Token(<< "%" >>, << >>, << "%", "NUL" >>)
    <2>1. format = << "%" >> /\ t.shows = << "%", "NUL" >> /\ t \in UnendedTokens
      BY <1>2 DEF Token, UnendedTokens
    <2>2. format \in Seq(Chars) /\ Len(format) = 1 /\ format[1] = "%" /\ format # << >>
      BY <1>0, <2>1
    <2>3. Prints(<< "%", "NUL" >>, 0, 1) /\ past' = {"format"}
      <3>1. ~(Len(format) >= 2)
        BY <2>2
      <3> QED
        BY <2>2, <3>1, UnknownStep
    <2> QED
      BY <2>1, <2>2, <2>3, PrintsLast
  <1>3. CASE t = Token(<< "%", "0", "4" >>, << >>, << >>)
    <2>1. format = << "%", "0", "4" >> /\ t.shows = << >> /\ t \in UnendedTokens
      BY <1>3 DEF Token, UnendedTokens
    <2>2. /\ format \in Seq(Chars) /\ Len(format) = 3 /\ format[1] = "%" /\ format[2] = "0"
          /\ format[3] = "4"
      BY <1>0, <2>1
    <2>3. WidthEnd = 4
      <3>1. 4 \in 3 .. Len(format) + 1 /\ 3 .. 4 - 1 = {3} /\ ~(4 <= Len(format))
        BY <2>2
      <3>2. \A i \in 3 .. 4 - 1 : IsDigit(format[i])
        BY <1>0, <2>2, <3>1
      <3> QED
        BY <2>2, <3>1, <3>2, WidthEndIs
    <2>4. ZeroPadded
      BY <2>2, PaddedStep
    <2>5. (IF WidthEnd > Len(format) THEN "NUL" ELSE format[WidthEnd]) = "NUL"
      BY <2>2, <2>3
    <2>6. Prints(<< >>, 0, WidthEnd) /\ past' = {"format"}
      BY <2>4, <2>5 DEF ZeroPadded
    <2>7. out' = out /\ args' = << >> /\ format' = << >>
      <3>1. out' = out \o << >> /\ args' = SubSeq(<< >>, 1, 0) /\ format' = SubSeq(format, 5, 3)
        BY <2>2, <2>3, <2>6 DEF Prints
      <3>2. out \o << >> = out
        BY ConcatEmptySeq
      <3> QED
        BY <2>2, <3>1, <3>2
    <2>8. out \o t.shows = out
      BY <2>1, ConcatEmptySeq
    <2> QED
      BY <2>1, <2>6, <2>7, <2>8
  <1> QED
    BY <1>1, <1>2, <1>3 DEF LastTokens, UnknownTokens, UnendedTokens, LongLong

\* kprintf goes from one directive to the next, through the letters of the one
\* it does not know.
LEMMA FormatGoesOn ==
    ASSUME FormatInv, kprintf_step, call' = call
    PROVE  FormatInv'
  <1> DEFINE n == Len(call)
             shown == Joined(Shows, n - 1)
  <1>0. /\ n \in Nat /\ Callable /\ Callable'
        /\ format \in Seq(Chars) /\ args \in Seq(Values) /\ out \in Seq(Chars)
    BY CallTypes DEF FormatInv, Callable
  <1>p. past = {}
    BY DEF kprintf_step
  <1>1. /\ Formats \in Seq(Seq(Chars)) /\ Len(Formats) = n
        /\ Taken \in Seq(Seq(Values)) /\ Len(Taken) = n
        /\ Shows \in Seq(Seq(Chars)) /\ Len(Shows) = n
        /\ \A i \in 1 .. n :
                 /\ call[i] \in Tokens \cup LastTokens /\ TokenTyped(call[i])
                 /\ Formats[i] = call[i].format /\ Taken[i] = call[i].args
                 /\ Shows[i] = call[i].shows
    BY <1>0, CallTypes
  <1>2. Formats' = Formats /\ Taken' = Taken /\ Shows' = Shows
    BY DEF Formats, Taken, Shows
  <1>l. "%" \in Chars /\ "l" \in Chars /\ "u" \in Chars /\ << >> \in Seq(Values)
        /\ << >> \in Seq(Chars)
    BY DEF Chars, Letters
  <1>3. ASSUME NEW k \in 0 .. n, Between(k) PROVE FormatInv'
    <2> DEFINE t == call[k + 1]
    <2>1. k # n
      <3> SUFFICES ASSUME k = n PROVE FALSE
        OBVIOUS
      <3>1. format = << >>
        BY <1>0, <1>1, <1>3, NoPiece DEF Between
      <3> QED
        BY <3>1, NothingLeft
    <2>2. k + 1 \in 1 .. n /\ k + 1 \in 0 .. n
      BY <1>0, <2>1
    <2>a. /\ Formats[k + 1] = t.format /\ Taken[k + 1] = t.args
          /\ k \in 0 .. Len(Formats) /\ k # Len(Formats)
          /\ k \in 0 .. Len(Taken) /\ k # Len(Taken)
          /\ Joined(Formats, k) \o format = FlattenSeq(Formats)
          /\ Joined(Taken, k) \o args = FlattenSeq(Taken)
      BY <1>1, <1>3, <2>1, <2>2 DEF Between
    <2>3. PICK r \in Seq(Chars) :
             format = t.format \o r /\ Joined(Formats, k + 1) \o r = FlattenSeq(Formats)
      <3> HIDE DEF t
      <3>1. \E r \in Seq(Chars) : format = Formats[k + 1] \o r
                                /\ Joined(Formats, k + 1) \o r = FlattenSeq(Formats)
        BY ONLY <1>0, <1>1, <2>a, NextPiece, ZenonT(40)
      <3> QED
        BY <2>a, <3>1
    <2>4. PICK b \in Seq(Values) :
             args = t.args \o b /\ Joined(Taken, k + 1) \o b = FlattenSeq(Taken)
      <3> HIDE DEF t
      <3>1. \E b \in Seq(Values) : args = Taken[k + 1] \o b
                                 /\ Joined(Taken, k + 1) \o b = FlattenSeq(Taken)
        BY ONLY <1>0, <1>1, <2>a, NextPiece, ZenonT(40)
      <3> QED
        BY <2>a, <3>1
    <2>5. t \in Tokens \cup LastTokens /\ TokenTyped(t)
      BY <1>1, <2>2
    <2> HIDE DEF t
    <2>6. t.shows \in Seq(Chars) /\ out \o t.shows \in Seq(Chars)
      BY <1>0, <2>5, ConcatProperties DEF TokenTyped
    <2>7. CASE t \in Tokens
      <3>1. Passed(t, r, b)
        BY <2>3, <2>4, <2>7, TokenPasses DEF At
      <3>2. t \notin UnendedTokens
        BY <2>7, TokenTypes
      <3>3. CASE TooWide(t)
        <4>1. out' = out \o ShownBefore(t) /\ past' = {"buffer"}
          BY <3>1, <3>2, <3>3 DEF Passed, ShownBefore
        <4>2. RunsPast(t)
          BY <3>3 DEF RunsPast
        <4>3. Lost(k + 1)' /\ k + 1 \in 1 .. Len(call') /\ past' # {}
          BY <1>0, <1>3, <2>1, <3>2, <4>1, <4>2, GetsLost DEF Between, t
        <4>4. out' \in Seq(Chars) /\ format' = format /\ args' = args
          <5>1. ShownBefore(t) = << "-" >> \/ ShownBefore(t) = << >>
            BY <3>2 DEF ShownBefore
          <5>2. "-" \in Chars
            BY DEF Chars, Letters
          <5>3. ShownBefore(t) \in Seq(Chars)
            <6>1. << "-" >> \in Seq(Chars) /\ << >> \in Seq(Chars)
              BY <5>2
            <6> QED
              BY ONLY <5>1, <6>1, Zenon
          <5>4. out \o ShownBefore(t) \in Seq(Chars)
            BY ONLY <1>0, <5>3, ConcatProperties
          <5>5. format' = format /\ args' = args
            BY ONLY <3>1, <3>3, Zenon DEF Passed
          <5> QED
            BY <4>1, <5>4, <5>5
        <4> QED
          BY <1>0, <4>3, <4>4 DEF FormatInv
      <3>4. CASE ~TooWide(t)
        <4>1. out' = out \o t.shows /\ format' = r /\ args' = b /\ past' = past
          BY ONLY <3>1, <3>4, Zenon DEF Passed
        <4>2. ~RunsPast(t)
          BY <3>2, <3>4 DEF RunsPast
        <4>3. Between(k + 1)'
          BY <1>0, <1>3, <2>1, <2>3, <2>4, <4>1, <4>2, Advance DEF Between, t
        <4> QED
          BY <1>0, <1>p, <2>2, <2>6, <4>1, <4>3 DEF FormatInv
      <3> QED
        BY <3>3, <3>4
    <2>8. CASE t \in LastTokens /\ t \notin Tokens
      <3>1. k + 1 = n
        BY <1>0, <2>2, <2>8 DEF Callable, t
      <3>2. r = << >> /\ b = << >>
        BY <1>1, <2>3, <2>4, <3>1, NoPiece
      <3>3. t.args = << >> /\ ~TooWide(t) /\ t.format \in Seq(Chars)
        BY <2>8, LastTypes DEF TokenTyped
      <3>4. format = t.format /\ args = << >>
        BY <2>3, <2>4, <3>2, <3>3, ConcatEmptySeq
      <3>5. CASE t # LongLong
        <4>1. /\ out' = out \o t.shows /\ format' = << >> /\ args' = << >>
              /\ past' = IF t \in UnendedTokens THEN {"format"} ELSE past
          BY <1>0, <2>8, <3>4, <3>5, LastStep
        <4>2. CASE t \in UnendedTokens
          <5>1. RunsPast(t) /\ ShownBefore(t) = t.shows /\ past' = {"format"}
            BY <4>1, <4>2 DEF RunsPast, ShownBefore
          <5>2. Lost(k + 1)' /\ k + 1 \in 1 .. Len(call') /\ past' # {}
            BY <1>0, <1>3, <2>1, <4>1, <4>2, <5>1, GetsLost DEF Between, t
          <5> QED
            BY <1>0, <1>l, <2>6, <4>1, <5>2 DEF FormatInv
        <4>3. CASE t \notin UnendedTokens
          <5>1. ~RunsPast(t) /\ past' = {}
            BY <1>p, <3>3, <4>1, <4>3 DEF RunsPast
          <5>2. Between(k + 1)'
            BY <1>0, <1>3, <2>1, <2>3, <2>4, <3>2, <4>1, <5>1, Advance DEF Between, t
          <5> QED
            BY <1>0, <1>l, <2>2, <2>6, <4>1, <5>1, <5>2 DEF FormatInv
        <4> QED
          BY <4>2, <4>3
      <3>6. CASE t = LongLong
        <4>1. format = << "%", "l", "l", "u" >>
          BY <3>4, <3>6 DEF LongLong, Token
        <4> DEFINE x == << "l" >> \o << "u" >>
                   y == << "%", "l" >> \o x
        <4>2. /\ format \in Seq(Chars) /\ Len(format) = 4 /\ format # << >>
              /\ format[1] = "%" /\ format[2] = "l"
              /\ SubSeq(format, 3, 4) = x
          <5>1. x \in Seq(Chars) /\ Len(x) = 2 /\ x[1] = "l" /\ x[2] = "u"
            BY <1>l
          <5> HIDE DEF x
          <5>2. /\ y \in Seq(Chars) /\ Len(y) = 4 /\ y[1] = "%" /\ y[2] = "l" /\ y[3] = "l"
                /\ y[4] = "u" /\ SubSeq(y, 3, Len(y)) = x
            <6> DEFINE w == << "%", "l" >>
            <6>1. w \in Seq(Chars) /\ Len(w) = 2 /\ w[1] = "%" /\ w[2] = "l" /\ y = w \o x
              BY <1>l
            <6> HIDE DEF w, y
            <6>2. /\ y \in Seq(Chars) /\ Len(y) = 2 + 2
                  /\ \A i \in 1 .. 2 + 2 : y[i] = IF i <= 2 THEN w[i] ELSE x[i - 2]
              <7>1. /\ w \o x \in Seq(Chars) /\ Len(w \o x) = Len(w) + Len(x)
                    /\ \A i \in 1 .. Len(w) + Len(x) :
                          (w \o x)[i] = IF i <= Len(w) THEN w[i] ELSE x[i - Len(w)]
                BY ONLY <5>1, <6>1, ConcatProperties
              <7> QED
                BY <5>1, <6>1, <7>1
            <6>3. SubSeq(y, 2 + 1, Len(y)) = x
              BY <5>1, <6>1, DropFront
            <6>4. /\ 2 + 2 = 4 /\ 2 + 1 = 3 /\ 3 - 2 = 1 /\ 4 - 2 = 2 /\ 1 .. 4 = {1, 2, 3, 4}
                  /\ 1 <= 2 /\ 2 <= 2 /\ ~(3 <= 2) /\ ~(4 <= 2)
              OBVIOUS
            <6>5. y[1] = w[1] /\ y[2] = w[2] /\ y[3] = x[3 - 2] /\ y[4] = x[4 - 2]
              BY <6>2, <6>4
            <6> QED
              BY <5>1, <6>1, <6>2, <6>3, <6>4, <6>5
          <5> HIDE DEF y
          <5>3. /\ format \in Seq(Chars) /\ Len(format) = 4
                /\ format[1] = "%" /\ format[2] = "l" /\ format[3] = "l" /\ format[4] = "u"
            BY <1>0, <4>1
          <5>4. format = y
            <6>1. \A i \in 1 .. 4 : format[i] = y[i]
              <7>1. \A i \in 1 .. 4 : i = 1 \/ i = 2 \/ i = 3 \/ i = 4
                OBVIOUS
              <7> QED
                BY <5>2, <5>3, <7>1
            <6> QED
              BY <5>2, <5>3, <6>1, SeqEqual
          <5> QED
            BY <5>2, <5>3, <5>4
        <4>3. Prints(<< "%", format[2] >>, 0, 2) /\ past' = past
          <5>1. format[2] \notin Conversions /\ Len(format) # 1
            BY <4>2 DEF Conversions
          <5> QED
            BY <4>2, <5>1, UnknownStep
        <4>4. out' = out \o << "%", "l" >> /\ args' = << >> /\ format' = x
          <5> HIDE DEF x
          <5>1. out' = out \o << "%", "l" >> /\ args' = SubSeq(<< >>, 1, 0)
                /\ format' = SubSeq(format, 3, 4)
            BY <3>4, <4>2, <4>3 DEF Prints
          <5> QED
            BY <4>2, <5>1
        <4>5. k = n - 1 /\ k = Len(call') - 1 /\ call' # << >> /\ call'[Len(call')] = LongLong
          BY <1>0, <3>1, <3>6, SMTT(30) DEF t
        <4>6. out' = Joined(Shows', k) \o << "%", "l" >>
          BY <1>2, <1>3, <4>4 DEF Between
        <4>7. PastRight(k)' /\ past' = {}
          BY <1>3, <1>p, <4>3 DEF Between, PastRight
        <4>8. Within'
          BY <4>4, <4>5, <4>6, <4>7 DEF Within
        <4>9. out' \in Seq(Chars) /\ format' \in Seq(Chars) /\ args' \in Seq(Values)
          <5>1. << "%", "l" >> \in Seq(Chars) /\ << "l" >> \in Seq(Chars) /\ << "u" >> \in Seq(Chars)
            BY <1>l
          <5> QED
            BY <1>0, <1>l, <4>4, <5>1, ConcatProperties
        <4> QED
          BY <1>0, <4>7, <4>8, <4>9 DEF FormatInv
      <3> QED
        BY <3>5, <3>6
    <2> QED
      BY <2>5, <2>7, <2>8
  <1>4. ASSUME Within PROVE FormatInv'
    <2>0. PICK m \in Nat : m = n
      BY <1>0
    <2>1. /\ m # 0 /\ m - 1 \in 0 .. m /\ call[m] = LongLong
          /\ Len(call) = m /\ Len(call') = m /\ call' # << >> /\ call'[m] = LongLong
      BY <1>0, <1>4, <2>0 DEF Within
    <2>b. /\ Formats \in Seq(Seq(Chars)) /\ Len(Formats) = m
          /\ Taken \in Seq(Seq(Values)) /\ Len(Taken) = m
          /\ Shows \in Seq(Seq(Chars)) /\ Len(Shows) = m
          /\ \A i \in 1 .. m : Shows[i] = call[i].shows
      BY <1>1, <2>0
    <2>2. shown = Joined(Shows, m - 1) /\ shown \in Seq(Chars)
      BY <2>0, <2>1, <2>b, JoinedFacts
    <2>3. CASE format = << "l" >> \o << "u" >> /\ out = shown \o << "%", "l" >>
      <3>1. << "u" >> \in Seq(Chars)
        BY <1>l
      <3> DEFINE r == << "u" >>
      <3>2. /\ format # << >> /\ format[1] = "l"
            /\ SubSeq(format, 2, Len(format)) = r
        <4>1. format = << "l" >> \o r /\ r \in Seq(Chars)
          BY <2>3, <3>1
        <4> HIDE DEF r
        <4> QED
          BY <1>l, <4>1, FrontOne
      <3>3. Prints(<< format[1] >>, 0, 1) /\ past' = past
        <4>1. format[1] # "%"
          BY <3>2
        <4> QED
          BY <1>0, <3>2, <4>1, LiteralStep
      <3>4. /\ out' = (shown \o << "%", "l" >>) \o << "l" >> /\ format' = << "u" >>
            /\ args' = << >>
        <4>1. args = << >>
          BY <1>4 DEF Within
        <4> QED
          BY <2>3, <3>2, <3>3, <4>1 DEF Prints
      <3>5. Within'
        <4>1. PastRight(m - 1)'
          BY <1>4, <2>1, <3>3 DEF Within, PastRight
        <4>2. out' = (Joined(Shows', m - 1) \o << "%", "l" >>) \o << "l" >>
          BY <1>2, <2>2, <3>4
        <4> QED
          BY <2>1, <3>4, <4>1, <4>2 DEF Within
      <3>6. out' \in Seq(Chars)
        <4>1. << "l" >> \in Seq(Chars) /\ out' = out \o << "l" >>
          BY <1>l, <2>3, <3>4
        <4> QED
          BY <1>0, <4>1, ConcatProperties
      <3> QED
        BY <1>0, <1>p, <1>l, <3>1, <3>3, <3>4, <3>5, <3>6 DEF FormatInv
    <2>4. CASE format = << "u" >> /\ out = (shown \o << "%", "l" >>) \o << "l" >>
      <3>1. format # << >> /\ format[1] = "u" /\ Len(format) = 1
        BY <2>4
      <3>2. Prints(<< format[1] >>, 0, 1) /\ past' = past
        <4>1. format[1] # "%"
          BY <3>1
        <4> QED
          BY <1>0, <3>1, <4>1, LiteralStep
      <3>3. out' = out \o << "u" >> /\ format' = << >> /\ args' = << >>
        <4>1. args = << >> /\ Prints(<< "u" >>, 0, 1)
          BY <1>4, <3>1, <3>2 DEF Within
        <4> QED
          BY <1>0, <3>1, <4>1, PrintsLast
      <3>4. out' = shown \o << "%", "l", "l", "u" >>
        <4>1. out' = ((shown \o << "%", "l" >>) \o << "l" >>) \o << "u" >>
          BY <2>4, <3>3
        <4> HIDE DEF shown
        <4> QED
          BY <1>l, <2>2, <4>1, LettersJoin, SMTT(30)
      <3>5. Between(m)'
        <4>1. Joined(Shows, m) = shown \o LongLong.shows /\ LongLong.shows = << "%", "l", "l", "u" >>
          <5>1. m \in 1 .. m /\ Shows[m] = LongLong.shows
            BY <2>1, <2>b
          <5>2. Joined(Shows, m) = Joined(Shows, m - 1) \o Shows[m]
            BY <2>b, <5>1, JoinedFacts
          <5>3. LongLong.shows = << "%", "l", "l", "u" >>
            BY DEF LongLong, Token
          <5> HIDE DEF shown
          <5> QED
            BY <2>2, <5>1, <5>2, <5>3
        <4>2. out' = Joined(Shows', m)
          <5> HIDE DEF shown
          <5> QED
            BY <1>2, <3>4, <4>1
        <4>3. m \in 0 .. m
          OBVIOUS
        <4>4. Joined(Formats', m) \o format' = FlattenSeq(Formats')
          <5>1. Joined(Formats, m) \in Seq(Chars) /\ Joined(Formats, m) = FlattenSeq(Formats)
            BY <2>b, <4>3, JoinedFacts
          <5> QED
            BY <1>2, <3>3, <5>1, ConcatEmptySeq
        <4>5. Joined(Taken', m) \o args' = FlattenSeq(Taken')
          <5>1. Joined(Taken, m) \in Seq(Values) /\ Joined(Taken, m) = FlattenSeq(Taken)
            BY <2>b, <4>3, JoinedFacts
          <5> QED
            BY <1>2, <3>3, <5>1, ConcatEmptySeq
        <4>6. PastRight(m)'
          <5>1. PastRight(m - 1) /\ past' = past
            BY <1>4, <2>1, <3>2 DEF Within
          <5>2. ~RunsPast(call[m])
            <6>1. LongLong \in LastTokens
              BY DEF LongLong, LastTokens, UnknownTokens
            <6>2. \A u \in UnendedTokens : Len(u.format) # 4
              BY DEF UnendedTokens, Token
            <6>3. Len(LongLong.format) = 4
              BY DEF LongLong, Token
            <6> QED
              BY <2>1, <6>1, <6>2, <6>3, LastTypes DEF RunsPast
          <5>3. \A i \in Int : i \in 1 .. m <=> i \in 1 .. m - 1 \/ i = m
            <6>1. m \in Nat \ {0}
              BY <2>1
            <6> QED
              BY ONLY <6>1
          <5> QED
            BY <5>1, <5>2, <5>3 DEF PastRight
        <4> QED
          BY <4>2, <4>4, <4>5, <4>6 DEF Between
      <3>6. out' \in Seq(Chars)
        <4>1. << "u" >> \in Seq(Chars)
          BY <1>l
        <4> QED
          BY <1>0, <3>3, <4>1, ConcatProperties
      <3>7. m \in 0 .. Len(call')
        BY <2>1
      <3> QED
        BY <1>0, <1>p, <1>l, <3>2, <3>3, <3>5, <3>6, <3>7 DEF FormatInv
    <2> QED
      BY <1>4, <2>3, <2>4 DEF Within
  <1> QED
    BY <1>3, <1>4, <1>p DEF FormatInv

\* Where a call begins.
LEMMA FreshCall ==
    ASSUME NEW c \in Seq(Tokens \cup LastTokens)
    PROVE  LET f == [i \in 1 .. Len(c) |-> c[i].format]
               a == [i \in 1 .. Len(c) |-> c[i].args]
               s == [i \in 1 .. Len(c) |-> c[i].shows]
           IN  /\ Joined(f, 0) \o FlattenSeq(f) = FlattenSeq(f) /\ FlattenSeq(f) \in Seq(Chars)
               /\ Joined(a, 0) \o FlattenSeq(a) = FlattenSeq(a) /\ FlattenSeq(a) \in Seq(Values)
               /\ Joined(s, 0) = << >>
  <1> DEFINE f == [i \in 1 .. Len(c) |-> c[i].format]
             a == [i \in 1 .. Len(c) |-> c[i].args]
             s == [i \in 1 .. Len(c) |-> c[i].shows]
  <1>1. Len(c) \in Nat /\ \A i \in 1 .. Len(c) : c[i] \in Tokens \cup LastTokens
    BY ElementOfSeq
  <1>2. \A i \in 1 .. Len(c) : TokenTyped(c[i])
    BY <1>1, TokenTypes, LastTypes
  <1>3. \A i \in 1 .. Len(c) : /\ c[i].format \in Seq(Chars) /\ c[i].args \in Seq(Values)
                               /\ c[i].shows \in Seq(Chars)
    BY <1>2 DEF TokenTyped
  <1>4. f \in Seq(Seq(Chars)) /\ a \in Seq(Seq(Values)) /\ s \in Seq(Seq(Chars))
    BY <1>1, <1>3
  <1> HIDE DEF f, a, s
  <1>5. ASSUME NEW S, NEW ss \in Seq(Seq(S))
        PROVE  /\ Joined(ss, 0) = << >>
               /\ Joined(ss, 0) \o FlattenSeq(ss) = FlattenSeq(ss) /\ FlattenSeq(ss) \in Seq(S)
    <2>1. Len(ss) \in 0 .. Len(ss)
      BY <1>5
    <2>2. Joined(ss, 0) = << >> /\ FlattenSeq(ss) \in Seq(S)
      BY <1>5, <2>1, JoinedFacts
    <2> QED
      BY <2>2, ConcatEmptySeq
  <1>6. /\ Joined(f, 0) \o FlattenSeq(f) = FlattenSeq(f) /\ FlattenSeq(f) \in Seq(Chars)
        /\ Joined(a, 0) \o FlattenSeq(a) = FlattenSeq(a) /\ FlattenSeq(a) \in Seq(Values)
        /\ Joined(s, 0) = << >>
    BY <1>4, <1>5
  <1> QED
    BY <1>6 DEF f, a, s

\* MainInv is inductive.
THEOREM MainInvHolds == Spec => []MainInv
  <1>1. Init => MainInv
    <2> SUFFICES ASSUME Init PROVE FormatInv
      BY DEF MainInv
    <2>1. call = << >> /\ format = << >> /\ args = << >> /\ out = << >> /\ past = {}
      BY DEF Init
    <2>2. call \in Seq(Tokens \cup LastTokens) /\ Len(call) = 0
      BY <2>1
    <2>3. Formats = << >> /\ Taken = << >> /\ Shows = << >>
      BY <2>2 DEF Formats, Taken, Shows
    <2>4. ASSUME NEW S PROVE Joined(<< >>, 0) = << >> /\ FlattenSeq(<< >>) = << >>
      <3>1. << >> \in Seq(Seq(S)) /\ Len(<< >>) = 0
        OBVIOUS
      <3> QED
        BY <3>1, JoinedFacts
    <2>5. Between(0)
      <3>1. << >> \o << >> = << >>
        BY ConcatEmptySeq
      <3>2. PastRight(0)
        BY <2>1 DEF PastRight
      <3> QED
        BY <2>1, <2>3, <2>4, <3>1, <3>2 DEF Between
    <2>6. 0 \in 0 .. Len(call) /\ Callable
      BY <2>2 DEF Callable
    <2>7. format \in Seq(Chars) /\ args \in Seq(Values) /\ out \in Seq(Chars)
      BY <2>1
    <2> QED
      BY <2>1, <2>5, <2>6, <2>7 DEF FormatInv
  <1>2. MainInv /\ [Next]_vars => MainInv'
    <2> SUFFICES ASSUME MainInv, [Next]_vars, stage' = "main" PROVE FormatInv'
      BY DEF MainInv
    <2>1. CASE MainPrints
      <3>1. PICK c \in Calls :
               /\ call' = c
               /\ format' = FlattenSeq([i \in 1 .. Len(c) |-> c[i].format])
               /\ args' = FlattenSeq([i \in 1 .. Len(c) |-> c[i].args])
               /\ out' = << >> /\ past' = {}
        BY <2>1 DEF MainPrints
      <3>2. c \in Seq(Tokens \cup LastTokens) /\ \A i \in 1 .. Len(c) - 1 : c[i] \in Tokens
        BY PanicAssumption
      <3>3. /\ Formats' = [i \in 1 .. Len(c) |-> c[i].format]
            /\ Taken' = [i \in 1 .. Len(c) |-> c[i].args]
            /\ Shows' = [i \in 1 .. Len(c) |-> c[i].shows]
        BY <3>1 DEF Formats, Taken, Shows
      <3>4. /\ Joined(Formats', 0) \o FlattenSeq(Formats') = FlattenSeq(Formats')
            /\ FlattenSeq(Formats') \in Seq(Chars)
            /\ Joined(Taken', 0) \o FlattenSeq(Taken') = FlattenSeq(Taken')
            /\ FlattenSeq(Taken') \in Seq(Values)
            /\ Joined(Shows', 0) = << >>
        BY <3>2, <3>3, FreshCall
      <3>5. format' = FlattenSeq(Formats') /\ args' = FlattenSeq(Taken')
        BY <3>1, <3>3
      <3>6. Between(0)'
        <4>1. PastRight(0)'
          BY DEF PastRight
        <4> QED
          BY <3>1, <3>4, <3>5, <4>1 DEF Between
      <3>7. 0 \in 0 .. Len(call') /\ Callable'
        BY <3>1, <3>2 DEF Callable
      <3>8. format' \in Seq(Chars) /\ args' \in Seq(Values) /\ out' \in Seq(Chars)
        BY <3>1, <3>4, <3>5
      <3> QED
        BY <3>1, <3>6, <3>7, <3>8 DEF FormatInv
    <2>2. CASE FormatStep
      <3>1. stage = "main" /\ call' = call /\ kprintf_step
        BY <2>2 DEF FormatStep, panicVars
      <3>2. FormatInv
        BY <3>1 DEF MainInv
      <3> QED
        BY <3>1, <3>2, FormatGoesOn
    <2>3. CASE UNCHANGED vars
      <3>1. FormatInv
        BY <2>3 DEF MainInv, vars, panicVars
      <3>2. UNCHANGED << format, args, out, past, call >>
        BY <2>3 DEF vars, panicVars, formatVars
      <3>3. Formats' = Formats /\ Taken' = Taken /\ Shows' = Shows
        BY <3>2 DEF Formats, Taken, Shows
      <3>4. ASSUME NEW k PROVE PastRight(k) => PastRight(k)'
        BY <3>2 DEF PastRight
      <3>5. ASSUME NEW k PROVE Between(k) => Between(k)'
        BY <3>2, <3>3, <3>4 DEF Between
      <3>6. Within => Within'
        BY <3>2, <3>3, <3>4 DEF Within, PastRight
      <3>7. Callable' /\ Len(call') = Len(call)
        BY <3>1, <3>2 DEF FormatInv, Callable
      <3>8. ASSUME NEW k PROVE Lost(k) => Lost(k)'
        BY <3>2, <3>3, <3>4 DEF Lost
      <3> QED
        BY <3>1, <3>2, <3>5, <3>6, <3>7, <3>8 DEF FormatInv
    <2>4. ~Fault /\ ~NonMaskable
      BY DEF Fault, NonMaskable, Exception
    <2>5. ~Stub /\ ~isr_common_stub /\ ~NextCall /\ ~Halt
      BY DEF Stub, isr_common_stub, NextCall, Halt
    <2> QED
      BY <2>1, <2>2, <2>3, <2>4, <2>5 DEF Next, Halted, Astray
  <1> QED
    BY <1>1, <1>2, PTL DEF Spec

\* Every call of kprintf that ends has printed what its directives and arguments
\* mean, each directive with its own argument and width; a call that runs past
\* the end of its format or of the buffer of digits does so at the first
\* directive PrintedExact names and has printed all that comes before it.
THEOREM PrintsExactly == Spec => []PrintedExact
  <1>u. ASSUME FormatInv, NEW k \in 0 .. Len(call) PROVE ShowsUpTo(k) = Joined(Shows, k)
    <2>1. Len(call) \in Nat
      BY <1>u, CallTypes DEF FormatInv
    <2>2. [i \in 1 .. k |-> call[i].shows] = [i \in 1 .. k |-> Shows[i]]
      BY <2>1 DEF Shows
    <2> QED
      BY <2>2 DEF ShowsUpTo, Joined
  <1>v. ASSUME FormatInv, past # {}
        PROVE  \E k \in 1 .. Len(call) :
                 /\ RunsPast(call[k]) /\ \A i \in 1 .. k - 1 : ~RunsPast(call[i])
                 /\ past = {IF call[k] \in UnendedTokens THEN "format" ELSE "buffer"}
                 /\ out = ShowsUpTo(k - 1) \o ShownBefore(call[k])
    <2>1. PICK k \in 1 .. Len(call) : Lost(k)
      BY <1>v DEF FormatInv
    <2>2. k - 1 \in 0 .. Len(call)
      <3>1. Callable
        BY <1>v DEF FormatInv
      <3>2. Len(call) \in Nat
        BY <3>1, CallTypes
      <3> QED
        BY ONLY <3>2, k \in 1 .. Len(call)
    <2>3. ShowsUpTo(k - 1) = Joined(Shows, k - 1)
      BY <1>u, <1>v, <2>2
    <2> QED
      BY <2>1, <2>3 DEF Lost, PastRight
  <1>1. MainInv => PrintedExact
    <2> SUFFICES ASSUME FormatInv, format = << >>, past = {}
                 PROVE  /\ out = ShowsUpTo(Len(call)) /\ args = << >> /\ PastRight(Len(call))
      BY <1>v DEF MainInv, PrintedExact, PastRight
    <2> DEFINE n == Len(call)
    <2>1. /\ n \in Nat
          /\ Formats \in Seq(Seq(Chars)) /\ Len(Formats) = n
          /\ Taken \in Seq(Seq(Values)) /\ Len(Taken) = n
          /\ Shows \in Seq(Seq(Chars)) /\ Len(Shows) = n
          /\ \A i \in 1 .. n : TokenTyped(call[i]) /\ Formats[i] = call[i].format
          /\ args \in Seq(Values)
      BY CallTypes DEF FormatInv
    <2>2. ~Within
      <3>1. << "l" >> \o << "u" >> # << >>
        <4> DEFINE r == << "u" >>
        <4>1. r \in Seq(Chars) /\ "l" \in Chars
          BY DEF Chars, Letters
        <4> HIDE DEF r
        <4>2. << "l" >> \o r # << >>
          BY <4>1, FrontOne
        <4> QED
          BY <4>2 DEF r
      <3> QED
        BY <3>1 DEF Within
    <2>3. PICK k \in 0 .. n : Between(k)
      BY <2>2 DEF FormatInv
    <2>4. k = n
      <3> SUFFICES ASSUME k # n PROVE FALSE
        OBVIOUS
      <3>1. PICK r \in Seq(Chars) : format = Formats[k + 1] \o r
        <4>1. \E r \in Seq(Chars) : /\ format = Formats[k + 1] \o r
                                    /\ Joined(Formats, k + 1) \o r = FlattenSeq(Formats)
          <5>1. /\ k \in 0 .. Len(Formats) /\ k # Len(Formats) /\ format \in Seq(Chars)
                /\ Joined(Formats, k) \o format = FlattenSeq(Formats)
            BY <2>1, <2>3 DEF Between, FormatInv
          <5> QED
            BY ONLY <2>1, <5>1, NextPiece, ZenonT(40)
        <4> QED
          BY <4>1
      <3>2. Formats[k + 1] \in Seq(Chars) /\ Formats[k + 1] # << >>
        <4>1. k + 1 \in 1 .. n
          BY <2>1
        <4> QED
          BY <2>1, <4>1 DEF TokenTyped
      <3> QED
        <4> DEFINE f == Formats[k + 1]
        <4>1. f \in Seq(Chars) /\ f # << >> /\ f \o r = << >>
          BY <3>1, <3>2
        <4> HIDE DEF f
        <4> QED
          BY <4>1
    <2>5. args = << >>
      BY <2>1, <2>3, <2>4, NoPiece DEF Between
    <2>6. out = ShowsUpTo(n) /\ PastRight(n)
      BY <1>u, <2>1, <2>3, <2>4 DEF Between
    <2> QED
      BY <2>5, <2>6
  <1> QED
    BY <1>1, MainInvHolds, PTL

-----------------------------------------------------------------------------
(***************************************************************************)
(* The text of a report.                                                   *)
(***************************************************************************)
\* Pieces joined in two parts.
LEMMA FlattenConcat ==
    ASSUME NEW S, NEW ss \in Seq(Seq(S)), NEW tt \in Seq(Seq(S))
    PROVE  FlattenSeq(ss \o tt) = FlattenSeq(ss) \o FlattenSeq(tt)
  <1> DEFINE m == Len(ss)
             n == Len(tt)
             both == ss \o tt
             first == FlattenSeq(ss)
             P == {k \in Nat : k <= n => Joined(both, m + k) = first \o Joined(tt, k)}
  <1>1. /\ m \in Nat /\ n \in Nat /\ both \in Seq(Seq(S)) /\ Len(both) = m + n
        /\ \A i \in 1 .. m + n : both[i] = IF i <= m THEN ss[i] ELSE tt[i - m]
    BY ConcatProperties
  <1>2. first \in Seq(S)
    <2>1. m \in 0 .. Len(ss)
      BY <1>1
    <2> QED
      BY <2>1, JoinedFacts
  <1>3. Joined(both, m) = first
    <2>1. [i \in 1 .. m |-> both[i]] = [i \in 1 .. m |-> ss[i]]
      BY <1>1
    <2>2. ss = [i \in 1 .. m |-> ss[i]]
      BY SeqFunction
    <2> HIDE DEF both, m
    <2> QED
      BY <2>1, <2>2 DEF Joined
  <1> HIDE DEF both, first, m, n
  <1>4. 0 \in P
    <2>1. Joined(tt, 0) = << >>
      BY JoinedFacts
    <2>2. m + 0 = m
      BY <1>1
    <2>3. first \o << >> = first
      BY <1>2, ConcatEmptySeq
    <2> QED
      BY <1>3, <2>1, <2>2, <2>3
  <1>5. ASSUME NEW k \in P PROVE k + 1 \in P
    <2> SUFFICES ASSUME k + 1 <= n PROVE Joined(both, m + (k + 1)) = first \o Joined(tt, k + 1)
      OBVIOUS
    <2>1. /\ k \in Nat /\ k <= n /\ m + (k + 1) \in 1 .. m + n /\ (m + (k + 1)) - 1 = m + k
          /\ ~(m + (k + 1) <= m) /\ (m + (k + 1)) - m = k + 1
          /\ k + 1 \in 1 .. n /\ k \in 0 .. n /\ (k + 1) - 1 = k
      BY <1>1
    <2>2. Joined(both, m + k) = first \o Joined(tt, k)
      BY <2>1
    <2> HIDE DEF P
    <2>3. Joined(both, m + (k + 1)) = Joined(both, m + k) \o both[m + (k + 1)]
      BY <1>1, <2>1, JoinedFacts
    <2>4. both[m + (k + 1)] = tt[k + 1]
      BY <1>1, <2>1
    <2>5. /\ Joined(tt, k) \in Seq(S) /\ tt[k + 1] \in Seq(S)
          /\ Joined(tt, k + 1) = Joined(tt, k) \o tt[k + 1]
      BY <2>1, JoinedFacts, ElementOfSeq DEF n
    <2>6. (first \o Joined(tt, k)) \o tt[k + 1] = first \o (Joined(tt, k) \o tt[k + 1])
      <3> DEFINE a == Joined(tt, k)
                 b == tt[k + 1]
      <3>1. a \in Seq(S) /\ b \in Seq(S)
        BY <2>5
      <3> HIDE DEF a, b
      <3>2. (first \o a) \o b = first \o (a \o b)
        <4>1. Cat(Cat(first, a), b) = Cat(first, Cat(a, b))
          BY ONLY <1>2, <3>1, CatAssociative
        <4> QED
          BY ONLY <4>1, Zenon DEF Cat
      <3> QED
        BY <3>2 DEF a, b
    <2> QED
      BY <2>2, <2>3, <2>4, <2>5, <2>6
  <1>6. P = Nat
    <2>1. P \in SUBSET Nat
      OBVIOUS
    <2> HIDE DEF P
    <2> QED
      BY <1>4, <1>5, <2>1, SimpleInduction
  <1>7. Joined(both, m + n) = first \o Joined(tt, n)
    <2>1. n \in P
      BY <1>1, <1>6
    <2>2. n <= n
      BY <1>1
    <2> QED
      BY <2>1, <2>2
  <1>8. Joined(both, m + n) = FlattenSeq(both) /\ Joined(tt, n) = FlattenSeq(tt)
    BY <1>1, JoinedFacts DEF n
  <1> QED
    BY <1>7, <1>8 DEF both, first

\* The calls of a report: text without a percent sign, or a number with a label.
Printable == Chars \ {"%"}
NumberLabels == {"Faulting address: 0x", "Error code: 0x"}
Pieces ==
    {[format |-> s, args |-> << >>] : s \in Seq(Printable)}
    \cup {[format |-> << l, "%", "x", "\n" >>, args |-> << n >>] : l \in NumberLabels, n \in Words}

\* What a call prints, and what several do.
Text(p) ==
    IF p.args = << >> THEN p.format
    ELSE << p.format[1] >> \o (Numeral(p.args[1], 16, FALSE, 0) \o << "\n" >>)
TextsOf(cs) == [i \in 1 .. Len(cs) |-> Text(cs[i])]
Texts(cs) == FlattenSeq(TextsOf(cs))

\* The pieces that the properties ask for, and none that is a message.
Header == "=== KERNEL PANIC ==="
Marks == {"%", Header, "Error Code: ", "Write access "}

\* No name of an exception is one of these.
LEMMA MessageMarks == \A i \in 1 .. 20 : Messages[i] \notin Marks
  <1>1. /\ Messages[1] \notin Marks /\ Messages[2] \notin Marks
        /\ Messages[3] \notin Marks /\ Messages[4] \notin Marks
        /\ Messages[5] \notin Marks /\ Messages[6] \notin Marks
        /\ Messages[7] \notin Marks /\ Messages[8] \notin Marks
        /\ Messages[9] \notin Marks /\ Messages[10] \notin Marks
        /\ Messages[11] \notin Marks /\ Messages[12] \notin Marks
        /\ Messages[13] \notin Marks /\ Messages[14] \notin Marks
        /\ Messages[15] \notin Marks /\ Messages[16] \notin Marks
        /\ Messages[17] \notin Marks /\ Messages[18] \notin Marks
        /\ Messages[19] \notin Marks /\ Messages[20] \notin Marks
    BY DEF Messages, Marks, Header
  <1>2. \A i \in 1 .. 20 :
           \/ i = 1 \/ i = 2 \/ i = 3 \/ i = 4 \/ i = 5 \/ i = 6 \/ i = 7 \/ i = 8 \/ i = 9 \/ i = 10
           \/ i = 11 \/ i = 12 \/ i = 13 \/ i = 14 \/ i = 15 \/ i = 16 \/ i = 17 \/ i = 18 \/ i = 19
           \/ i = 20
    OBVIOUS
  <1> QED
    BY <1>1, <1>2

\* Digits and labels are characters other than the percent sign.
LEMMA CharFacts ==
    /\ Digits \subseteq Printable /\ Labels \subseteq Printable /\ Printable \subseteq Chars
    /\ NumberLabels \subseteq Printable
    /\ "%" \in Chars /\ "x" \in Chars /\ "\n" \in Printable /\ "0x" \in Printable
  <1>1. Digits \subseteq Printable
    BY DEF Printable, Chars, Digits
  <1>2. \A i \in 1 .. 20 : Messages[i] # "%"
    BY MessageMarks DEF Marks
  <1>3. Labels \subseteq Printable
    BY <1>2 DEF Printable, Chars, Labels
  <1>4. NumberLabels \subseteq Labels /\ "\n" \in Labels /\ "0x" \in Labels
    BY DEF NumberLabels, Labels
  <1> QED
    BY <1>1, <1>3, <1>4 DEF Printable, Chars, Letters

\* A call of the report is plain text or a label with a number.
LEMMA PieceTypes ==
    ASSUME NEW p \in Pieces
    PROVE  /\ Text(p) \in Seq(Chars)
           /\ \/ p.args = << >> /\ p.format \in Seq(Printable) /\ Text(p) = p.format
              \/ \E l \in NumberLabels, n \in Words :
                    /\ p.format = << l, "%", "x", "\n" >> /\ p.args = << n >>
                    /\ Text(p) = << l >> \o (Numeral(n, 16, FALSE, 0) \o << "\n" >>)
  <1>1. ASSUME NEW s \in Seq(Printable), p = [format |-> s, args |-> << >>]
        PROVE  p.args = << >> /\ p.format \in Seq(Printable) /\ Text(p) = p.format
               /\ Text(p) \in Seq(Chars)
    <2>1. s \in Seq(Chars)
      BY CharFacts, SeqMonotonic
    <2> QED
      BY <1>1, <2>1 DEF Text
  <1>2. ASSUME NEW l \in NumberLabels, NEW n \in Words,
               p = [format |-> << l, "%", "x", "\n" >>, args |-> << n >>]
        PROVE  /\ p.format = << l, "%", "x", "\n" >> /\ p.args = << n >>
               /\ Text(p) = << l >> \o (Numeral(n, 16, FALSE, 0) \o << "\n" >>)
               /\ Text(p) \in Seq(Chars)
    <2>1. p.format = << l, "%", "x", "\n" >> /\ p.args = << n >> /\ p.args # << >>
          /\ p.format[1] = l /\ p.args[1] = n
      BY <1>2
    <2>2. Text(p) = << l >> \o (Numeral(n, 16, FALSE, 0) \o << "\n" >>)
      BY <2>1 DEF Text
    <2>3. << l >> \in Seq(Chars) /\ << "\n" >> \in Seq(Chars)
      BY CharFacts
    <2>4. Numeral(n, 16, FALSE, 0) \in Seq(Chars)
      <3>1. 0 \in Int /\ 16 \in 10 .. 16
        OBVIOUS
      <3> QED
        BY <3>1, NumeralChars, Zenon
    <2> DEFINE s == Numeral(n, 16, FALSE, 0)
    <2>5. s \in Seq(Chars)
      BY <2>4
    <2> HIDE DEF s
    <2>6. s \o << "\n" >> \in Seq(Chars)
      BY <2>3, <2>5, ConcatProperties
    <2>7. << l >> \o (s \o << "\n" >>) \in Seq(Chars)
      BY <2>3, <2>6, ConcatProperties
    <2> QED
      BY <2>1, <2>2, <2>7 DEF s
  <1>3. \/ \E s \in Seq(Printable) : p = [format |-> s, args |-> << >>]
        \/ \E l \in NumberLabels, n \in Words :
              p = [format |-> << l, "%", "x", "\n" >>, args |-> << n >>]
    <2> DEFINE A == {[format |-> s, args |-> << >>] : s \in Seq(Printable)}
               B == {[format |-> << l, "%", "x", "\n" >>, args |-> << n >>] :
                        l \in NumberLabels, n \in Words}
    <2>1. p \in A \/ p \in B
      <3> HIDE DEF A, B
      <3>1. Pieces = A \cup B
        BY DEF Pieces, A, B
      <3> QED
        BY <3>1
    <2>2. CASE p \in A
      BY <2>2
    <2>3. CASE p \in B
      BY <2>3
    <2> QED
      BY <2>1, <2>2, <2>3
  <1> QED
    BY <1>1, <1>2, <1>3

\* Each call contributes its text.
LEMMA TextsTypes ==
    ASSUME NEW cs \in Seq(Pieces)
    PROVE  /\ TextsOf(cs) \in Seq(Seq(Chars)) /\ Len(TextsOf(cs)) = Len(cs)
           /\ \A i \in 1 .. Len(cs) : TextsOf(cs)[i] = Text(cs[i])
           /\ Texts(cs) \in Seq(Chars)
  <1>1. Len(cs) \in Nat /\ \A i \in 1 .. Len(cs) : Text(cs[i]) \in Seq(Chars)
    <2>1. Len(cs) \in Nat /\ \A i \in 1 .. Len(cs) : cs[i] \in Pieces
      BY ElementOfSeq
    <2> QED
      BY <2>1, PieceTypes
  <1>2. TextsOf(cs) \in Seq(Seq(Chars)) /\ Len(TextsOf(cs)) = Len(cs)
    BY <1>1 DEF TextsOf
  <1>3. Texts(cs) \in Seq(Chars)
    <2>1. Len(TextsOf(cs)) \in 0 .. Len(TextsOf(cs))
      BY <1>1, <1>2
    <2> QED
      BY <1>2, <2>1, JoinedFacts DEF Texts
  <1> QED
    BY <1>2, <1>3 DEF TextsOf

\* Two parts of a report print one after the other.
LEMMA TextsConcat ==
    ASSUME NEW a \in Seq(Pieces), NEW b \in Seq(Pieces)
    PROVE  a \o b \in Seq(Pieces) /\ Texts(a \o b) = Texts(a) \o Texts(b)
  <1> DEFINE s == TextsOf(a \o b)
             t == TextsOf(a) \o TextsOf(b)
             m == Len(a)
             n == Len(b)
  <1>1. /\ m \in Nat /\ n \in Nat /\ a \o b \in Seq(Pieces) /\ Len(a \o b) = m + n
        /\ \A i \in 1 .. m + n : (a \o b)[i] = IF i <= m THEN a[i] ELSE b[i - m]
    BY ConcatProperties
  <1>2. /\ s \in Seq(Seq(Chars)) /\ Len(s) = m + n
        /\ \A i \in 1 .. m + n : s[i] = Text((a \o b)[i])
    <2> DEFINE c == a \o b
    <2>1. c \in Seq(Pieces) /\ Len(c) = m + n
      BY <1>1
    <2> HIDE DEF c
    <2>2. TextsOf(c) \in Seq(Seq(Chars)) /\ Len(TextsOf(c)) = m + n
          /\ \A i \in 1 .. m + n : TextsOf(c)[i] = Text(c[i])
      BY <2>1, TextsTypes
    <2> QED
      BY <2>2 DEF c
  <1>3. /\ TextsOf(a) \in Seq(Seq(Chars)) /\ Len(TextsOf(a)) = m
        /\ TextsOf(b) \in Seq(Seq(Chars)) /\ Len(TextsOf(b)) = n
        /\ \A i \in 1 .. m : TextsOf(a)[i] = Text(a[i])
        /\ \A i \in 1 .. n : TextsOf(b)[i] = Text(b[i])
    BY TextsTypes
  <1> HIDE DEF m, n, s
  <1>4. /\ t \in Seq(Seq(Chars)) /\ Len(t) = m + n
        /\ \A i \in 1 .. m + n : t[i] = IF i <= m THEN TextsOf(a)[i] ELSE TextsOf(b)[i - m]
    BY <1>1, <1>3, ConcatProperties, ZenonT(40)
  <1>5. ASSUME NEW i \in 1 .. m + n PROVE s[i] = t[i]
    <2>1. i <= m => i \in 1 .. m
      BY <1>1
    <2>2. ~(i <= m) => i - m \in 1 .. n
      BY <1>1
    <2> HIDE DEF t
    <2> QED
      <3>1. CASE i <= m
        <4>1. TextsOf(a)[i] = Text(a[i])
          BY <1>3, <2>1, <3>1
        <4>2. t[i] = TextsOf(a)[i] /\ (a \o b)[i] = a[i]
          BY <1>1, <1>4, <3>1, Zenon
        <4> QED
          BY <1>2, <4>1, <4>2, Zenon
      <3>2. CASE ~(i <= m)
        <4>1. TextsOf(b)[i - m] = Text(b[i - m])
          BY <1>3, <2>2, <3>2
        <4>2. t[i] = TextsOf(b)[i - m] /\ (a \o b)[i] = b[i - m]
          BY <1>1, <1>4, <3>2, Zenon
        <4> QED
          BY <1>2, <4>1, <4>2, Zenon
      <3> QED
        BY ONLY <3>1, <3>2, Zenon
  <1>6. s = t
    <2> HIDE DEF t
    <2> QED
      BY <1>2, <1>4, <1>5, SeqEqual
  <1> QED
    BY <1>1, <1>3, <1>6, FlattenConcat DEF Texts, s

-----------------------------------------------------------------------------
\* cs prints label with text after it.
Holds(cs, label, text) ==
    \E a, b \in Seq(Chars) : Texts(cs) = a \o ((<< label >> \o text) \o b)
MarksIn(cs) == {m \in Marks : \E i \in 1 .. Len(Texts(cs)) : Texts(cs)[i] = m}

\* A part of a report: the labels it prints with their text, and its marks.
Covers(cs, shown, marks) ==
    /\ cs \in Seq(Pieces)
    /\ \A p \in shown : p[1] \in Printable /\ p[2] \in Seq(Chars) /\ Holds(cs, p[1], p[2])
    /\ MarksIn(cs) = marks

\* The header comes once.
Once(cs) ==
    \E j \in 1 .. Len(Texts(cs)) :
       \A i \in 1 .. Len(Texts(cs)) : Texts(cs)[i] = Header <=> i = j

\* What is in one part or the other is in both together.
LEMMA HoldsConcat ==
    ASSUME NEW cs \in Seq(Pieces), NEW ds \in Seq(Pieces), NEW label \in Printable,
           NEW text \in Seq(Chars), Holds(cs, label, text) \/ Holds(ds, label, text)
    PROVE  Holds(cs \o ds, label, text)
  <1> DEFINE x == Texts(cs)
             y == Texts(ds)
             z == << label >> \o text
  <1>0. x \in Seq(Chars) /\ y \in Seq(Chars)
    BY TextsTypes
  <1>1. x \in Seq(Chars) /\ y \in Seq(Chars) /\ Texts(cs \o ds) = x \o y
    BY <1>0, TextsConcat
  <1>2. z \in Seq(Chars)
    <2>1. << label >> \in Seq(Chars)
      BY CharFacts
    <2> QED
      BY <2>1, ConcatProperties
  <1>3. CASE Holds(cs, label, text)
    <2>1. PICK a \in Seq(Chars), b \in Seq(Chars) : x = a \o (z \o b)
      BY <1>3 DEF Holds
    <2> HIDE DEF x, y, z
    <2>2. b \o y \in Seq(Chars) /\ z \o b \in Seq(Chars)
      BY <1>1, <1>2, <2>1, ConcatProperties
    <2>3. (z \o b) \o y = z \o (b \o y)
      <3>1. Cat(Cat(z, b), y) = Cat(z, Cat(b, y))
        BY ONLY <1>0, <1>2, b \in Seq(Chars), CatAssociative
      <3> QED
        BY ONLY <3>1, Zenon DEF Cat
    <2>4. (a \o (z \o b)) \o y = a \o ((z \o b) \o y)
      <3> DEFINE w == z \o b
      <3>1. w \in Seq(Chars)
        BY <2>2
      <3> HIDE DEF w
      <3>2. a \in Seq(Chars) /\ y \in Seq(Chars)
        BY <1>0, <2>1
      <3>3. (a \o w) \o y = a \o (w \o y)
        <4>1. Cat(Cat(a, w), y) = Cat(a, Cat(w, y))
          BY ONLY <3>1, <3>2, CatAssociative
        <4> QED
          BY ONLY <4>1, Zenon DEF Cat
      <3> QED
        BY <3>3 DEF w
    <2>5. x \o y = a \o (z \o (b \o y))
      BY <2>1, <2>3, <2>4
    <2> QED
      BY <1>1, <2>2, <2>5 DEF Holds, z
  <1>4. CASE Holds(ds, label, text)
    <2>1. PICK a \in Seq(Chars), b \in Seq(Chars) : y = a \o (z \o b)
      BY <1>4 DEF Holds
    <2> HIDE DEF x, y, z
    <2>2. x \o a \in Seq(Chars) /\ z \o b \in Seq(Chars)
      BY <1>1, <1>2, <2>1, ConcatProperties
    <2>3. x \o (a \o (z \o b)) = (x \o a) \o (z \o b)
      <3> DEFINE w == z \o b
      <3>1. w \in Seq(Chars)
        BY <2>2
      <3> HIDE DEF w
      <3>2. (x \o a) \o w = x \o (a \o w)
        <4>1. Cat(Cat(x, a), w) = Cat(x, Cat(a, w))
          BY ONLY <1>0, <3>1, a \in Seq(Chars), CatAssociative
        <4> QED
          BY ONLY <4>1, Zenon DEF Cat
      <3> QED
        BY <3>2 DEF w
    <2>4. x \o y = (x \o a) \o (z \o b)
      BY <2>1, <2>3
    <2> QED
      BY <1>1, <2>2, <2>4 DEF Holds, z
  <1> QED
    BY <1>3, <1>4

\* The characters of a concatenation.
LEMMA TextsAt ==
    ASSUME NEW cs \in Seq(Pieces), NEW ds \in Seq(Pieces)
    PROVE  LET m == Len(Texts(cs))
               n == Len(Texts(ds))
               t == Texts(cs \o ds)
           IN  /\ m \in Nat /\ n \in Nat /\ Len(t) = m + n
               /\ \A i \in 1 .. m : i \in 1 .. m + n /\ t[i] = Texts(cs)[i]
               /\ \A i \in 1 .. n : m + i \in 1 .. m + n /\ t[m + i] = Texts(ds)[i]
               /\ \A i \in 1 .. m + n : i \in 1 .. m \/ (i - m \in 1 .. n /\ m + (i - m) = i)
  <1> DEFINE x == Texts(cs)
             y == Texts(ds)
             m == Len(x)
             n == Len(y)
             t == x \o y
  <1>1. x \in Seq(Chars) /\ y \in Seq(Chars) /\ Texts(cs \o ds) = t
    BY TextsTypes, TextsConcat
  <1> HIDE DEF x, y
  <1>2. /\ m \in Nat /\ n \in Nat /\ Len(t) = m + n
        /\ \A i \in 1 .. m + n : t[i] = IF i <= m THEN x[i] ELSE y[i - m]
    BY <1>1, ConcatProperties
  <1> HIDE DEF m, n, t
  <1>3. ASSUME NEW i \in 1 .. m PROVE i \in 1 .. m + n /\ t[i] = x[i]
    BY <1>2
  <1>4. ASSUME NEW i \in 1 .. n PROVE m + i \in 1 .. m + n /\ t[m + i] = y[i]
    <2>1. m + i \in 1 .. m + n /\ ~(m + i <= m) /\ (m + i) - m = i
      BY <1>2
    <2> QED
      BY <1>2, <2>1
  <1>5. ASSUME NEW i \in 1 .. m + n PROVE i \in 1 .. m \/ (i - m \in 1 .. n /\ m + (i - m) = i)
    BY <1>2
  <1> QED
    BY <1>1, <1>2, <1>3, <1>4, <1>5 DEF x, y, m, n

\* The marks of two parts are those of either.
LEMMA MarksConcat ==
    ASSUME NEW cs \in Seq(Pieces), NEW ds \in Seq(Pieces)
    PROVE  MarksIn(cs \o ds) = MarksIn(cs) \cup MarksIn(ds)
  <1> DEFINE m == Len(Texts(cs))
             n == Len(Texts(ds))
             t == Texts(cs \o ds)
  <1>1. /\ m \in Nat /\ n \in Nat /\ Len(t) = m + n
        /\ \A i \in 1 .. m : i \in 1 .. m + n /\ t[i] = Texts(cs)[i]
        /\ \A i \in 1 .. n : m + i \in 1 .. m + n /\ t[m + i] = Texts(ds)[i]
        /\ \A i \in 1 .. m + n : i \in 1 .. m \/ (i - m \in 1 .. n /\ m + (i - m) = i)
    BY TextsAt
  <1> HIDE DEF m, n, t
  <1>2. ASSUME NEW c
        PROVE  (\E i \in 1 .. m + n : t[i] = c)
               <=> (\E i \in 1 .. m : Texts(cs)[i] = c) \/ (\E i \in 1 .. n : Texts(ds)[i] = c)
    <2>1. ASSUME NEW i \in 1 .. m + n, t[i] = c
          PROVE  (\E j \in 1 .. m : Texts(cs)[j] = c) \/ (\E j \in 1 .. n : Texts(ds)[j] = c)
      <3>1. CASE i \in 1 .. m
        BY <1>1, <2>1, <3>1
      <3>2. CASE i - m \in 1 .. n /\ m + (i - m) = i
        <4>1. t[m + (i - m)] = Texts(ds)[i - m]
          BY <1>1, <3>2
        <4> QED
          BY <2>1, <3>2, <4>1
      <3> QED
        BY <1>1, <3>1, <3>2
    <2>2. ASSUME NEW i \in 1 .. m, Texts(cs)[i] = c PROVE \E j \in 1 .. m + n : t[j] = c
      BY <1>1, <2>2
    <2>3. ASSUME NEW i \in 1 .. n, Texts(ds)[i] = c PROVE \E j \in 1 .. m + n : t[j] = c
      BY <1>1, <2>3
    <2> QED
      BY <2>1, <2>2, <2>3
  <1>3. /\ MarksIn(cs \o ds) = {c \in Marks : \E i \in 1 .. m + n : t[i] = c}
        /\ MarksIn(cs) = {c \in Marks : \E i \in 1 .. m : Texts(cs)[i] = c}
        /\ MarksIn(ds) = {c \in Marks : \E i \in 1 .. n : Texts(ds)[i] = c}
    BY <1>1 DEF MarksIn, m, n, t
  <1> QED
    BY <1>2, <1>3

\* The header is printed once if one part prints it once and the other does not.
LEMMA OnceConcat ==
    ASSUME NEW cs \in Seq(Pieces), NEW ds \in Seq(Pieces),
           \/ Once(cs) /\ Header \notin MarksIn(ds)
           \/ Header \notin MarksIn(cs) /\ Once(ds)
    PROVE  Once(cs \o ds)
  <1> DEFINE m == Len(Texts(cs))
             n == Len(Texts(ds))
             t == Texts(cs \o ds)
  <1>1. /\ m \in Nat /\ n \in Nat /\ Len(t) = m + n
        /\ \A i \in 1 .. m : i \in 1 .. m + n /\ t[i] = Texts(cs)[i]
        /\ \A i \in 1 .. n : m + i \in 1 .. m + n /\ t[m + i] = Texts(ds)[i]
        /\ \A i \in 1 .. m + n : i \in 1 .. m \/ (i - m \in 1 .. n /\ m + (i - m) = i)
    BY TextsAt
  <1>2. /\ Header \notin MarksIn(cs) => \A i \in 1 .. m : Texts(cs)[i] # Header
        /\ Header \notin MarksIn(ds) => \A i \in 1 .. n : Texts(ds)[i] # Header
    <2>1. Header \in Marks
      BY DEF Marks
    <2> QED
      BY <2>1 DEF MarksIn
  <1>3. CASE Once(cs) /\ Header \notin MarksIn(ds)
    <2>1. PICK j \in 1 .. m : \A i \in 1 .. m : Texts(cs)[i] = Header <=> i = j
      BY <1>3 DEF Once
    <2> HIDE DEF m, n, t
    <2>2. ASSUME NEW i \in 1 .. m + n PROVE t[i] = Header <=> i = j
      <3>1. CASE i \in 1 .. m
        BY <1>1, <2>1, <3>1
      <3>2. CASE i - m \in 1 .. n /\ m + (i - m) = i
        <4>1. t[i] # Header
          BY <1>1, <1>2, <1>3, <3>2
        <4>2. i # j
          BY <1>1, <3>2
        <4> QED
          BY <4>1, <4>2
      <3> QED
        BY <1>1, <3>1, <3>2
    <2>3. j \in 1 .. m + n
      BY <1>1
    <2>4. \E k \in 1 .. Len(t) : \A i \in 1 .. Len(t) : t[i] = Header <=> i = k
      <3>1. Len(t) = m + n
        BY <1>1
      <3> QED
        <4>1. j \in 1 .. Len(t)
          BY ONLY <2>3, <3>1, Zenon
        <4>2. ASSUME NEW i \in 1 .. Len(t) PROVE t[i] = Header <=> i = j
          BY <2>2, <3>1, Zenon
        <4> QED
          BY ONLY <4>1, <4>2, Zenon
    <2> QED
      BY <2>4 DEF Once, t
  <1>4. CASE Header \notin MarksIn(cs) /\ Once(ds)
    <2>1. PICK j \in 1 .. n : \A i \in 1 .. n : Texts(ds)[i] = Header <=> i = j
      BY <1>4 DEF Once
    <2> HIDE DEF m, n, t
    <2>2. ASSUME NEW i \in 1 .. m + n PROVE t[i] = Header <=> i = m + j
      <3>1. CASE i \in 1 .. m
        <4>1. t[i] # Header
          BY <1>1, <1>2, <1>4, <3>1
        <4>2. i # m + j
          BY <1>1, <3>1
        <4> QED
          BY <4>1, <4>2
      <3>2. CASE i - m \in 1 .. n /\ m + (i - m) = i
        <4>1. t[i] = Texts(ds)[i - m]
          BY <1>1, <3>2
        <4>2. i - m = j <=> i = m + j
          BY <1>1
        <4> QED
          BY <2>1, <3>2, <4>1, <4>2
      <3> QED
        BY <1>1, <3>1, <3>2
    <2>3. m + j \in 1 .. m + n
      BY <1>1
    <2>4. \E k \in 1 .. Len(t) : \A i \in 1 .. Len(t) : t[i] = Header <=> i = k
      <3>1. Len(t) = m + n
        BY <1>1
      <3> QED
        <4>1. m + j \in 1 .. Len(t)
          BY ONLY <2>3, <3>1, Zenon
        <4>2. ASSUME NEW i \in 1 .. Len(t) PROVE t[i] = Header <=> i = m + j
          BY <2>2, <3>1, Zenon
        <4> QED
          BY ONLY <4>1, <4>2, Zenon
    <2> QED
      BY <2>4 DEF Once, t
  <1> QED
    BY <1>3, <1>4

\* Two parts together cover what each of them does.
LEMMA CoversConcat ==
    ASSUME NEW cs, NEW ds, NEW shown1, NEW shown2, NEW marks1, NEW marks2,
           Covers(cs, shown1, marks1), Covers(ds, shown2, marks2)
    PROVE  Covers(cs \o ds, shown1 \cup shown2, marks1 \cup marks2)
  <1>1. cs \in Seq(Pieces) /\ ds \in Seq(Pieces)
    BY DEF Covers
  <1>2. cs \o ds \in Seq(Pieces)
    BY <1>1, ConcatProperties
  <1>3. MarksIn(cs \o ds) = marks1 \cup marks2
    BY <1>1, MarksConcat DEF Covers
  <1>4. ASSUME NEW p \in shown1 \cup shown2
        PROVE  p[1] \in Printable /\ p[2] \in Seq(Chars) /\ Holds(cs \o ds, p[1], p[2])
    <2>1. /\ p[1] \in Printable /\ p[2] \in Seq(Chars)
          /\ Holds(cs, p[1], p[2]) \/ Holds(ds, p[1], p[2])
      BY DEF Covers
    <2> QED
      BY <1>1, <2>1, HoldsConcat
  <1> QED
    BY <1>2, <1>3, <1>4 DEF Covers

-----------------------------------------------------------------------------
\* The parts of a report, from single calls up.
LEMMA OneText ==
    ASSUME NEW p \in Pieces
    PROVE  << p >> \in Seq(Pieces) /\ Texts(<< p >>) = Text(p)
  <1> DEFINE t == Text(p)
             ss == << t >>
  <1>1. << p >> \in Seq(Pieces) /\ Len(<< p >>) = 1 /\ << p >>[1] = p
    OBVIOUS
  <1>2. t \in Seq(Chars)
    BY PieceTypes
  <1>3. TextsOf(<< p >>) = ss
    BY <1>1 DEF TextsOf
  <1> HIDE DEF t
  <1>4. ss \in Seq(Seq(Chars)) /\ Len(ss) = 1 /\ ss[1] = t
    BY <1>2
  <1> HIDE DEF ss
  <1>5. 1 \in 1 .. Len(ss) /\ 1 - 1 = 0
    BY <1>4
  <1>6. Joined(ss, 1) = Joined(ss, 0) \o t /\ Joined(ss, 0) = << >> /\ Joined(ss, 1) = FlattenSeq(ss)
    BY <1>4, <1>5, JoinedFacts
  <1>7. FlattenSeq(ss) = t
    BY <1>2, <1>6, ConcatEmptySeq
  <1> QED
    BY <1>1, <1>3, <1>7 DEF Texts, t

\* A call with text prints it.
LEMMA SayText ==
    ASSUME NEW l \in Printable
    PROVE  Say(l) \in Seq(Pieces) /\ Texts(Say(l)) = << l >>
  <1> DEFINE f == << l >>
             p == [format |-> f, args |-> << >>]
  <1>1. f \in Seq(Printable)
    OBVIOUS
  <1>3. Text(p) = << l >>
    BY DEF Text
  <1>4. Say(l) = << p >>
    BY DEF Say
  <1> HIDE DEF f
  <1>2. p \in Pieces
    BY <1>1 DEF Pieces
  <1> HIDE DEF p
  <1> QED
    BY <1>2, <1>3, <1>4, OneText

\* A call with nothing but digits, as print_hex and kprint_unsigned make it.
LEMMA DigitsText ==
    ASSUME NEW s \in Seq(Digits)
    PROVE  /\ << [format |-> s, args |-> << >>] >> \in Seq(Pieces)
           /\ Texts(<< [format |-> s, args |-> << >>] >>) = s
  <1> DEFINE p == [format |-> s, args |-> << >>]
  <1>1. s \in Seq(Printable)
    BY CharFacts, SeqMonotonic
  <1>2. p \in Pieces
    BY <1>1 DEF Pieces
  <1>3. Text(p) = s
    BY DEF Text
  <1> HIDE DEF p
  <1>4. << p >> \in Seq(Pieces) /\ Texts(<< p >>) = s
    BY <1>2, <1>3, OneText
  <1> QED
    BY <1>4 DEF p

\* A label with a text of digits after it, from two parts that print them.
LEMMA LabelCovers ==
    ASSUME NEW cs \in Seq(Pieces), NEW l \in Printable, NEW s \in Seq(Chars),
           Texts(cs) = << l >> \o s, \A i \in 1 .. Len(s) : s[i] \notin Marks
    PROVE  Covers(cs, {<< l, s >>}, {l} \cap Marks)
  <1>1. << l >> \in Seq(Chars) /\ Len(<< l >>) = 1
    BY CharFacts
  <1> DEFINE x == << l >>
             t == x \o s
  <1>2. x \in Seq(Chars) /\ Len(x) = 1 /\ x[1] = l
    BY <1>1
  <1> HIDE DEF x
  <1>3. t \in Seq(Chars)
    BY <1>2, ConcatProperties
  <1>4. t = << >> \o (t \o << >>) /\ << >> \in Seq(Chars)
    BY <1>3, ConcatEmptySeq
  <1>5. Holds(cs, l, s)
    <2>1. Texts(cs) = << >> \o ((<< l >> \o s) \o << >>)
      BY <1>4 DEF x
    <2> QED
      BY <1>4, <2>1 DEF Holds
  <1>6. MarksIn(cs) = {l} \cap Marks
    <2>1. /\ Len(s) \in Nat /\ Len(t) = 1 + Len(s) /\ t[1] = l
          /\ \A i \in 1 .. Len(s) : t[1 + i] = s[i]
      <3> DEFINE n == Len(s)
      <3>1. /\ n \in Nat /\ Len(t) = 1 + n
            /\ \A i \in 1 .. 1 : t[i] = x[i]
            /\ \A i \in 1 .. n : t[1 + i] = s[i]
        <4> DEFINE k == Len(x)
        <4>1. x \in Seq(Chars) /\ s \in Seq(Chars) /\ Len(x) = k /\ Len(s) = n
          BY <1>2
        <4>2. k = 1
          BY <1>2
        <4> HIDE DEF n, k
        <4>3. /\ n \in Nat /\ Len(t) = k + n
              /\ \A i \in 1 .. k : t[i] = x[i]
              /\ \A i \in 1 .. n : t[k + i] = s[i]
          BY ONLY <4>1, ConcatAt
        <4> HIDE DEF t
        <4> QED
          BY ONLY <4>2, <4>3
      <3>2. 1 \in 1 .. 1
        OBVIOUS
      <3> HIDE DEF t
      <3> QED
        BY <1>2, <3>1, <3>2
    <2>2. \A i \in 1 .. Len(t) : i = 1 \/ (i - 1 \in 1 .. Len(s) /\ 1 + (i - 1) = i)
      BY <2>1
    <2>3. Texts(cs) = t
      BY DEF x
    <2> HIDE DEF t
    <2>4. ASSUME NEW i \in 1 .. Len(t), t[i] \in Marks PROVE t[i] = l
      <3>1. CASE i = 1
        BY <2>1, <3>1
      <3>2. CASE i - 1 \in 1 .. Len(s) /\ 1 + (i - 1) = i
        <4>1. t[1 + (i - 1)] = s[i - 1]
          BY <2>1, <3>2
        <4> QED
          BY <2>4, <3>2, <4>1
      <3> QED
        BY <2>2, <3>1, <3>2
    <2>5. 1 \in 1 .. Len(t)
      BY <2>1
    <2>6. MarksIn(cs) = {m \in Marks : \E i \in 1 .. Len(t) : t[i] = m}
      BY <2>3 DEF MarksIn
    <2> QED
      BY <2>1, <2>4, <2>5, <2>6
  <1> DEFINE p == << l, s >>
  <1>7. p[1] = l /\ p[2] = s
    OBVIOUS
  <1> HIDE DEF p
  <1>8. \A q \in {p} : q[1] \in Printable /\ q[2] \in Seq(Chars) /\ Holds(cs, q[1], q[2])
    BY <1>5, <1>7
  <1>9. Covers(cs, {p}, {l} \cap Marks)
    BY <1>6, <1>8 DEF Covers
  <1> QED
    BY <1>9 DEF p

\* Digits are no marks.
LEMMA NumeralMarks ==
    ASSUME NEW n \in Words, NEW base \in 10 .. 16, NEW uppercase, NEW width \in Int
    PROVE  /\ Numeral(n, base, uppercase, width) \in Seq(Digits)
           /\ Numeral(n, base, uppercase, width) \in Seq(Chars)
           /\ \A i \in 1 .. Len(Numeral(n, base, uppercase, width)) :
                 Numeral(n, base, uppercase, width)[i] \notin Marks
  <1> DEFINE s == Numeral(n, base, uppercase, width)
  <1>1. s \in Seq(Digits) /\ s \in Seq(Chars)
    BY NumeralTypes, NumeralChars
  <1> HIDE DEF s
  <1>2. \A c \in Digits : c \notin Marks
    BY DEF Digits, Marks, Header
  <1>3. \A i \in 1 .. Len(s) : s[i] \in Digits
    BY <1>1, ElementOfSeq
  <1>4. \A i \in 1 .. Len(s) : s[i] \notin Marks
    BY <1>2, <1>3
  <1> QED
    BY <1>1, <1>4 DEF s

\* Text alone, ...
LEMMA SayCovers ==
    ASSUME NEW l \in Printable
    PROVE  Covers(Say(l), {<< l, << >> >>}, {l} \cap Marks)
  <1> DEFINE s == << >>
  <1>1. Say(l) \in Seq(Pieces) /\ Texts(Say(l)) = << l >>
    BY SayText
  <1>2. << l >> \in Seq(Chars)
    BY CharFacts
  <1>3. << l >> \o s = << l >>
    BY <1>2, ConcatEmptySeq
  <1>4. s \in Seq(Chars) /\ Texts(Say(l)) = << l >> \o s /\ \A i \in 1 .. Len(s) : s[i] \notin Marks
    BY <1>1, <1>3
  <1> HIDE DEF s
  <1>5. Covers(Say(l), {<< l, s >>}, {l} \cap Marks)
    BY <1>1, <1>4, LabelCovers
  <1> QED
    BY <1>5 DEF s

\* ... a label with a number as print_hex prints it, ...
LEMMA LabelledCovers ==
    ASSUME NEW l \in Printable, NEW n \in Words
    PROVE  Covers(LabelledHex(l, n), {<< l, Hex(n) >>}, {l} \cap Marks)
  <1> DEFINE s == Numeral(n, 16, TRUE, HexDigits)
             digits == << [format |-> s, args |-> << >>] >>
             zerox == << "0x" >>
  <1>0. HexDigits \in Int /\ 16 \in 10 .. 16
    BY PanicAssumption
  <1>1. /\ s \in Seq(Digits) /\ s \in Seq(Chars)
        /\ \A i \in 1 .. Len(s) : s[i] \notin Marks
    BY <1>0, NumeralMarks, Zenon
  <1>2. print_hex(n) = Say("0x") \o digits
    BY HexRight DEF Say
  <1>3. Hex(n) = zerox \o s
    BY DEF Hex
  <1> HIDE DEF s
  <1>4. digits \in Seq(Pieces) /\ Texts(digits) = s
    BY <1>1, DigitsText
  <1>5. Say("0x") \in Seq(Pieces) /\ Texts(Say("0x")) = zerox
    BY CharFacts, SayText
  <1>6. Say(l) \in Seq(Pieces) /\ Texts(Say(l)) = << l >>
    BY SayText
  <1> HIDE DEF digits
  <1>7. print_hex(n) \in Seq(Pieces) /\ Texts(print_hex(n)) = Hex(n)
    BY <1>2, <1>3, <1>4, <1>5, TextsConcat
  <1>8. LabelledHex(l, n) \in Seq(Pieces) /\ Texts(LabelledHex(l, n)) = << l >> \o Hex(n)
    <2> DEFINE h == print_hex(n)
               c == Say(l)
    <2>1. h \in Seq(Pieces) /\ c \in Seq(Pieces) /\ LabelledHex(l, n) = c \o h
          /\ Texts(h) = Hex(n) /\ Texts(c) = << l >>
      BY <1>6, <1>7 DEF LabelledHex
    <2> HIDE DEF h, c
    <2> QED
      BY <2>1, TextsConcat
  <1>9. Hex(n) \in Seq(Chars) /\ \A i \in 1 .. Len(Hex(n)) : Hex(n)[i] \notin Marks
    <2>1. zerox \in Seq(Chars) /\ Len(zerox) = 1 /\ zerox[1] = "0x" /\ "0x" \notin Marks
      BY CharFacts DEF Marks, Header
    <2> HIDE DEF zerox
    <2> DEFINE t == zerox \o s
    <2>2. /\ t \in Seq(Chars) /\ Len(t) = 1 + Len(s) /\ Len(s) \in Nat
          /\ \A i \in 1 .. 1 + Len(s) : t[i] = IF i <= 1 THEN zerox[i] ELSE s[i - 1]
      BY <1>1, <2>1, ConcatProperties, SMTT(30)
    <2> HIDE DEF t
    <2>3. ASSUME NEW i \in 1 .. Len(t) PROVE t[i] \notin Marks
      <3>1. CASE i = 1
        BY <2>1, <2>2, <3>1
      <3>2. CASE i # 1
        <4>1. i - 1 \in 1 .. Len(s) /\ ~(i <= 1) /\ i \in 1 .. 1 + Len(s)
          BY <2>2, <3>2
        <4> QED
          BY <1>1, <2>2, <4>1
      <3> QED
        BY <3>1, <3>2
    <2> QED
      BY <1>3, <2>2, <2>3 DEF t
  <1> DEFINE h == Hex(n)
             cs == LabelledHex(l, n)
  <1>10. /\ cs \in Seq(Pieces) /\ Texts(cs) = << l >> \o h /\ h \in Seq(Chars)
         /\ \A i \in 1 .. Len(h) : h[i] \notin Marks
    BY <1>8, <1>9
  <1> HIDE DEF h, cs
  <1>11. Covers(cs, {<< l, h >>}, {l} \cap Marks)
    BY <1>10, LabelCovers
  <1> QED
    BY <1>11 DEF h, cs

\* ... and one with a number that kprintf converts.
LEMMA NumberCovers ==
    ASSUME NEW l \in NumberLabels, NEW n \in Words
    PROVE  Covers(SayNumber(l, n), {<< l, Numeral(n, 16, FALSE, 0) >>}, {})
  <1> DEFINE s == Numeral(n, 16, FALSE, 0)
             p == [format |-> << l, "%", "x", "\n" >>, args |-> << n >>]
             end == << "\n" >>
             cs == SayNumber(l, n)
  <1>0. 0 \in Int /\ 16 \in 10 .. 16
    OBVIOUS
  <1>1. s \in Seq(Chars) /\ \A i \in 1 .. Len(s) : s[i] \notin Marks
    BY <1>0, NumeralMarks, Zenon
  <1>2. p \in Pieces /\ cs = << p >>
    BY DEF Pieces, SayNumber
  <1>3. Text(p) = << l >> \o (s \o end)
    <2>1. p.args # << >> /\ p.format[1] = l /\ p.args[1] = n
      OBVIOUS
    <2> QED
      BY <2>1 DEF Text
  <1> HIDE DEF s, p, cs
  <1>4. cs \in Seq(Pieces) /\ Texts(cs) = << l >> \o (s \o end)
    BY <1>2, <1>3, OneText
  <1>5. /\ l \in Printable /\ l \in Chars /\ l \notin Marks
        /\ end \in Seq(Chars) /\ Len(end) = 1 /\ end[1] = "\n" /\ "\n" \notin Marks
    <2>1. l \in Printable /\ l \in Chars
      BY CharFacts
    <2>2. l \notin Marks /\ "\n" \notin Marks
      BY DEF Marks, Header, NumberLabels
    <2>3. "\n" \in Chars
      BY CharFacts
    <2> QED
      BY <2>1, <2>2, <2>3
  <1> HIDE DEF end
  <1>6. s \o end \in Seq(Chars) /\ \A i \in 1 .. Len(s \o end) : (s \o end)[i] \notin Marks
    <2> DEFINE t == s \o end
    <2> DEFINE m == Len(s)
    <2>1. /\ m \in Nat /\ t \in Seq(Chars) /\ Len(t) = m + 1
          /\ \A i \in 1 .. m : t[i] = s[i]
          /\ \A i \in 1 .. 1 : t[m + i] = end[i]
          /\ \A i \in 1 .. m + 1 : i \in 1 .. m \/ (i - m \in 1 .. 1 /\ m + (i - m) = i)
      <3> DEFINE k == Len(end)
      <3>1. s \in Seq(Chars) /\ end \in Seq(Chars) /\ Len(s) = m /\ Len(end) = k
        BY <1>1, <1>5
      <3>2. k = 1
        BY <1>5
      <3> HIDE DEF m, k
      <3>3. /\ m \in Nat /\ t \in Seq(Chars) /\ Len(t) = m + k
            /\ \A i \in 1 .. m : t[i] = s[i]
            /\ \A i \in 1 .. k : t[m + i] = end[i]
            /\ \A i \in 1 .. m + k : i \in 1 .. m \/ (i - m \in 1 .. k /\ m + (i - m) = i)
        BY ONLY <3>1, ConcatAt
      <3> HIDE DEF t
      <3> QED
        BY ONLY <3>2, <3>3
    <2> HIDE DEF t, m
    <2>2. ASSUME NEW i \in 1 .. Len(t) PROVE t[i] \notin Marks
      <3>1. CASE i \in 1 .. m
        BY <1>1, <2>1, <3>1 DEF m
      <3>2. CASE i - m \in 1 .. 1 /\ m + (i - m) = i
        <4>1. t[m + (i - m)] = end[i - m] /\ i - m = 1
          BY <2>1, <3>2
        <4> QED
          BY <1>5, <3>2, <4>1
      <3> QED
        BY <2>1, <3>1, <3>2
    <2> QED
      BY <2>1, <2>2 DEF t
  <1>7. Covers(cs, {<< l, s \o end >>}, {l} \cap Marks)
    <2> DEFINE t == s \o end
    <2>1. t \in Seq(Chars) /\ Texts(cs) = << l >> \o t /\ \A i \in 1 .. Len(t) : t[i] \notin Marks
      BY <1>4, <1>6
    <2> HIDE DEF t
    <2>2. Covers(cs, {<< l, t >>}, {l} \cap Marks)
      BY <1>4, <1>5, <2>1, LabelCovers
    <2> QED
      BY <2>2 DEF t
  <1>8. Holds(cs, l, s)
    <2> DEFINE x == << l >>
               none == << >>
    <2>1. x \in Seq(Chars) /\ none \in Seq(Chars)
      BY <1>5
    <2>2. Texts(cs) = x \o (s \o end)
      BY <1>4
    <2> HIDE DEF x, none
    <2>3. (x \o s) \o end = x \o (s \o end)
      <3>1. s \in Seq(Chars) /\ end \in Seq(Chars)
        BY <1>1, <1>5
      <3> QED
        <4>1. Cat(Cat(x, s), end) = Cat(x, Cat(s, end))
          BY ONLY <2>1, <3>1, CatAssociative
        <4> QED
          BY ONLY <4>1, Zenon DEF Cat
    <2>4. (x \o s) \o end \in Seq(Chars)
      <3>1. x \o s \in Seq(Chars)
        BY <1>1, <2>1, ConcatProperties
      <3> QED
        BY <1>5, <3>1, ConcatProperties
    <2>5. none \o ((x \o s) \o end) = (x \o s) \o end
      BY <2>4, ConcatEmptySeq DEF none
    <2>6. Texts(cs) = none \o ((x \o s) \o end)
      BY <2>2, <2>3, <2>5
    <2> QED
      BY <1>5, <2>1, <2>6 DEF Holds, x
  <1>9. MarksIn(cs) = {}
    BY <1>5, <1>7 DEF Covers
  <1> DEFINE q == << l, s >>
  <1>10. q[1] = l /\ q[2] = s
    OBVIOUS
  <1> HIDE DEF q
  <1>11. \A r \in {q} : r[1] \in Printable /\ r[2] \in Seq(Chars) /\ Holds(cs, r[1], r[2])
    BY <1>1, <1>5, <1>8, <1>10
  <1>12. Covers(cs, {q}, {})
    BY <1>4, <1>9, <1>11 DEF Covers
  <1> QED
    BY <1>12 DEF q, cs, s

-----------------------------------------------------------------------------
\* A label that is no mark; a part without marks after another.
LEMMA PlainLabel ==
    ASSUME NEW l \in Labels, l \notin Marks, NEW n \in Words
    PROVE  Covers(LabelledHex(l, n), {<< l, Hex(n) >>}, {})
  <1>1. l \in Printable /\ {l} \cap Marks = {}
    BY CharFacts
  <1> QED
    BY <1>1, LabelledCovers

\* Text that is no mark.
LEMMA PlainText ==
    ASSUME NEW l \in Labels, l \notin Marks
    PROVE  Covers(Say(l), {<< l, << >> >>}, {})
  <1>1. l \in Printable /\ {l} \cap Marks = {}
    BY CharFacts
  <1> QED
    BY <1>1, SayCovers

\* A part without marks adds none.
LEMMA CoversAppend ==
    ASSUME NEW cs, NEW ds, NEW shown1, NEW shown2, NEW marks,
           Covers(cs, shown1, marks), Covers(ds, shown2, {})
    PROVE  Covers(cs \o ds, shown1 \cup shown2, marks)
  <1>1. Covers(cs \o ds, shown1 \cup shown2, marks \cup {})
    BY CoversConcat, Zenon
  <1>2. marks \cup {} = marks
    OBVIOUS
  <1> QED
    BY <1>1, <1>2

\* A part shows what it covers, and less.
LEMMA CoversLess ==
    ASSUME NEW cs, NEW shown, NEW marks, Covers(cs, shown, marks), NEW less, less \subseteq shown
    PROVE  Covers(cs, less, marks)
  BY DEF Covers

\* The registers.
FrameWords(f) ==
    /\ f.eax \in Words /\ f.ebx \in Words /\ f.ecx \in Words /\ f.edx \in Words
    /\ f.esp \in Words /\ f.ebp \in Words /\ f.esi \in Words /\ f.edi \in Words
    /\ f.eip \in Words /\ f.cs \in Words /\ f.eflags \in Words /\ f.ss \in Words
Registers(f) ==
    {<< "EAX=", Hex(f.eax) >>}
    \cup {<< "EBX=", Hex(f.ebx) >>}
    \cup {<< "ECX=", Hex(f.ecx) >>}
    \cup {<< "EDX=", Hex(f.edx) >>}
    \cup {<< "ESP=", Hex(f.esp) >>}
    \cup {<< "EBP=", Hex(f.ebp) >>}
    \cup {<< "ESI=", Hex(f.esi) >>}
    \cup {<< "EDI=", Hex(f.edi) >>}
    \cup {<< "EIP=", Hex(f.eip) >>}
    \cup {<< "CS=", Hex(f.cs) >>}
    \cup {<< "EFLAGS=", Hex(f.eflags) >>}
    \cup {<< "SS=", Hex(f.ss) >>}

\* The register dump shows every register of the frame.
LEMMA DumpCovers ==
    ASSUME NEW f, FrameWords(f)
    PROVE  Covers(show_register_dump(f), Registers(f), {})
  <1> DEFINE
       x1 == LabelledHex("EAX=", f.eax)
       x2 == LabelledHex("EBX=", f.ebx)
       x3 == LabelledHex("ECX=", f.ecx)
       x4 == LabelledHex("EDX=", f.edx)
       x5 == LabelledHex("ESP=", f.esp)
       x6 == LabelledHex("EBP=", f.ebp)
       x7 == LabelledHex("ESI=", f.esi)
       x8 == LabelledHex("EDI=", f.edi)
       x9 == LabelledHex("EIP=", f.eip)
       x10 == LabelledHex("CS=", f.cs)
       x11 == LabelledHex("EFLAGS=", f.eflags)
       x12 == LabelledHex("SS=", f.ss)
       r1 == {<< "EAX=", Hex(f.eax) >>}
       r2 == {<< "EBX=", Hex(f.ebx) >>}
       r3 == {<< "ECX=", Hex(f.ecx) >>}
       r4 == {<< "EDX=", Hex(f.edx) >>}
       r5 == {<< "ESP=", Hex(f.esp) >>}
       r6 == {<< "EBP=", Hex(f.ebp) >>}
       r7 == {<< "ESI=", Hex(f.esi) >>}
       r8 == {<< "EDI=", Hex(f.edi) >>}
       r9 == {<< "EIP=", Hex(f.eip) >>}
       r10 == {<< "CS=", Hex(f.cs) >>}
       r11 == {<< "EFLAGS=", Hex(f.eflags) >>}
       r12 == {<< "SS=", Hex(f.ss) >>}
       d2 == x1 \o x2
       d3 == d2 \o x3
       d4 == d3 \o x4
       d5 == d4 \o x5
       d6 == d5 \o x6
       d7 == d6 \o x7
       d8 == d7 \o x8
       d9 == d8 \o x9
       d10 == d9 \o x10
       d11 == d10 \o x11
       d12 == d11 \o x12
       s2 == r1 \cup r2
       s3 == s2 \cup r3
       s4 == s3 \cup r4
       s5 == s4 \cup r5
       s6 == s5 \cup r6
       s7 == s6 \cup r7
       s8 == s7 \cup r8
       s9 == s8 \cup r9
       s10 == s9 \cup r10
       s11 == s10 \cup r11
       s12 == s11 \cup r12
  <1>1. show_register_dump(f) = d12
    BY DEF show_register_dump
  <1>2. Registers(f) = s12
    BY DEF Registers
  <1>3. /\ "EAX=" \in Labels /\ "EAX=" \notin Marks
        /\ "EBX=" \in Labels /\ "EBX=" \notin Marks
        /\ "ECX=" \in Labels /\ "ECX=" \notin Marks
        /\ "EDX=" \in Labels /\ "EDX=" \notin Marks
        /\ "ESP=" \in Labels /\ "ESP=" \notin Marks
        /\ "EBP=" \in Labels /\ "EBP=" \notin Marks
        /\ "ESI=" \in Labels /\ "ESI=" \notin Marks
        /\ "EDI=" \in Labels /\ "EDI=" \notin Marks
        /\ "EIP=" \in Labels /\ "EIP=" \notin Marks
        /\ "CS=" \in Labels /\ "CS=" \notin Marks
        /\ "EFLAGS=" \in Labels /\ "EFLAGS=" \notin Marks
        /\ "SS=" \in Labels /\ "SS=" \notin Marks
    BY DEF Labels, Marks, Header
  <1>4. /\ Covers(x1, r1, {})
        /\ Covers(x2, r2, {})
        /\ Covers(x3, r3, {})
        /\ Covers(x4, r4, {})
        /\ Covers(x5, r5, {})
        /\ Covers(x6, r6, {})
        /\ Covers(x7, r7, {})
        /\ Covers(x8, r8, {})
        /\ Covers(x9, r9, {})
        /\ Covers(x10, r10, {})
        /\ Covers(x11, r11, {})
        /\ Covers(x12, r12, {})
    BY <1>3, PlainLabel DEF FrameWords
  <1> HIDE DEF x1, r1, x2, r2, x3, r3, x4, r4, x5, r5, x6, r6, x7, r7, x8, r8, x9, r9, x10, r10, x11, r11, x12, r12
  <1>5. Covers(d2, s2, {})
    BY <1>4, CoversAppend
  <1> HIDE DEF d2, s2
  <1>6. Covers(d3, s3, {})
    BY <1>4, <1>5, CoversAppend
  <1> HIDE DEF d3, s3
  <1>7. Covers(d4, s4, {})
    BY <1>4, <1>6, CoversAppend
  <1> HIDE DEF d4, s4
  <1>8. Covers(d5, s5, {})
    BY <1>4, <1>7, CoversAppend
  <1> HIDE DEF d5, s5
  <1>9. Covers(d6, s6, {})
    BY <1>4, <1>8, CoversAppend
  <1> HIDE DEF d6, s6
  <1>10. Covers(d7, s7, {})
    BY <1>4, <1>9, CoversAppend
  <1> HIDE DEF d7, s7
  <1>11. Covers(d8, s8, {})
    BY <1>4, <1>10, CoversAppend
  <1> HIDE DEF d8, s8
  <1>12. Covers(d9, s9, {})
    BY <1>4, <1>11, CoversAppend
  <1> HIDE DEF d9, s9
  <1>13. Covers(d10, s10, {})
    BY <1>4, <1>12, CoversAppend
  <1> HIDE DEF d10, s10
  <1>14. Covers(d11, s11, {})
    BY <1>4, <1>13, CoversAppend
  <1> HIDE DEF d11, s11
  <1>15. Covers(d12, s12, {})
    BY <1>4, <1>14, CoversAppend
  <1> HIDE DEF d12, s12
  <1> QED
    BY <1>1, <1>2, <1>15

\* What a page fault shows besides.
PageFaultShown(error, cr2) ==
    {<< "Faulting address: 0x", Numeral(cr2, 16, FALSE, 0) >>}
    \cup {<< "Error code: 0x", Numeral(error, 16, FALSE, 0) >>}

\* One of two texts that are no marks.
LEMMA EitherCovers ==
    ASSUME NEW b, NEW yes \in Labels, NEW no \in Labels, yes \notin Marks, no \notin Marks
    PROVE  Covers(Either(b, yes, no), {}, {})
  <1> DEFINE l == IF b THEN yes ELSE no
  <1>1. l \in Labels /\ l \notin Marks
    OBVIOUS
  <1>2. Either(b, yes, no) = Say(l)
    BY DEF Either
  <1> HIDE DEF l
  <1>3. Covers(Say(l), {<< l, << >> >>}, {})
    BY <1>1, PlainText
  <1> QED
    BY <1>2, <1>3, CoversLess

\* A part that is left out.
LEMMA NoneCovers == Covers(<< >>, {}, {})
  <1>1. << >> \in Seq(Pieces)
    OBVIOUS
  <1>2. Texts(<< >>) = << >>
    <2>1. TextsOf(<< >>) = << >>
      BY DEF TextsOf
    <2>2. << >> \in Seq(Seq(Chars)) /\ Len(<< >>) = 0
      OBVIOUS
    <2> QED
      BY <2>1, <2>2, JoinedFacts DEF Texts
  <1>3. MarksIn(<< >>) = {}
    BY <1>2 DEF MarksIn
  <1> QED
    BY <1>1, <1>3 DEF Covers

\* A text that may be left out.
LEMMA MaybeCovers ==
    ASSUME NEW b, NEW l \in Labels, l \notin Marks
    PROVE  Covers(IF b THEN Say(l) ELSE << >>, {}, {})
  <1>1. Covers(Say(l), {}, {})
    BY PlainText, CoversLess
  <1>2. CASE b
    BY <1>1, <1>2
  <1>3. CASE ~b
    BY <1>3, NoneCovers
  <1> QED
    BY <1>2, <1>3

\* The details of a page fault name the address, the error and a write.
LEMMA PageFaultCovers ==
    ASSUME NEW error \in Words, NEW cr2 \in Words
    PROVE  Covers(PageFaultDetails(error, cr2), PageFaultShown(error, cr2),
                  IF Bit(error, 1) THEN {"Write access "} ELSE {})
  <1> DEFINE
       x1 == SayNumber("Faulting address: 0x", cr2)
       x2 == SayNumber("Error code: 0x", error)
       x3 == Either(Bit(error, 0), "Page was present ", "Page not present ")
       x4 == Either(Bit(error, 1), "Write access ", "Read access ")
       x5 == Either(Bit(error, 2), "User mode ", "Kernel mode ")
       x6 == IF Bit(error, 3) THEN Say("Reserved bit violation ") ELSE << >>
       x7 == IF Bit(error, 4) THEN Say("Instruction fetch ") ELSE << >>
       r1 == {<< "Faulting address: 0x", Numeral(cr2, 16, FALSE, 0) >>}
       r2 == {<< "Error code: 0x", Numeral(error, 16, FALSE, 0) >>}
       marks == IF Bit(error, 1) THEN {"Write access "} ELSE {}
       d2 == x1 \o x2
       d3 == d2 \o x3
       d4 == d3 \o x4
       d5 == d4 \o x5
       d6 == d5 \o x6
       d7 == d6 \o x7
  <1>1. PageFaultDetails(error, cr2) = d7
    BY DEF PageFaultDetails
  <1>2. /\ "Page was present " \in Labels /\ "Page was present " \notin Marks
        /\ "Page not present " \in Labels /\ "Page not present " \notin Marks
        /\ "Read access " \in Labels /\ "Read access " \notin Marks
        /\ "User mode " \in Labels /\ "User mode " \notin Marks
        /\ "Kernel mode " \in Labels /\ "Kernel mode " \notin Marks
        /\ "Reserved bit violation " \in Labels /\ "Reserved bit violation " \notin Marks
        /\ "Instruction fetch " \in Labels /\ "Instruction fetch " \notin Marks
        /\ "Write access " \in Labels /\ "Write access " \in Marks
    BY DEF Labels, Marks, Header
  <1>3. Covers(x1, r1, {}) /\ Covers(x2, r2, {})
    <2>1. "Faulting address: 0x" \in NumberLabels /\ "Error code: 0x" \in NumberLabels
      BY DEF NumberLabels
    <2> QED
      BY <2>1, NumberCovers
  <1>4. Covers(x3, {}, {}) /\ Covers(x5, {}, {})
    BY <1>2, EitherCovers
  <1>5. Covers(x6, {}, {}) /\ Covers(x7, {}, {})
    BY <1>2, MaybeCovers
  <1>6. Covers(x4, {}, marks)
    <2>1. CASE Bit(error, 1)
      <3>1. x4 = Say("Write access ") /\ marks = {"Write access "}
        BY <2>1 DEF Either
      <3>2. "Write access " \in Printable /\ {"Write access "} \cap Marks = {"Write access "}
        BY <1>2, CharFacts
      <3>3. Covers(Say("Write access "), {<< "Write access ", << >> >>}, {"Write access "})
        BY <3>2, SayCovers
      <3> QED
        BY <3>1, <3>3, CoversLess
    <2>2. CASE ~Bit(error, 1)
      <3>1. x4 = Say("Read access ") /\ marks = {}
        BY <2>2 DEF Either
      <3>2. Covers(Say("Read access "), {<< "Read access ", << >> >>}, {})
        BY <1>2, PlainText
      <3> QED
        BY <3>1, <3>2, CoversLess
    <2> QED
      BY <2>1, <2>2
  <1> HIDE DEF x1, x2, x3, x4, x5, x6, x7, r1, r2, marks
  <1>7. Covers(d2, r1 \cup r2, {})
    BY <1>3, CoversAppend
  <1> HIDE DEF d2
  <1> DEFINE s == r1 \cup r2
  <1>8. PageFaultShown(error, cr2) = s
    BY DEF PageFaultShown, r1, r2
  <1>9. Covers(d2, s, {})
    BY <1>7
  <1> HIDE DEF s
  <1>10. Covers(d3, s, {})
    <2>1. Covers(d2 \o x3, s \cup {}, {})
      BY <1>4, <1>9, CoversAppend
    <2>2. s \cup {} = s
      OBVIOUS
    <2> QED
      BY <2>1, <2>2
  <1> HIDE DEF d3
  <1>11. Covers(d4, s, marks)
    <2>1. Covers(d3 \o x4, s \cup {}, {} \cup marks)
      BY <1>6, <1>10, CoversConcat
    <2>2. s \cup {} = s /\ {} \cup marks = marks
      OBVIOUS
    <2> QED
      BY <2>1, <2>2
  <1> HIDE DEF d4
  <1>12. ASSUME NEW ds, NEW es, Covers(ds, s, marks), Covers(es, {}, {})
         PROVE  Covers(ds \o es, s, marks)
    <2>1. Covers(ds \o es, s \cup {}, marks)
      BY <1>12, CoversAppend
    <2>2. s \cup {} = s
      OBVIOUS
    <2> QED
      BY <2>1, <2>2
  <1>13. Covers(d5, s, marks)
    BY <1>4, <1>11, <1>12
  <1> HIDE DEF d5
  <1>14. Covers(d6, s, marks)
    BY <1>5, <1>12, <1>13
  <1> HIDE DEF d6
  <1>15. Covers(d7, s, marks)
    BY <1>5, <1>12, <1>14
  <1> HIDE DEF d7
  <1> QED
    BY <1>1, <1>8, <1>15 DEF marks

\* The vector of an exception is a number that prints.
LEMMA VectorWords == 0 .. 19 \subseteq Words
  <1>1. Power(16, 2) = 256
    <2>1. 16 \in Nat \ {0} /\ 0 \in Nat /\ 1 \in Nat /\ 0 + 1 = 1 /\ 1 + 1 = 2
      OBVIOUS
    <2>2. Power(16, 0) = 1 /\ \A k \in Nat : Power(16, k + 1) = 16 * Power(16, k)
      BY <2>1, PowerFacts
    <2>3. Power(16, 1) = 16 * Power(16, 0) /\ Power(16, 2) = 16 * Power(16, 1)
      BY ONLY <2>1, <2>2
    <2> QED
      BY <2>2, <2>3
  <1>2. Power(16, 2) <= Power(16, HexDigits)
    <2>1. 16 \in Nat \ {0} /\ 2 \in Nat /\ HexDigits \in Nat /\ 2 <= HexDigits
      BY PanicAssumption
    <2> QED
      BY ONLY <2>1, PowerGrows
  <1>3. Word \in Nat /\ Power(16, HexDigits) = Word
    BY PanicAssumption, FormatAssumption
  <1>4. 256 <= Word
    BY <1>1, <1>2, <1>3
  <1> QED
    BY ONLY <1>3, <1>4 DEF Words

\* A part after which the header still has come once.
LEMMA OnceAppend ==
    ASSUME NEW cs, NEW ds, NEW shown1, NEW shown2, NEW marks1, NEW marks2,
           Covers(cs, shown1, marks1), Covers(ds, shown2, marks2),
           \/ Once(cs) /\ Header \notin marks2
           \/ Header \notin marks1 /\ Once(ds)
    PROVE  Once(cs \o ds)
  <1>1. cs \in Seq(Pieces) /\ ds \in Seq(Pieces) /\ MarksIn(cs) = marks1 /\ MarksIn(ds) = marks2
    BY DEF Covers
  <1> QED
    BY <1>1, OnceConcat

\* The header is printed once.
LEMMA HeaderCovers == Covers(Say(Header), {}, {Header}) /\ Once(Say(Header))
  <1>1. Header \in Printable /\ {Header} \cap Marks = {Header}
    BY CharFacts DEF Labels, Header, Marks
  <1>2. Covers(Say(Header), {}, {Header})
    BY <1>1, SayCovers, CoversLess
  <1>3. Once(Say(Header))
    <2> DEFINE t == << Header >>
    <2>1. Texts(Say(Header)) = t
      BY <1>1, SayText
    <2>2. Len(t) = 1 /\ t[1] = Header
      OBVIOUS
    <2> HIDE DEF t
    <2>3. 1 \in 1 .. Len(t) /\ \A i \in 1 .. Len(t) : t[i] = Header <=> i = 1
      BY <2>2
    <2> QED
      BY <2>1, <2>3 DEF Once
  <1> QED
    BY <1>2, <1>3

\* The number of the exception after its label.
LEMMA VectorCovers ==
    ASSUME NEW v \in Words
    PROVE  Covers(Say("Exception Number: ")
                     \o << [format |-> kprint_unsigned(v, 10, FALSE), args |-> << >>] >>,
                  {<< "Exception Number: ", Numeral(v, 10, FALSE, 0) >>}, {})
  <1> DEFINE l == "Exception Number: "
             s == Numeral(v, 10, FALSE, 0)
             x == Say(l)
             y == << [format |-> s, args |-> << >>] >>
  <1>1. s \in Seq(Digits) /\ s \in Seq(Chars) /\ \A i \in 1 .. Len(s) : s[i] \notin Marks
    <2>1. 0 \in Int /\ 10 \in 10 .. 16
      OBVIOUS
    <2> QED
      BY <2>1, NumeralMarks, Zenon
  <1>2. kprint_unsigned(v, 10, FALSE) = s
    <2>1. 0 \in Int /\ 10 \in 10 .. 16
      OBVIOUS
    <2>2. kprint_unsigned_padded(v, 10, FALSE, 0) = s
      BY <2>1, UnsignedRight, Zenon
    <2> QED
      BY <2>2 DEF kprint_unsigned
  <1>3. l \in Printable /\ {l} \cap Marks = {}
    BY CharFacts DEF Labels, Marks, Header
  <1> HIDE DEF s, l
  <1>4. x \in Seq(Pieces) /\ Texts(x) = << l >>
    BY <1>3, SayText
  <1>5. y \in Seq(Pieces) /\ Texts(y) = s
    BY <1>1, DigitsText
  <1> HIDE DEF x, y
  <1>6. x \o y \in Seq(Pieces) /\ Texts(x \o y) = << l >> \o s
    BY <1>4, <1>5, TextsConcat
  <1>7. Covers(x \o y, {<< l, s >>}, {l} \cap Marks)
    <2> DEFINE cs == x \o y
    <2>1. cs \in Seq(Pieces) /\ Texts(cs) = << l >> \o s
      BY <1>6
    <2> HIDE DEF cs
    <2>2. Covers(cs, {<< l, s >>}, {l} \cap Marks)
      BY <1>1, <1>3, <2>1, LabelCovers
    <2> QED
      BY <2>2 DEF cs
  <1>8. Covers(x \o y, {<< l, s >>}, {})
    BY <1>3, <1>7
  <1> QED
    BY <1>2, <1>8 DEF x, y, l, s

\* What kernel_panic shows.
ErrorShown(f) ==
    IF ShowsError(f.interrupt_number) THEN {<< "Error Code: ", Hex(f.error_code) >>} ELSE {}
ErrorMarks(n) == IF ShowsError(n) THEN {"Error Code: "} ELSE {}
KernelShown(f) ==
    {<< "Exception Number: ", Numeral(f.interrupt_number, 10, FALSE, 0) >>}
    \cup {<< "Fault Address (EIP): ", Hex(f.eip) >>}
    \cup ErrorShown(f) \cup Registers(f)

\* kernel_panic prints the header once, and the exception, its error and its registers.
LEMMA KernelCovers ==
    ASSUME NEW f, FrameWords(f), f.interrupt_number \in Words, f.error_code \in Words
    PROVE  /\ Covers(kernel_panic(f), KernelShown(f), {Header} \cup ErrorMarks(f.interrupt_number))
           /\ Once(kernel_panic(f))
  <1> DEFINE
       n == f.interrupt_number
       x1 == Say(Header)
       a == Say("Exception Number: ")
       b == << [format |-> kprint_unsigned(n, 10, FALSE), args |-> << >>] >>
       x2 == a \o b
       x3 == LabelledHex("Fault Address (EIP): ", f.eip)
       x4 == IF ShowsError(n) THEN LabelledHex("Error Code: ", f.error_code) ELSE << >>
       x5 == show_register_dump(f)
       x6 == Say("System halted.")
       r2 == {<< "Exception Number: ", Numeral(n, 10, FALSE, 0) >>}
       r3 == {<< "Fault Address (EIP): ", Hex(f.eip) >>}
       r4 == ErrorShown(f)
       r5 == Registers(f)
       marks == ErrorMarks(n)
       d2 == x1 \o x2
       d3 == d2 \o x3
       d4 == d3 \o x4
       d5 == d4 \o x5
       d6 == d5 \o x6
  <1>1. kernel_panic(f) = ((((((x1 \o a) \o b) \o x3) \o x4) \o x5) \o x6)
    BY DEF kernel_panic, Header
  <1>2. KernelShown(f) = ((r2 \cup r3) \cup r4) \cup r5
    BY DEF KernelShown
  <1>3. /\ "Fault Address (EIP): " \in Labels /\ "Fault Address (EIP): " \notin Marks
        /\ "System halted." \in Labels /\ "System halted." \notin Marks
        /\ "Error Code: " \in Labels /\ {"Error Code: "} \cap Marks = {"Error Code: "}
        /\ "Exception Number: " \in Labels
        /\ "Error Code: " # Header
    BY DEF Labels, Marks, Header
  <1>4. Covers(x1, {}, {Header}) /\ Once(x1)
    BY HeaderCovers
  <1>5. Covers(x2, r2, {})
    BY VectorCovers
  <1>6. a \in Seq(Pieces) /\ b \in Seq(Pieces)
    <2>1. "Exception Number: " \in Printable
      BY <1>3, CharFacts
    <2>2. kprint_unsigned(n, 10, FALSE) \in Seq(Digits)
      <3>1. 0 \in Int /\ 10 \in 10 .. 16
        OBVIOUS
      <3>2. kprint_unsigned_padded(n, 10, FALSE, 0) = Numeral(n, 10, FALSE, 0)
        BY <3>1, UnsignedRight, Zenon
      <3>3. Numeral(n, 10, FALSE, 0) \in Seq(Digits)
        BY <3>1, NumeralMarks, Zenon
      <3> QED
        BY <3>2, <3>3 DEF kprint_unsigned
    <2> QED
      BY <2>1, <2>2, SayText, DigitsText
  <1>7. Covers(x3, r3, {})
    BY <1>3, PlainLabel DEF FrameWords
  <1>8. Covers(x4, r4, marks)
    <2>1. CASE ShowsError(n)
      <3>1. x4 = LabelledHex("Error Code: ", f.error_code) /\ marks = {"Error Code: "}
            /\ r4 = {<< "Error Code: ", Hex(f.error_code) >>}
        BY <2>1 DEF ErrorShown, ErrorMarks
      <3>2. "Error Code: " \in Printable
        BY <1>3, CharFacts
      <3>3. Covers(LabelledHex("Error Code: ", f.error_code),
                   {<< "Error Code: ", Hex(f.error_code) >>}, {"Error Code: "} \cap Marks)
        BY <3>2, LabelledCovers
      <3> QED
        BY <1>3, <3>1, <3>3
    <2>2. CASE ~ShowsError(n)
      <3>1. x4 = << >> /\ marks = {} /\ r4 = {}
        BY <2>2 DEF ErrorShown, ErrorMarks
      <3> QED
        BY <3>1, NoneCovers
    <2> QED
      BY <2>1, <2>2
  <1>9. Covers(x5, r5, {})
    BY DumpCovers
  <1>10. Covers(x6, {}, {})
    BY <1>3, PlainText, CoversLess
  <1>11. Header \notin marks
    BY <1>3 DEF ErrorMarks
  <1>12. x1 \in Seq(Pieces)
    BY <1>4 DEF Covers
  <1>13. (x1 \o a) \o b = d2
    <2> HIDE DEF x1, a, b
    <2> QED
      <3>1. Cat(Cat(x1, a), b) = Cat(x1, Cat(a, b))
        BY ONLY <1>6, <1>12, CatAssociative
      <3> QED
        BY ONLY <3>1, Zenon DEF d2, x2, Cat
  <1>14. kernel_panic(f) = d6
    <2> HIDE DEF x1, a, b, x2, x3, x4, x5, x6
    <2> QED
      BY <1>1, <1>13
  <1> HIDE DEF x1, x2, x3, x4, x5, x6, r2, r3, r4, r5, marks, a, b
  <1>15. ASSUME NEW cs, NEW ds, NEW s1, NEW s2, NEW m1, NEW m2,
                Covers(cs, s1, m1), Once(cs), Covers(ds, s2, m2), Header \notin m2
         PROVE  Covers(cs \o ds, s1 \cup s2, m1 \cup m2) /\ Once(cs \o ds)
    <2>1. Covers(cs \o ds, s1 \cup s2, m1 \cup m2)
      BY <1>15, CoversConcat
    <2>2. Once(cs \o ds)
      BY <1>15, OnceAppend
    <2> QED
      BY <2>1, <2>2
  <1> DEFINE s2 == {} \cup r2
             s3 == s2 \cup r3
             s4 == s3 \cup r4
             s5 == s4 \cup r5
             s6 == s5 \cup {}
             m2 == {Header} \cup {}
             m3 == m2 \cup {}
             m4 == m3 \cup marks
             m5 == m4 \cup {}
             m6 == m5 \cup {}
  <1>16. KernelShown(f) = s6 /\ {Header} \cup marks = m6
    BY <1>2
  <1>17. Header \notin {}
    OBVIOUS
  <1>18. Covers(d2, s2, m2) /\ Once(d2)
    BY <1>4, <1>5, <1>15, <1>17
  <1> HIDE DEF d2, s2, m2
  <1>19. Covers(d3, s3, m3) /\ Once(d3)
    BY <1>7, <1>15, <1>17, <1>18
  <1> HIDE DEF d3, s3, m3
  <1>20. Covers(d4, s4, m4) /\ Once(d4)
    BY <1>8, <1>11, <1>15, <1>19
  <1> HIDE DEF d4, s4, m4
  <1>21. Covers(d5, s5, m5) /\ Once(d5)
    BY <1>9, <1>15, <1>17, <1>20
  <1> HIDE DEF d5, s5, m5
  <1>22. Covers(d6, s6, m6) /\ Once(d6)
    BY <1>10, <1>15, <1>17, <1>21
  <1> HIDE DEF d6, s6, m6
  <1> QED
    BY <1>14, <1>16, <1>22 DEF marks, n
-----------------------------------------------------------------------------
\* The whole report, of a frame and the address that CR2 holds.
Report(f, cr2) ==
    Say(Message(f.interrupt_number))
    \o (IF f.interrupt_number = 14 THEN PageFaultDetails(f.error_code, cr2) ELSE << >>)
    \o kernel_panic(f)
ReportShown(f, cr2) ==
    {<< Message(f.interrupt_number), << >> >>}
    \cup (IF f.interrupt_number = 14 THEN PageFaultShown(f.error_code, cr2) ELSE {})
    \cup KernelShown(f)
FaultMarks(f) ==
    IF f.interrupt_number = 14 /\ Bit(f.error_code, 1) THEN {"Write access "} ELSE {}
ReportMarks(f) == FaultMarks(f) \cup ({Header} \cup ErrorMarks(f.interrupt_number))

\* A report shows what it should, with the header once, and shows an error code
\* and a write access only where there is one.
LEMMA ReportCovers ==
    ASSUME NEW f, NEW cr2 \in Words,
           FrameWords(f), f.interrupt_number \in 0 .. 19, f.error_code \in Words
    PROVE  Covers(Report(f, cr2), ReportShown(f, cr2), ReportMarks(f)) /\ Once(Report(f, cr2))
  <1> DEFINE
       n == f.interrupt_number
       m == Message(n)
       x1 == Say(m)
       x2 == IF n = 14 THEN PageFaultDetails(f.error_code, cr2) ELSE << >>
       x3 == kernel_panic(f)
       r1 == {<< m, << >> >>}
       r2 == IF n = 14 THEN PageFaultShown(f.error_code, cr2) ELSE {}
       r3 == KernelShown(f)
       m2 == FaultMarks(f)
       m3 == {Header} \cup ErrorMarks(n)
       d == x1 \o x2
       s == r1 \cup r2
  <1>1. Report(f, cr2) = d \o x3 /\ ReportShown(f, cr2) = s \cup r3 /\ ReportMarks(f) = m2 \cup m3
    BY DEF Report, ReportShown, ReportMarks
  <1>2. m \in Labels /\ m \notin Marks
    <2>1. n \in 0 .. 19
      OBVIOUS
    <2>2. m = Messages[n + 1]
      <3> HIDE DEF n
      <3> QED
        BY <2>1, Zenon DEF Message
    <2> HIDE DEF n, m
    <2>3. n + 1 \in 1 .. 20
      BY <2>1
    <2>4. Messages[n + 1] \in Labels
      BY <2>3 DEF Labels
    <2> QED
      BY <2>2, <2>3, <2>4, MessageMarks
  <1>3. Covers(x1, r1, {})
    <2> HIDE DEF m
    <2> QED
      BY <1>2, PlainText
  <1>4. Covers(x2, r2, m2)
    <2>1. CASE n = 14
      <3>1. x2 = PageFaultDetails(f.error_code, cr2) /\ r2 = PageFaultShown(f.error_code, cr2)
            /\ m2 = (IF Bit(f.error_code, 1) THEN {"Write access "} ELSE {})
        BY <2>1 DEF FaultMarks
      <3> QED
        BY <3>1, PageFaultCovers
    <2>2. CASE n # 14
      <3>1. x2 = << >> /\ r2 = {} /\ m2 = {}
        BY <2>2 DEF FaultMarks
      <3> QED
        BY <3>1, NoneCovers
    <2> QED
      BY <2>1, <2>2
  <1>5. Covers(x3, r3, m3) /\ Once(x3)
    <2>1. n \in Words
      BY VectorWords
    <2> QED
      BY <2>1, KernelCovers
  <1>6. Header \notin m2
    BY DEF FaultMarks, Header
  <1> HIDE DEF x1, x2, x3, r1, r2, r3, m2, m3
  <1>7. Covers(d, s, m2)
    <2>1. Covers(d, s, {} \cup m2)
      BY <1>3, <1>4, CoversConcat
    <2>2. {} \cup m2 = m2
      OBVIOUS
    <2> QED
      BY <2>1, <2>2
  <1> HIDE DEF d, s
  <1>8. Covers(d \o x3, s \cup r3, m2 \cup m3)
    BY <1>5, <1>7, CoversConcat
  <1>9. Once(d \o x3)
    BY <1>5, <1>6, <1>7, OnceAppend
  <1> QED
    BY <1>1, <1>8, <1>9

-----------------------------------------------------------------------------
(***************************************************************************)
(* The stack that the processor and the stubs leave is the frame.          *)
(***************************************************************************)
\* The fields of registers_t are the words of the stack in their order.
LEMMA FrameAt ==
    ASSUME NEW words, NEW i \in 1 .. 15
    PROVE  Frame(words)[FrameFields[i]] = words[i]
  <1> DEFINE f == FrameFields[i]
             e == CHOOSE j \in 1 .. 15 : FrameFields[j] = f
  <1>1. \A j, k \in 1 .. 15 : FrameFields[j] = FrameFields[k] => j = k
    BY DEF FrameFields
  <1>2. f \in ToSet(FrameFields)
    <2>1. Len(FrameFields) = 15
      BY DEF FrameFields
    <2> QED
      BY <2>1 DEF ToSet
  <1>3. e \in 1 .. 15 /\ FrameFields[e] = f
    OBVIOUS
  <1>4. e = i
    BY <1>1, <1>3
  <1>5. Frame(words)[f] = words[e]
    BY <1>2 DEF Frame
  <1> QED
    BY <1>4, <1>5

\* The same for each field by name.
LEMMA FrameIs ==
    ASSUME NEW words
    PROVE  LET f == Frame(words)
           IN  /\ f.edi = words[1] /\ f.esi = words[2] /\ f.ebp = words[3]
               /\ f.ebx = words[5] /\ f.edx = words[6] /\ f.ecx = words[7] /\ f.eax = words[8]
               /\ f.interrupt_number = words[9] /\ f.error_code = words[10]
               /\ f.eip = words[11] /\ f.cs = words[12] /\ f.eflags = words[13]
               /\ f.esp = words[14] /\ f.ss = words[15]
  <1> DEFINE f == Frame(words)
  <1>1. /\ FrameFields[1] = "edi" /\ FrameFields[2] = "esi" /\ FrameFields[3] = "ebp"
        /\ FrameFields[5] = "ebx" /\ FrameFields[6] = "edx" /\ FrameFields[7] = "ecx"
        /\ FrameFields[8] = "eax" /\ FrameFields[9] = "interrupt_number"
        /\ FrameFields[10] = "error_code" /\ FrameFields[11] = "eip" /\ FrameFields[12] = "cs"
        /\ FrameFields[13] = "eflags" /\ FrameFields[14] = "esp" /\ FrameFields[15] = "ss"
    BY DEF FrameFields
  <1>2. \A i \in 1 .. 15 : f[FrameFields[i]] = words[i]
    BY FrameAt
  <1> HIDE DEF f
  <1>3. /\ f["edi"] = words[1] /\ f["esi"] = words[2] /\ f["ebp"] = words[3]
        /\ f["ebx"] = words[5] /\ f["edx"] = words[6] /\ f["ecx"] = words[7]
        /\ f["eax"] = words[8] /\ f["interrupt_number"] = words[9]
        /\ f["error_code"] = words[10] /\ f["eip"] = words[11] /\ f["cs"] = words[12]
        /\ f["eflags"] = words[13] /\ f["esp"] = words[14] /\ f["ss"] = words[15]
    BY <1>1, <1>2
  <1> QED
    BY <1>3 DEF f

\* Words pushed onto others.
LEMMA PushWords ==
    ASSUME NEW S, NEW f \in Seq(S), NEW k, Len(f) = k, NEW r \in Seq(S), NEW n, Len(r) = n
    PROVE  /\ f \o r \in Seq(S) /\ Len(f \o r) = n + k
           /\ \A i \in 1 .. k : (f \o r)[i] = f[i]
           /\ \A i \in 1 .. n : (f \o r)[i + k] = r[i]
  <1> DEFINE s == f \o r
  <1>1. /\ k \in Nat /\ n \in Nat /\ s \in Seq(S) /\ Len(s) = k + n
        /\ \A i \in 1 .. k : s[i] = f[i]
        /\ \A i \in 1 .. n : s[k + i] = r[i]
    BY ConcatAt
  <1> HIDE DEF s
  <1>2. \A i \in 1 .. n : k + i = i + k
    BY <1>1
  <1>3. Len(s) = n + k
    BY <1>1
  <1>4. \A i \in 1 .. n : s[i + k] = r[i]
    BY <1>1, <1>2
  <1> QED
    BY <1>1, <1>3, <1>4 DEF s

\* What the processor has pushed, from the k-th word on.
Interrupted(k) ==
    /\ stack[k] = fault.context.eip /\ stack[k + 1] = fault.context.cs
    /\ stack[k + 2] = fault.context.eflags
    /\ stack[k + 3] = fault.above[1] /\ stack[k + 4] = fault.above[2]
ErrorPushed == IF fault.vector \in PushesError THEN fault.context.error ELSE 0
RegistersPushed ==
    LET c == fault.context
    IN  /\ stack[1] = c.edi /\ stack[2] = c.esi /\ stack[3] = c.ebp
        /\ stack[5] = c.ebx /\ stack[6] = c.edx /\ stack[7] = c.ecx /\ stack[8] = c.eax

\* The stack at every stage of an exception, whichever it interrupted.
StackInv ==
    /\ stage \in {"main", "stub", "pushad", "report", "halted"}
    /\ stage # "main" =>
          /\ fault.vector \in Raisable
          /\ fault.context \in Context
          /\ fault.above \in Seq(Words) /\ Len(fault.above) = 2
          /\ stack \in Seq(Words)
    /\ stage = "stub" =>
          IF fault.vector \in PushesError
          THEN Len(stack) = 6 /\ stack[1] = fault.context.error /\ Interrupted(2)
          ELSE Len(stack) = 5 /\ Interrupted(1)
    /\ stage = "pushad" =>
          /\ Len(stack) = 7 /\ stack[1] = fault.vector /\ stack[2] = ErrorPushed
          /\ Interrupted(3)
    /\ stage \in {"report", "halted"} =>
          /\ Len(stack) = 15 /\ RegistersPushed
          /\ stack[9] = fault.vector /\ stack[10] = ErrorPushed
          /\ Interrupted(11)

\* The processor pushes EIP, CS and EFLAGS, and an error code for some exceptions.
LEMMA ExceptionStack ==
    ASSUME StackInv, NEW v \in Raisable, NEW c \in Context, Exception(v, c)
    PROVE  StackInv'
  <1> DEFINE above == IF stage \in {"stub", "pushad"} THEN SubSeq(stack, 1, 2) ELSE c.above
             e == IF v \in PushesError THEN << c.error >> ELSE << >>
             p == << c.eip, c.cs, c.eflags >>
  <1>1. /\ stack' = (e \o p) \o above
        /\ fault' = [vector |-> v, context |-> c, above |-> above]
        /\ stage' = "stub"
    BY DEF Exception
  <1>2. above \in Seq(Words) /\ Len(above) = 2
    <2>1. CASE stage \in {"stub", "pushad"}
      <3>1. stack \in Seq(Words) /\ Len(stack) \in Nat /\ Len(stack) >= 2
        <4>1. stack \in Seq(Words) /\ (Len(stack) = 5 \/ Len(stack) = 6 \/ Len(stack) = 7)
          <5>1. stage # "main"
            BY <2>1
          <5>2. stack \in Seq(Words)
            BY <5>1, Zenon DEF StackInv
          <5>3. stage = "stub" => Len(stack) = 6 \/ Len(stack) = 5
            BY Zenon DEF StackInv
          <5>4. stage = "pushad" => Len(stack) = 7
            BY Zenon DEF StackInv
          <5> QED
            BY <2>1, <5>2, <5>3, <5>4
        <4> DEFINE n == Len(stack)
        <4>2. n \in Nat
          BY <4>1
        <4>3. n = 5 \/ n = 6 \/ n = 7
          BY <4>1
        <4> HIDE DEF n
        <4>4. n >= 2
          BY ONLY <4>2, <4>3
        <4> QED
          BY <4>1, <4>2, <4>4 DEF n
      <3>2. above = SubSeq(stack, 1, 2)
        BY <2>1
      <3> HIDE DEF above
      <3> QED
        BY <3>1, <3>2
    <2>2. CASE stage \notin {"stub", "pushad"}
      <3>1. above = c.above /\ c.above \in Words \X Words
        BY <2>2 DEF Context
      <3> HIDE DEF above
      <3>2. PICK a \in Words, b \in Words : above = << a, b >>
        BY <3>1
      <3> QED
        BY <3>2
    <2> QED
      BY <2>1, <2>2
  <1>3. c.eip \in Words /\ c.cs \in Words /\ c.eflags \in Words /\ c.error \in Words
    BY DEF Context
  <1>4. fault'.vector = v /\ fault'.context = c /\ fault'.above = above
    BY <1>1
  <1> DEFINE q == p \o above
  <1>5. /\ q \in Seq(Words) /\ Len(q) = 5 /\ q[1] = c.eip /\ q[2] = c.cs /\ q[3] = c.eflags
        /\ q[4] = above[1] /\ q[5] = above[2]
    <2> HIDE DEF above
    <2>1. /\ q \in Seq(Words) /\ Len(q) = Len(above) + 3
          /\ q[1] = c.eip /\ q[2] = c.cs /\ q[3] = c.eflags
          /\ \A i \in 1 .. Len(above) : q[i + 3] = above[i]
      <3> DEFINE k == Len(p)
                 n == Len(above)
      <3>1. p \in Seq(Words) /\ Len(p) = k /\ above \in Seq(Words) /\ Len(above) = n
        BY <1>2, <1>3
      <3>0. k = 3 /\ p[1] = c.eip /\ p[2] = c.cs /\ p[3] = c.eflags
        BY <1>3
      <3> HIDE DEF p, k, n
      <3>2. /\ q \in Seq(Words) /\ Len(q) = n + k
            /\ \A i \in 1 .. k : q[i] = p[i]
            /\ \A i \in 1 .. n : q[i + k] = above[i]
        BY ONLY <3>1, PushWords, SMTT(30)
      <3> HIDE DEF q
      <3>3. 1 \in 1 .. k /\ 2 \in 1 .. k /\ 3 \in 1 .. k
        BY <3>0
      <3> QED
        BY <1>2, <3>0, <3>2, <3>3 DEF n
    <2> HIDE DEF q
    <2>2. 1 \in 1 .. Len(above) /\ 2 \in 1 .. Len(above)
      BY <1>2
    <2> QED
      BY <1>2, <2>1, <2>2
  <1>6. p \in Seq(Words)
    BY <1>3
  <1> HIDE DEF p
  <1>7. CASE v \in PushesError
    <2> DEFINE f == << c.error >>
    <2>1. e = f /\ f \in Seq(Words)
      BY <1>3, <1>7
    <2> HIDE DEF f, e, above
    <2>2. (f \o p) \o above = f \o (p \o above)
      <3>1. Cat(Cat(f, p), above) = Cat(f, Cat(p, above))
        BY ONLY <1>2, <1>6, <2>1, CatAssociative
      <3> QED
        BY ONLY <3>1, Zenon DEF Cat
    <2>3. stack' = f \o q
      BY <1>1, <2>1, <2>2
    <2> DEFINE s == f \o q
    <2> HIDE DEF q
    <2>4. /\ s \in Seq(Words) /\ Len(s) = 6 /\ s[1] = c.error
          /\ s[2] = c.eip /\ s[3] = c.cs /\ s[4] = c.eflags /\ s[5] = above[1] /\ s[6] = above[2]
      <3>1. /\ s \in Seq(Words) /\ Len(s) = Len(q) + 1 /\ s[1] = c.error
            /\ \A i \in 1 .. Len(q) : s[i + 1] = q[i]
        <4> DEFINE k == Len(f)
                   n == Len(q)
        <4>1. f \in Seq(Words) /\ Len(f) = k /\ q \in Seq(Words) /\ Len(q) = n
          BY <1>3, <1>5 DEF f
        <4>0. k = 1 /\ f[1] = c.error
          BY DEF f
        <4> HIDE DEF k, n
        <4>2. /\ s \in Seq(Words) /\ Len(s) = n + k
              /\ \A i \in 1 .. k : s[i] = f[i]
              /\ \A i \in 1 .. n : s[i + k] = q[i]
          BY ONLY <4>1, PushWords
        <4> HIDE DEF s
        <4>3. 1 \in 1 .. k
          BY <4>0
        <4> QED
          BY <4>0, <4>2, <4>3 DEF n
      <3> HIDE DEF s
      <3>2. 1 \in 1 .. Len(q) /\ 2 \in 1 .. Len(q) /\ 3 \in 1 .. Len(q) /\ 4 \in 1 .. Len(q)
            /\ 5 \in 1 .. Len(q)
        BY <1>5
      <3> QED
        BY <1>5, <3>1, <3>2
    <2> HIDE DEF s
    <2> QED
      BY <1>1, <1>2, <1>4, <1>7, <2>3, <2>4, SMTT(30) DEF StackInv, Interrupted, s
  <1>8. CASE v \notin PushesError
    <2>1. e = << >>
      BY <1>8
    <2>2. << >> \o p = p
      BY <1>6, ConcatEmptySeq
    <2> HIDE DEF e, above
    <2>3. stack' = q
      BY <1>1, <2>1, <2>2
    <2> HIDE DEF q
    <2> QED
      BY <1>1, <1>2, <1>4, <1>5, <1>8, <2>3 DEF StackInv, Interrupted
  <1> QED
    BY <1>7, <1>8

\* The stub pushes the number, and a zero for the exceptions without an error code.
LEMMA StubStack ==
    ASSUME StackInv, Stub
    PROVE  StackInv'
  <1> DEFINE v == fault.vector
             d == IF v \in DummyPushed THEN << 0 >> ELSE << >>
             b == << v >>
             s == (b \o d) \o stack
  <1>1. stage = "stub" /\ stage' = "pushad" /\ stack' = s /\ fault' = fault
    BY DEF Stub
  <1>2. /\ v \in Raisable /\ fault.context \in Context
        /\ fault.above \in Seq(Words) /\ Len(fault.above) = 2 /\ stack \in Seq(Words)
    BY <1>1 DEF StackInv
  <1>3. v \in Words /\ 0 \in Words
    <2>1. v \in 0 .. 19 /\ 0 \in 0 .. 19
      BY <1>2 DEF Raisable
    <2> QED
      BY ONLY <2>1, VectorWords
  <1>4. v \in DummyPushed <=> v \notin PushesError
    BY <1>2 DEF DummyPushed, Raisable
  <1>5. b \in Seq(Words) /\ Len(b) = 1 /\ b[1] = v
    BY <1>3
  <1> HIDE DEF b
  <1>6. CASE v \in PushesError
    <2>1. Len(stack) = 6 /\ stack[1] = fault.context.error /\ Interrupted(2)
      BY <1>1, <1>6 DEF StackInv
    <2>2. d = << >>
      BY <1>4, <1>6
    <2>3. b \o << >> = b
      BY <1>5, ConcatEmptySeq
    <2> HIDE DEF d
    <2>4. s = b \o stack
      BY <2>2, <2>3
    <2> DEFINE k == Len(b)
               n == Len(stack)
    <2>5. k = 1 /\ n = 6
      BY <1>5, <2>1
    <2> HIDE DEF k, n
    <2>6. Len(b) = k /\ Len(stack) = n
      BY DEF k, n
    <2> DEFINE t == b \o stack
    <2>7. /\ t \in Seq(Words) /\ Len(t) = n + k
          /\ \A i \in 1 .. k : t[i] = b[i]
          /\ \A i \in 1 .. n : t[i + k] = stack[i]
      <3>1. b \in Seq(Words) /\ stack \in Seq(Words)
        BY <1>2, <1>5
      <3> QED
        BY ONLY <2>6, <3>1, PushWords, SMTT(30)
    <2> HIDE DEF t, s
    <2>8. s = t
      BY <2>4 DEF t
    <2>9. /\ 1 \in 1 .. k /\ 1 \in 1 .. n /\ 2 \in 1 .. n /\ 3 \in 1 .. n /\ 4 \in 1 .. n
          /\ 5 \in 1 .. n /\ 6 \in 1 .. n
      BY <2>5
    <2>10. /\ Len(t) = 7 /\ t[1] = b[1] /\ t[2] = stack[1] /\ t[3] = stack[2] /\ t[4] = stack[3]
           /\ t[5] = stack[4] /\ t[6] = stack[5] /\ t[7] = stack[6]
      BY <2>5, <2>7, <2>9
    <2>11. Interrupted(2) <=>
              /\ stack[2] = fault.context.eip /\ stack[3] = fault.context.cs
              /\ stack[4] = fault.context.eflags
              /\ stack[5] = fault.above[1] /\ stack[6] = fault.above[2]
      BY DEF Interrupted
    <2>12. Len(stack') = 7 /\ stack'[1] = fault'.vector /\ stack'[2] = ErrorPushed' /\ Interrupted(3)'
      BY <1>1, <1>5, <1>6, <2>1, <2>8, <2>10, <2>11 DEF Interrupted, ErrorPushed
    <2>13. stack' \in Seq(Words)
      BY <1>1, <2>7, <2>8
    <2> QED
      BY <1>1, <1>2, <2>12, <2>13 DEF StackInv
  <1>7. CASE v \notin PushesError
    <2>1. Len(stack) = 5 /\ Interrupted(1)
      BY <1>1, <1>7 DEF StackInv
    <2> DEFINE z == << 0 >>
    <2>2. d = z
      BY <1>4, <1>7
    <2>3. z \in Seq(Words) /\ Len(z) = 1 /\ z[1] = 0
      BY <1>3
    <2> HIDE DEF d, z
    <2>4. s = (b \o z) \o stack
      BY <2>2
    <2> DEFINE j == Len(b)
               m == Len(z)
               k == Len(b \o z)
               n == Len(stack)
               c == b \o z
    <2>5. j = 1 /\ m = 1 /\ n = 5
      BY <1>5, <2>1, <2>3
    <2> HIDE DEF j, m, k, n
    <2>6. Len(b) = j /\ Len(z) = m /\ Len(stack) = n /\ Len(b \o z) = k
      BY DEF j, m, k, n
    <2>7. /\ c \in Seq(Words) /\ Len(c) = m + j
          /\ \A i \in 1 .. j : c[i] = b[i]
          /\ \A i \in 1 .. m : c[i + j] = z[i]
      <3>1. b \in Seq(Words) /\ z \in Seq(Words)
        BY <1>5, <2>3
      <3> QED
        BY ONLY <2>6, <3>1, PushWords, SMTT(30)
    <2>8. Len(c) = k
      BY <2>6
    <2> HIDE DEF c
    <2>9. 1 \in 1 .. j /\ 1 \in 1 .. m
      BY <2>5
    <2>10. k = 2 /\ c[1] = b[1] /\ c[2] = z[1]
      BY <2>5, <2>7, <2>8, <2>9
    <2> DEFINE t == c \o stack
    <2>11. /\ t \in Seq(Words) /\ Len(t) = n + k
           /\ \A i \in 1 .. k : t[i] = c[i]
           /\ \A i \in 1 .. n : t[i + k] = stack[i]
      <3>1. c \in Seq(Words) /\ stack \in Seq(Words)
        BY <1>2, <2>7
      <3>2. Len(stack) = n
        BY <2>6
      <3> QED
        BY ONLY <2>8, <3>1, <3>2, PushWords, SMTT(30)
    <2> HIDE DEF t, s
    <2>12. s = t
      BY <2>4 DEF t, c
    <2>13. /\ 1 \in 1 .. k /\ 2 \in 1 .. k
           /\ 1 \in 1 .. n /\ 2 \in 1 .. n /\ 3 \in 1 .. n /\ 4 \in 1 .. n /\ 5 \in 1 .. n
      BY <2>5, <2>10
    <2>14. /\ Len(t) = 7 /\ t[1] = c[1] /\ t[2] = c[2] /\ t[3] = stack[1] /\ t[4] = stack[2]
           /\ t[5] = stack[3] /\ t[6] = stack[4] /\ t[7] = stack[5]
      BY <2>5, <2>10, <2>11, <2>13
    <2>15. Interrupted(1) <=>
              /\ stack[1] = fault.context.eip /\ stack[2] = fault.context.cs
              /\ stack[3] = fault.context.eflags
              /\ stack[4] = fault.above[1] /\ stack[5] = fault.above[2]
      BY DEF Interrupted
    <2>16. Len(stack') = 7 /\ stack'[1] = fault'.vector /\ stack'[2] = ErrorPushed' /\ Interrupted(3)'
      BY <1>1, <1>5, <1>7, <2>1, <2>3, <2>10, <2>12, <2>14, <2>15 DEF Interrupted, ErrorPushed
    <2>17. stack' \in Seq(Words)
      BY <1>1, <2>11, <2>12
    <2> QED
      BY <1>1, <1>2, <2>16, <2>17 DEF StackInv
  <1> QED
    BY <1>6, <1>7

\* isr_common_stub pushes the eight registers, and the frame is complete.
LEMMA CommonStack ==
    ASSUME StackInv, isr_common_stub
    PROVE  StackInv'
  <1> DEFINE c == fault.context
             p == << c.edi, c.esi, c.ebp, 0, c.ebx, c.edx, c.ecx, c.eax >>
             s == p \o stack
  <1>1. stage = "pushad" /\ stage' = "report" /\ stack' = s /\ fault' = fault
    BY DEF isr_common_stub, Pushad
  <1>2. /\ fault.vector \in Raisable /\ c \in Context
        /\ fault.above \in Seq(Words) /\ Len(fault.above) = 2 /\ stack \in Seq(Words)
        /\ Len(stack) = 7 /\ stack[1] = fault.vector /\ stack[2] = ErrorPushed
        /\ Interrupted(3)
    BY <1>1 DEF StackInv
  <1>3. /\ c.edi \in Words /\ c.esi \in Words /\ c.ebp \in Words /\ c.ebx \in Words
        /\ c.edx \in Words /\ c.ecx \in Words /\ c.eax \in Words /\ 0 \in Words
    BY <1>2, VectorWords, SMTT(30) DEF Context
  <1>4. p \in Seq(Words)
    BY <1>3
  <1>5. /\ Len(p) = 8 /\ p[1] = c.edi /\ p[2] = c.esi /\ p[3] = c.ebp
        /\ p[5] = c.ebx /\ p[6] = c.edx /\ p[7] = c.ecx /\ p[8] = c.eax
    OBVIOUS
  <1> HIDE DEF p, c
  <1> DEFINE k == Len(p)
             n == Len(stack)
  <1>6. k = 8 /\ n = 7
    BY <1>2, <1>5
  <1> HIDE DEF k, n
  <1>7. Len(p) = k /\ Len(stack) = n
    BY DEF k, n
  <1>8. /\ s \in Seq(Words) /\ Len(s) = n + k
        /\ \A i \in 1 .. k : s[i] = p[i]
        /\ \A i \in 1 .. n : s[i + k] = stack[i]
    <2>1. stack \in Seq(Words)
      BY <1>2
    <2> QED
      BY ONLY <1>4, <1>7, <2>1, PushWords, SMTT(30)
  <1> HIDE DEF s
  <1>9. /\ \A i \in {1, 2, 3, 5, 6, 7, 8} : i \in 1 .. k
        /\ 1 \in 1 .. n /\ 2 \in 1 .. n /\ 3 \in 1 .. n /\ 4 \in 1 .. n /\ 5 \in 1 .. n
        /\ 6 \in 1 .. n /\ 7 \in 1 .. n
    BY <1>6
  <1>10. /\ Len(s) = 15 /\ s[1] = p[1] /\ s[2] = p[2] /\ s[3] = p[3] /\ s[5] = p[5]
         /\ s[6] = p[6] /\ s[7] = p[7] /\ s[8] = p[8] /\ s[9] = stack[1] /\ s[10] = stack[2]
         /\ s[11] = stack[3] /\ s[12] = stack[4] /\ s[13] = stack[5] /\ s[14] = stack[6]
         /\ s[15] = stack[7]
    BY <1>6, <1>8, <1>9
  <1>11. Interrupted(3) <=>
            /\ stack[3] = c.eip /\ stack[4] = c.cs /\ stack[5] = c.eflags
            /\ stack[6] = fault.above[1] /\ stack[7] = fault.above[2]
    BY DEF Interrupted, c
  <1>12. Len(stack') = 15 /\ RegistersPushed'
    BY <1>1, <1>5, <1>10 DEF RegistersPushed, c
  <1>13. stack'[9] = fault'.vector /\ stack'[10] = ErrorPushed'
    BY <1>1, <1>2, <1>10 DEF ErrorPushed
  <1>14. Interrupted(11)'
    BY <1>1, <1>2, <1>10, <1>11 DEF Interrupted, c
  <1>15. stack' \in Seq(Words)
    BY <1>1, <1>8
  <1>16. /\ fault'.vector \in Raisable /\ fault'.context \in Context
         /\ fault'.above \in Seq(Words) /\ Len(fault'.above) = 2
    BY <1>1, <1>2 DEF c
  <1>17. stage' = "report"
    BY <1>1
  <1> QED
    BY ONLY <1>12, <1>13, <1>14, <1>15, <1>16, <1>17, SMTT(30) DEF StackInv

\* StackInv is an invariant.
THEOREM StackInvHolds == Spec => []StackInv
  <1>1. Init => StackInv
    BY DEF Init, StackInv
  <1>2. StackInv /\ [Next]_vars => StackInv'
    <2> SUFFICES ASSUME StackInv, [Next]_vars PROVE StackInv'
      OBVIOUS
    <2>1. ASSUME stage' = stage, stack' = stack, fault' = fault PROVE StackInv'
      BY <2>1 DEF StackInv, Interrupted, ErrorPushed, RegistersPushed
    <2>2. CASE MainPrints \/ FormatStep \/ Astray \/ NextCall \/ Halted \/ UNCHANGED vars
      BY <2>1, <2>2 DEF MainPrints, FormatStep, Astray, NextCall, Halted, vars, panicVars
    <2>3. CASE Fault
      <3>1. PICK v \in Vectors, c \in Contexts : Exception(v, c)
        BY <2>3 DEF Fault
      <3>2. v \in Raisable /\ c \in Context
        BY PanicAssumption
      <3> QED
        BY <3>1, <3>2, ExceptionStack
    <2>4. CASE NonMaskable
      <3>1. PICK c \in Contexts : Exception(Nmi, c)
        BY <2>4 DEF NonMaskable
      <3>2. Nmi \in Raisable /\ c \in Context
        BY PanicAssumption DEF Nmi, Raisable
      <3> QED
        BY <3>1, <3>2, ExceptionStack
    <2>5. CASE Stub
      BY <2>5, StubStack
    <2>6. CASE isr_common_stub
      BY <2>6, CommonStack
    <2>7. CASE Halt
      <3>1. stage = "report" /\ stage' = "halted" /\ stack' = stack /\ fault' = fault
        BY <2>7 DEF Halt
      <3> QED
        BY <3>1 DEF StackInv, Interrupted, ErrorPushed, RegistersPushed
    <2> QED
      BY <2>2, <2>3, <2>4, <2>5, <2>6, <2>7 DEF Next
  <1> QED
    BY <1>1, <1>2, PTL DEF Spec

-----------------------------------------------------------------------------
(***************************************************************************)
(* The report on its way to the screen.                                    *)
(***************************************************************************)
TheReport == Report(Frame(stack), fault.context.cr2)

\* The frame is that of the exception that happened last.
LEMMA FrameRight ==
    ASSUME StackInv, stage \in {"report", "halted"}
    PROVE  LET f == Frame(stack)
               c == fault.context
           IN  /\ f.eax = c.eax /\ f.ebx = c.ebx /\ f.ecx = c.ecx /\ f.edx = c.edx
               /\ f.ebp = c.ebp /\ f.esi = c.esi /\ f.edi = c.edi
               /\ f.eip = c.eip /\ f.cs = c.cs /\ f.eflags = c.eflags
               /\ f.esp = fault.above[1] /\ f.ss = fault.above[2]
               /\ f.interrupt_number = fault.vector /\ f.error_code = ErrorPushed
               /\ FrameWords(f) /\ fault.vector \in Raisable
               /\ ErrorPushed \in Words /\ c.error \in Words /\ c.cr2 \in Words
  <1> DEFINE f == Frame(stack)
             c == fault.context
  <1>1. /\ f.edi = stack[1] /\ f.esi = stack[2] /\ f.ebp = stack[3]
        /\ f.ebx = stack[5] /\ f.edx = stack[6] /\ f.ecx = stack[7] /\ f.eax = stack[8]
        /\ f.interrupt_number = stack[9] /\ f.error_code = stack[10]
        /\ f.eip = stack[11] /\ f.cs = stack[12] /\ f.eflags = stack[13]
        /\ f.esp = stack[14] /\ f.ss = stack[15]
    BY FrameIs
  <1>2. /\ RegistersPushed /\ stack[9] = fault.vector /\ stack[10] = ErrorPushed
        /\ Interrupted(11)
        /\ fault.vector \in Raisable /\ c \in Context
        /\ fault.above \in Seq(Words) /\ Len(fault.above) = 2
    BY DEF StackInv
  <1> HIDE DEF f
  <1>3. /\ f.eax = c.eax /\ f.ebx = c.ebx /\ f.ecx = c.ecx /\ f.edx = c.edx
        /\ f.ebp = c.ebp /\ f.esi = c.esi /\ f.edi = c.edi
    BY <1>1, <1>2 DEF RegistersPushed
  <1>4. /\ f.eip = c.eip /\ f.cs = c.cs /\ f.eflags = c.eflags
        /\ f.esp = fault.above[1] /\ f.ss = fault.above[2]
    BY <1>1, <1>2 DEF Interrupted
  <1>5. f.interrupt_number = fault.vector /\ f.error_code = ErrorPushed
    BY <1>1, <1>2
  <1> HIDE DEF c
  <1>6. /\ c.eax \in Words /\ c.ebx \in Words /\ c.ecx \in Words /\ c.edx \in Words
        /\ c.ebp \in Words /\ c.esi \in Words /\ c.edi \in Words /\ c.eip \in Words
        /\ c.cs \in Words /\ c.eflags \in Words /\ c.error \in Words /\ c.cr2 \in Words
    BY <1>2 DEF Context
  <1>7. fault.above[1] \in Words /\ fault.above[2] \in Words
    BY <1>2
  <1>8. FrameWords(f)
    BY <1>3, <1>4, <1>6, <1>7 DEF FrameWords
  <1>9. ErrorPushed \in Words
    BY <1>6, VectorWords DEF ErrorPushed, c
  <1> QED
    BY <1>2, <1>3, <1>4, <1>5, <1>6, <1>8, <1>9 DEF f, c

\* The pieces of it, and what they cover.
LEMMA TheReportCovers ==
    ASSUME StackInv, stage \in {"report", "halted"}
    PROVE  /\ TheReport \in Seq(Pieces)
           /\ Covers(TheReport, ReportShown(Frame(stack), fault.context.cr2),
                     ReportMarks(Frame(stack)))
           /\ Once(TheReport)
  <1> DEFINE f == Frame(stack)
  <1>1. /\ FrameWords(f) /\ f.interrupt_number = fault.vector /\ fault.vector \in Raisable
        /\ f.error_code = ErrorPushed /\ ErrorPushed \in Words /\ fault.context.cr2 \in Words
    BY FrameRight
  <1> HIDE DEF f
  <1>2. f.interrupt_number \in 0 .. 19 /\ f.error_code \in Words
    BY <1>1 DEF Raisable
  <1>3. /\ Covers(Report(f, fault.context.cr2), ReportShown(f, fault.context.cr2), ReportMarks(f))
        /\ Once(Report(f, fault.context.cr2))
    BY <1>1, <1>2, ReportCovers
  <1>4. Report(f, fault.context.cr2) \in Seq(Pieces)
    <2> DEFINE r == Report(f, fault.context.cr2)
    <2>1. Covers(r, ReportShown(f, fault.context.cr2), ReportMarks(f))
      BY <1>3
    <2> HIDE DEF r
    <2>2. r \in Seq(Pieces)
      BY ONLY <2>1, ZenonT(40) DEF Covers
    <2> QED
      BY <2>2 DEF r
  <1> QED
    BY <1>3, <1>4 DEF TheReport, f

\* kprintf is within a text, or within a label and its number.
AtText(R, k) ==
    /\ args = << >> /\ format \in Seq(Printable)
    /\ out \o format = Joined(TextsOf(R), k)
AtNumber(R, k, l, n) ==
    /\ Text(R[k]) = << l >> \o (Numeral(n, 16, FALSE, 0) \o << "\n" >>)
    /\ args = << n >>
    /\ \/ format = << l, "%", "x", "\n" >> /\ out = Joined(TextsOf(R), k - 1)
       \/ format = << "%", "x", "\n" >> /\ out = Joined(TextsOf(R), k - 1) \o << l >>
Printing(R, k) ==
    /\ out \in Seq(Chars)
    /\ \/ AtText(R, k)
       \/ k # 0 /\ \E l \in NumberLabels, n \in Words : AtNumber(R, k, l, n)

\* A sequence is its first element and the rest.
LEMMA SplitFirst ==
    ASSUME NEW S, NEW s \in Seq(S), s # << >>
    PROVE  /\ s[1] \in S /\ SubSeq(s, 2, Len(s)) \in Seq(S)
           /\ s = << s[1] >> \o SubSeq(s, 2, Len(s))
  <1> DEFINE r == SubSeq(s, 2, Len(s))
             f == << s[1] >>
             n == Len(s)
  <1>1. n \in Nat \ {0} /\ s[1] \in S
    OBVIOUS
  <1>2. r \in Seq(S) /\ Len(r) = n - 1 /\ \A i \in 1 .. n - 1 : r[i] = s[i + 1]
    <2>1. ASSUME NEW m, m = 2
          PROVE  LET q == SubSeq(s, m, n)
                 IN  q \in Seq(S) /\ Len(q) = n - 1 /\ \A i \in 1 .. n - 1 : q[i] = s[i + 1]
      <3> DEFINE q == SubSeq(s, m, n)
      <3>1. m \in Int /\ n \in Int /\ \A i \in m .. n : s[i] \in S
        BY <1>1, <2>1
      <3> HIDE DEF n
      <3>2. /\ q \in Seq(S) /\ Len(q) = (IF m <= n THEN n - m + 1 ELSE 0)
            /\ \A i \in 1 .. n - m + 1 : q[i] = s[m + i - 1]
        BY ONLY <3>1, SubSeqProperties
      <3>3. /\ (IF m <= n THEN n - m + 1 ELSE 0) = n - 1 /\ n - m + 1 = n - 1
            /\ \A i \in 1 .. n - 1 : m + i - 1 = i + 1
        BY <1>1, <2>1
      <3> HIDE DEF q
      <3>4. q \in Seq(S) /\ Len(q) = n - 1 /\ \A i \in 1 .. n - 1 : q[i] = s[i + 1]
        BY <3>2, <3>3
      <3> QED
        BY <3>4 DEF q
    <2> QED
      BY <2>1
  <1>3. f \in Seq(S) /\ Len(f) = 1 /\ f[1] = s[1]
    BY <1>1
  <1> HIDE DEF r, f
  <1> DEFINE t == f \o r
  <1>4. /\ t \in Seq(S) /\ Len(t) = Len(f) + Len(r)
        /\ \A i \in 1 .. Len(f) + Len(r) : t[i] = IF i <= Len(f) THEN f[i] ELSE r[i - Len(f)]
    <2>1. f \in Seq(S) /\ r \in Seq(S)
      BY <1>2, <1>3
    <2> QED
      BY ONLY <2>1, ConcatProperties
  <1> HIDE DEF t, n
  <1>5. Len(t) = n
    BY <1>1, <1>2, <1>3, <1>4
  <1>6. ASSUME NEW i \in 1 .. n PROVE t[i] = s[i]
    <2>1. CASE i = 1
      BY <1>1, <1>2, <1>3, <1>4, <2>1
    <2>2. CASE i # 1
      <3>1. i - 1 \in 1 .. n - 1 /\ (i - 1) + 1 = i /\ ~(i <= 1)
        BY <1>1, <2>2
      <3>2. t[i] = r[i - 1]
        BY <1>1, <1>2, <1>3, <1>4, <3>1
      <3> QED
        BY <1>2, <3>1, <3>2
    <2> QED
      BY <2>1, <2>2
  <1>7. t = s
    <2>1. Len(s) = n
      BY DEF n
    <2> QED
      BY <1>4, <1>5, <1>6, <2>1, SeqEqual
  <1> QED
    BY <1>1, <1>2, <1>7 DEF t, f, r

\* kprintf prints one more character of a text.
LEMMA TextGoesOn ==
    ASSUME NEW R, NEW k, AtText(R, k), out \in Seq(Chars), kprintf_step
    PROVE  AtText(R, k)' /\ out' \in Seq(Chars)
  <1>1. format \in Seq(Printable) /\ format # << >> /\ args = << >>
    BY NothingLeft DEF AtText
  <1> DEFINE r == SubSeq(format, 2, Len(format))
             f == << format[1] >>
  <1>2. format[1] \in Printable /\ r \in Seq(Printable) /\ format = f \o r
    BY <1>1, SplitFirst
  <1>3. format[1] # "%" /\ format[1] \in Chars
    BY <1>2 DEF Printable
  <1>4. Prints(f, 0, 1)
    BY <1>1, <1>3, LiteralStep
  <1>5. out' = out \o f /\ format' = r /\ args' = << >>
    BY <1>1, <1>4 DEF Prints
  <1>6. f \in Seq(Chars) /\ r \in Seq(Chars)
    BY <1>2, <1>3, CharFacts, SeqMonotonic
  <1> HIDE DEF f, r
  <1>7. (out \o f) \o r = out \o (f \o r)
    <2>1. Cat(Cat(out, f), r) = Cat(out, Cat(f, r))
      BY ONLY <1>6, out \in Seq(Chars), CatAssociative
    <2> QED
      BY ONLY <2>1, Zenon DEF Cat
  <1>8. out' \in Seq(Chars)
    BY <1>5, <1>6, ConcatProperties
  <1>9. out' \o format' = Joined(TextsOf(R), k)
    BY <1>2, <1>5, <1>7 DEF AtText
  <1> QED
    BY <1>2, <1>5, <1>8, <1>9 DEF AtText

\* The text of a piece comes after those before it.
LEMMA TextNext ==
    ASSUME NEW R \in Seq(Pieces), NEW k \in 1 .. Len(R)
    PROVE  /\ Joined(TextsOf(R), k) = Joined(TextsOf(R), k - 1) \o Text(R[k])
           /\ Joined(TextsOf(R), k - 1) \in Seq(Chars) /\ Text(R[k]) \in Seq(Chars)
           /\ R[k] \in Pieces
  <1> DEFINE T == TextsOf(R)
  <1>1. T \in Seq(Seq(Chars)) /\ Len(T) = Len(R) /\ \A i \in 1 .. Len(R) : T[i] = Text(R[i])
    BY TextsTypes
  <1> HIDE DEF T
  <1>2. k \in 1 .. Len(T) /\ k - 1 \in 0 .. Len(T)
    BY <1>1
  <1>3. Joined(T, k) = Joined(T, k - 1) \o T[k] /\ Joined(T, k - 1) \in Seq(Chars)
    BY <1>1, <1>2, JoinedFacts
  <1>4. R[k] \in Pieces
    BY ElementOfSeq
  <1> QED
    BY <1>1, <1>3, <1>4, PieceTypes DEF T

\* What is left of a sequence, and of the format and the arguments after a step.
LEMMA DropSome ==
    ASSUME NEW S, NEW s \in Seq(S), NEW m \in 0 .. Len(s)
    PROVE  /\ SubSeq(s, m + 1, Len(s)) \in Seq(S)
           /\ Len(SubSeq(s, m + 1, Len(s))) = Len(s) - m
           /\ \A i \in 1 .. Len(s) - m : SubSeq(s, m + 1, Len(s))[i] = s[i + m]
  <1> DEFINE n == Len(s)
             j == m + 1
             q == SubSeq(s, j, n)
  <1>1. j \in Int /\ n \in Int /\ m \in 0 .. n /\ \A i \in j .. n : s[i] \in S
    OBVIOUS
  <1>2. j = m + 1
    OBVIOUS
  <1> HIDE DEF n, j
  <1>3. /\ q \in Seq(S) /\ Len(q) = (IF j <= n THEN n - j + 1 ELSE 0)
        /\ \A i \in 1 .. n - j + 1 : q[i] = s[j + i - 1]
    BY ONLY <1>1, SubSeqProperties
  <1>4. /\ (IF j <= n THEN n - j + 1 ELSE 0) = n - m /\ n - j + 1 = n - m
        /\ \A i \in 1 .. n - m : j + i - 1 = i + m
    BY <1>1, <1>2
  <1> HIDE DEF q
  <1>5. q \in Seq(S) /\ Len(q) = n - m /\ \A i \in 1 .. n - m : q[i] = s[i + m]
    BY <1>3, <1>4
  <1> QED
    BY <1>5 DEF q, n, j

\* What Prints leaves of the format and the arguments, by position.
LEMMA PrintsRest ==
    ASSUME format \in Seq(Chars), args \in Seq(Words), NEW text,
           NEW a \in 0 .. Len(args), NEW f \in 0 .. Len(format), Prints(text, a, f)
    PROVE  /\ out' = out \o text
           /\ format' \in Seq(Chars) /\ Len(format') = Len(format) - f
           /\ \A i \in 1 .. Len(format) - f : format'[i] = format[i + f]
           /\ args' \in Seq(Words) /\ Len(args') = Len(args) - a
           /\ \A i \in 1 .. Len(args) - a : args'[i] = args[i + a]
  <1>1. /\ out' = out \o text
        /\ format' = SubSeq(format, f + 1, Len(format))
        /\ args' = SubSeq(args, a + 1, Len(args))
    BY DEF Prints
  <1>2. /\ format' \in Seq(Chars) /\ Len(format') = Len(format) - f
        /\ \A i \in 1 .. Len(format) - f : format'[i] = format[i + f]
    BY <1>1, DropSome
  <1>3. /\ args' \in Seq(Words) /\ Len(args') = Len(args) - a
        /\ \A i \in 1 .. Len(args) - a : args'[i] = args[i + a]
    BY <1>1, DropSome
  <1> QED
    BY <1>1, <1>2, <1>3

\* kprintf goes on with a label and its number: the label, the digits, the line feed.
LEMMA NumberGoesOn ==
    ASSUME NEW R \in Seq(Pieces), NEW k \in 1 .. Len(R),
           NEW l \in NumberLabels, NEW n \in Words,
           AtNumber(R, k, l, n), out \in Seq(Chars), kprintf_step
    PROVE  Printing(R, k)'
  <1> DEFINE J == Joined(TextsOf(R), k - 1)
             s == Numeral(n, 16, FALSE, 0)
             x == << l >>
             end == << "\n" >>
  <1>1. /\ Joined(TextsOf(R), k) = J \o Text(R[k]) /\ J \in Seq(Chars)
        /\ Text(R[k]) = x \o (s \o end) /\ args = << n >>
    BY TextNext DEF AtNumber
  <1>2. s \in Seq(Chars)
    <2>1. 0 \in Int /\ 16 \in 10 .. 16
      OBVIOUS
    <2> QED
      BY <2>1, NumeralMarks, Zenon
  <1>3. /\ l \in Chars /\ l # "%" /\ "\n" \in Chars /\ "\n" \in Printable
        /\ "%" \in Chars /\ "x" \in Chars
    BY CharFacts DEF Printable
  <1>4. x \in Seq(Chars) /\ end \in Seq(Chars) /\ end \in Seq(Printable)
    BY <1>3
  <1>5. CASE format = << l, "%", "x", "\n" >> /\ out = J
    <2>1. format \in Seq(Chars) /\ format # << >> /\ format[1] = l
      BY <1>3, <1>5
    <2>2. Prints(<< format[1] >>, 0, 1)
      BY <1>3, <2>1, LiteralStep
    <2> DEFINE w == << l, "%", "x", "\n" >>
               v == << "%", "x", "\n" >>
               t == << n >>
    <2>11. /\ w \in Seq(Chars) /\ Len(w) = 4 /\ w[2] = "%" /\ w[3] = "x" /\ w[4] = "\n"
           /\ v \in Seq(Chars) /\ Len(v) = 3 /\ v[1] = "%" /\ v[2] = "x" /\ v[3] = "\n"
           /\ t \in Seq(Words) /\ Len(t) = 1 /\ t[1] = n
      BY <1>3
    <2>12. format = w /\ args = t
      BY <1>1, <1>5
    <2>17. Prints(x, 0, 1)
      BY <2>1, <2>2
    <2> HIDE DEF w, v, t, x, J, s, end
    <2>13. PICK a, f : a = 0 /\ f = 1
      OBVIOUS
    <2>14. Prints(x, a, f) /\ a \in 0 .. Len(args) /\ f \in 0 .. Len(format)
      <3>1. Prints(x, a, f)
        BY <2>13, <2>17, Zenon
      <3>2. Len(args) = 1 /\ Len(format) = 4
        BY <2>11, <2>12, Zenon
      <3> QED
        BY ONLY <2>13, <3>1, <3>2
    <2>15. w \in Seq(Chars) /\ t \in Seq(Words)
      BY <2>11
    <2>18. format \in Seq(Chars) /\ args \in Seq(Words)
      BY <2>12, <2>15
    <2>16. /\ out' = out \o x
           /\ format' \in Seq(Chars) /\ Len(format') = Len(w) - f
           /\ \A i \in 1 .. Len(w) - f : format'[i] = w[i + f]
           /\ args' \in Seq(Words) /\ Len(args') = Len(t) - a
           /\ \A i \in 1 .. Len(t) - a : args'[i] = t[i + a]
      <3>1. /\ out' = out \o x
            /\ format' \in Seq(Chars) /\ Len(format') = Len(format) - f
            /\ \A i \in 1 .. Len(format) - f : format'[i] = format[i + f]
            /\ args' \in Seq(Words) /\ Len(args') = Len(args) - a
            /\ \A i \in 1 .. Len(args) - a : args'[i] = args[i + a]
        BY ONLY <2>14, <2>18, PrintsRest
      <3> QED
        BY ONLY <2>12, <3>1
    <2>3. out' = J \o x
      BY <1>5, <2>16
    <2>4. args' = << n >>
      <3>1. Len(args') = Len(t) /\ \A i \in 1 .. Len(args') : args'[i] = t[i]
        BY <2>11, <2>13, <2>16
      <3>2. args' = t
        BY <2>15, <2>16, <3>1, SeqEqual
      <3> QED
        BY <3>2 DEF t
    <2>5. format' = << "%", "x", "\n" >>
      <3>1. Len(format') = Len(v)
        BY <2>11, <2>13, <2>16
      <3>2. ASSUME NEW i \in 1 .. Len(format') PROVE format'[i] = v[i]
        <4>1. format'[i] = w[i + 1]
          BY <2>13, <2>16, <3>1
        <4>2. i = 1 \/ i = 2 \/ i = 3
          BY <2>11, <3>1
        <4> QED
          BY ONLY <2>11, <4>1, <4>2
      <3>3. format' = v
        BY <2>11, <2>16, <3>1, <3>2, SeqEqual
      <3> QED
        BY <3>3 DEF v
    <2>6. out' \in Seq(Chars)
      <3> HIDE DEF J, x
      <3> QED
        BY <1>1, <1>4, <2>3, ConcatProperties
    <2>7. AtNumber(R, k, l, n)'
      BY <1>1, <2>3, <2>4, <2>5 DEF AtNumber, x, J, s, end
    <2> QED
      BY <2>6, <2>7 DEF Printing
  <1>6. CASE format = << "%", "x", "\n" >> /\ out = J \o x
    <2>1. /\ format \in Seq(Chars) /\ Len(format) >= 2 /\ format[1] = "%" /\ format[2] = "x"
          /\ "x" \in Conversions \ {"0"}
      BY <1>3, <1>6 DEF Conversions
    <2>2. Prints(kprint_unsigned(args[1], 16, FALSE), 1, 2)
      BY <2>1, ConvertStep
    <2>3. kprint_unsigned(args[1], 16, FALSE) = s
      <3>1. 0 \in Int /\ 16 \in 10 .. 16
        OBVIOUS
      <3>2. kprint_unsigned_padded(n, 16, FALSE, 0) = Numeral(n, 16, FALSE, 0)
        BY <3>1, UnsignedRight, Zenon
      <3>3. args[1] = n
        BY <1>1
      <3> QED
        BY <3>2, <3>3 DEF kprint_unsigned
    <2> DEFINE w == << "%", "x", "\n" >>
               t == << n >>
    <2>11. /\ w \in Seq(Chars) /\ Len(w) = 3 /\ w[3] = "\n"
           /\ t \in Seq(Words) /\ Len(t) = 1
           /\ end \in Seq(Chars) /\ Len(end) = 1 /\ end[1] = "\n"
      BY <1>3
    <2>12. format = w /\ args = t
      BY <1>1, <1>6
    <2>17. Prints(s, 1, 2)
      BY <2>2, <2>3
    <2> HIDE DEF w, t, s, J, x, end
    <2>13. PICK a, f : a = 1 /\ f = 2
      OBVIOUS
    <2>14. Prints(s, a, f) /\ a \in 0 .. Len(args) /\ f \in 0 .. Len(format)
      <3>1. Len(args) = 1 /\ Len(format) = 3
        BY <2>11, <2>12
      <3>2. a \in 0 .. Len(args) /\ f \in 0 .. Len(format)
        BY <2>13, <3>1
      <3>3. Prints(s, a, f)
        BY <2>13, <2>17, Zenon
      <3> QED
        BY <3>2, <3>3
    <2>15. w \in Seq(Chars) /\ t \in Seq(Words)
      BY <2>11
    <2>18. format \in Seq(Chars) /\ args \in Seq(Words)
      BY <2>12, <2>15
    <2>16. /\ out' = out \o s
           /\ format' \in Seq(Chars) /\ Len(format') = Len(w) - f
           /\ \A i \in 1 .. Len(w) - f : format'[i] = w[i + f]
           /\ args' \in Seq(Words) /\ Len(args') = Len(t) - a
      <3>1. /\ out' = out \o s
            /\ format' \in Seq(Chars) /\ Len(format') = Len(format) - f
            /\ \A i \in 1 .. Len(format) - f : format'[i] = format[i + f]
            /\ args' \in Seq(Words) /\ Len(args') = Len(args) - a
        BY ONLY <2>14, <2>18, PrintsRest
      <3> QED
        BY ONLY <2>12, <3>1
    <2>4. out' = (J \o x) \o s
      BY <1>6, <2>16
    <2>5. args' = << >>
      BY <2>11, <2>13, <2>16
    <2>6. format' = end
      <3>1. Len(format') = Len(end)
        BY <2>11, <2>13, <2>16
      <3>2. ASSUME NEW i \in 1 .. Len(format') PROVE format'[i] = end[i]
        <4>1. format'[i] = w[i + 2] /\ i = 1
          BY <2>11, <2>13, <2>16, <3>1
        <4> QED
          BY <2>11, <4>1
      <3> QED
        BY <2>11, <2>16, <3>1, <3>2, SeqEqual
    <2> HIDE DEF J, x, s, end
    <2>7. ((J \o x) \o s) \o end = J \o (x \o (s \o end))
      <3>1. J \o x \in Seq(Chars) /\ s \o end \in Seq(Chars)
        BY <1>1, <1>2, <1>4, ConcatProperties
      <3> DEFINE z == J \o x
      <3>5. z \in Seq(Chars)
        BY <3>1
      <3> HIDE DEF z
      <3>2. (z \o s) \o end = z \o (s \o end)
        <4>1. Cat(Cat(z, s), end) = Cat(z, Cat(s, end))
          BY ONLY <1>2, <1>4, <3>5, CatAssociative
        <4> QED
          BY ONLY <4>1, Zenon DEF Cat
      <3> DEFINE u == s \o end
      <3>3. u \in Seq(Chars)
        BY <3>1
      <3> HIDE DEF u
      <3>4. (J \o x) \o u = J \o (x \o u)
        <4>1. J \in Seq(Chars)
          BY <1>1
        <4> QED
          <5>1. Cat(Cat(J, x), u) = Cat(J, Cat(x, u))
            BY ONLY <1>4, <3>3, <4>1, CatAssociative
          <5> QED
            BY ONLY <5>1, Zenon DEF Cat
      <3> QED
        BY <3>2, <3>4 DEF u, z
    <2>8. out' \in Seq(Chars)
      <3>1. J \o x \in Seq(Chars)
        BY <1>1, <1>4, ConcatProperties
      <3> QED
        BY <1>2, <2>4, <3>1, ConcatProperties
    <2>9. AtText(R, k)'
      <3>1. out' \o format' = Joined(TextsOf(R), k)
        BY <1>1, <2>4, <2>6, <2>7
      <3> QED
        BY <1>4, <2>5, <2>6, <3>1 DEF AtText
    <2> QED
      BY <2>8, <2>9 DEF Printing
  <1> QED
    BY <1>5, <1>6 DEF AtNumber

\* kprintf goes on within a piece, ...
LEMMA PrintingGoesOn ==
    ASSUME NEW R \in Seq(Pieces), NEW k \in 0 .. Len(R), Printing(R, k), kprintf_step
    PROVE  Printing(R, k)'
  <1>1. out \in Seq(Chars)
    BY DEF Printing
  <1>2. CASE AtText(R, k)
    <2>1. AtText(R, k)' /\ out' \in Seq(Chars)
      BY <1>1, <1>2, TextGoesOn
    <2> QED
      BY <2>1 DEF Printing
  <1>3. ASSUME k # 0, NEW l \in NumberLabels, NEW n \in Words, AtNumber(R, k, l, n)
        PROVE  Printing(R, k)'
    <2>1. k \in 1 .. Len(R)
      BY <1>3
    <2> QED
      BY <1>1, <1>3, <2>1, NumberGoesOn
  <1> QED
    BY <1>2, <1>3 DEF Printing

\* ... is through with it when nothing is left of the format, ...
LEMMA PieceDone ==
    ASSUME NEW R \in Seq(Pieces), NEW k \in 0 .. Len(R), Printing(R, k), format = << >>
    PROVE  out = Joined(TextsOf(R), k) /\ out \in Seq(Chars) /\ args = << >>
  <1>1. out \in Seq(Chars)
    BY DEF Printing
  <1>2. ASSUME NEW l, NEW n PROVE ~AtNumber(R, k, l, n)
    <2>1. Len(<< l, "%", "x", "\n" >>) = 4 /\ Len(<< "%", "x", "\n" >>) = 3 /\ Len(format) = 0
      OBVIOUS
    <2> QED
      BY <2>1 DEF AtNumber
  <1>3. AtText(R, k)
    BY <1>2 DEF Printing
  <1>4. out \o << >> = out
    BY <1>1, ConcatEmptySeq
  <1> QED
    BY <1>1, <1>3, <1>4 DEF AtText

\* ... and comes to the next.
LEMMA PieceNext ==
    ASSUME NEW R \in Seq(Pieces), NEW k \in 0 .. Len(R), k # Len(R),
           Printing(R, k), format = << >>,
           format' = R[k + 1].format, args' = R[k + 1].args, out' = out
    PROVE  Printing(R, k + 1)'
  <1> DEFINE i == k + 1
             p == R[i]
  <1>1. i \in 1 .. Len(R) /\ i - 1 = k /\ i # 0
    OBVIOUS
  <1>2. out = Joined(TextsOf(R), k) /\ out \in Seq(Chars)
    BY PieceDone
  <1>3. format' = p.format /\ args' = p.args
    OBVIOUS
  <1> HIDE DEF i
  <1>4. p \in Pieces /\ Joined(TextsOf(R), i) = Joined(TextsOf(R), k) \o Text(p)
    BY <1>1, TextNext
  <1>5. CASE p.args = << >> /\ p.format \in Seq(Printable) /\ Text(p) = p.format
    <2>1. AtText(R, i)'
      BY <1>2, <1>3, <1>4, <1>5 DEF AtText
    <2> QED
      BY <1>2, <2>1 DEF Printing, i
  <1>6. ASSUME NEW l \in NumberLabels, NEW n \in Words,
               p.format = << l, "%", "x", "\n" >>, p.args = << n >>,
               Text(p) = << l >> \o (Numeral(n, 16, FALSE, 0) \o << "\n" >>)
        PROVE  Printing(R, i)'
    <2>1. AtNumber(R, i, l, n)'
      BY <1>1, <1>2, <1>3, <1>6 DEF AtNumber
    <2> QED
      BY <1>1, <1>2, <2>1 DEF Printing
  <1>7. \/ p.args = << >> /\ p.format \in Seq(Printable) /\ Text(p) = p.format
        \/ \E l \in NumberLabels, n \in Words :
              /\ p.format = << l, "%", "x", "\n" >> /\ p.args = << n >>
              /\ Text(p) = << l >> \o (Numeral(n, 16, FALSE, 0) \o << "\n" >>)
    <2> HIDE DEF p
    <2> QED
      BY <1>4, PieceTypes
  <1> QED
    BY <1>5, <1>6, <1>7 DEF i

\* How far the report R has come.
Underway(R) ==
    \E k \in 0 .. Len(R) : calls = SubSeq(R, k + 1, Len(R)) /\ Printing(R, k)

\* A report begins with all its calls to come.
LEMMA UnderwayBegins ==
    ASSUME NEW R \in Seq(Pieces), calls' = R, format' = << >>, args' = << >>, out' = << >>
    PROVE  Underway(R)'
  <1>1. calls' = SubSeq(R, 0 + 1, Len(R))
    <2>1. 0 \in 0 .. Len(R)
      OBVIOUS
    <2> DEFINE n == Len(R)
               q == SubSeq(R, 0 + 1, n)
    <2>2. n \in Nat /\ \A i \in 1 .. n : R[i] \in Pieces
      BY ElementOfSeq
    <2>3. q = R
      <3>1. q \in Seq(Pieces) /\ Len(q) = n - 0 /\ \A i \in 1 .. n - 0 : q[i] = R[i + 0]
        BY <2>1, DropSome
      <3>2. n - 0 = n /\ \A i \in 1 .. n : i + 0 = i
        BY <2>2
      <3> HIDE DEF q
      <3>3. Len(q) = Len(R) /\ \A i \in 1 .. Len(q) : q[i] = R[i]
        BY <3>1, <3>2
      <3> QED
        BY <3>1, <3>3, SeqEqual
    <2> QED
      BY <2>3
  <1>2. Joined(TextsOf(R), 0) = << >>
    BY TextsTypes, JoinedFacts
  <1>3. << >> \o << >> = << >>
    BY ConcatEmptySeq
  <1>4. << >> \in Seq(Printable) /\ << >> \in Seq(Chars)
    OBVIOUS
  <1>5. AtText(R, 0)'
    BY <1>2, <1>3, <1>4 DEF AtText
  <1>6. Printing(R, 0)'
    BY <1>4, <1>5 DEF Printing
  <1>7. 0 \in 0 .. Len(R)
    OBVIOUS
  <1> QED
    BY <1>1, <1>6, <1>7 DEF Underway

\* A step of kprintf keeps the report underway.
LEMMA UnderwayPrints ==
    ASSUME NEW R \in Seq(Pieces), Underway(R), kprintf_step, calls' = calls
    PROVE  Underway(R)'
  <1>1. PICK k \in 0 .. Len(R) : calls = SubSeq(R, k + 1, Len(R)) /\ Printing(R, k)
    BY DEF Underway
  <1>2. Printing(R, k)'
    BY <1>1, PrintingGoesOn
  <1> QED
    BY <1>1, <1>2 DEF Underway

\* So does going on to the next call.
LEMMA UnderwayNext ==
    ASSUME NEW R \in Seq(Pieces), Underway(R), format = << >>, calls # << >>,
           format' = Head(calls).format, args' = Head(calls).args, calls' = Tail(calls), out' = out
    PROVE  Underway(R)'
  <1>1. PICK k \in 0 .. Len(R) : calls = SubSeq(R, k + 1, Len(R)) /\ Printing(R, k)
    BY DEF Underway
  <1> DEFINE n == Len(R)
             q == SubSeq(R, k + 1, n)
             t == Tail(q)
             j == k + 1
             u == SubSeq(R, j + 1, n)
  <1>2. q \in Seq(Pieces) /\ Len(q) = n - k /\ \A i \in 1 .. n - k : q[i] = R[i + k]
    BY DropSome
  <1>3. n \in Nat /\ q # << >> /\ calls = q
    BY <1>1
  <1> HIDE DEF q
  <1>4. k # n
    BY <1>2, <1>3
  <1>5. j \in 0 .. n
    BY <1>3, <1>4
  <1> HIDE DEF j
  <1>6. u \in Seq(Pieces) /\ Len(u) = n - j /\ \A i \in 1 .. n - j : u[i] = R[i + j]
    BY <1>5, DropSome
  <1> HIDE DEF u
  <1>7. Head(q) = q[1] /\ t \in Seq(Pieces) /\ Len(t) = Len(q) - 1
        /\ \A i \in 1 .. Len(q) - 1 : t[i] = q[i + 1]
    BY <1>2, <1>3
  <1> HIDE DEF t
  <1>8. t = u
    <2>1. Len(t) = Len(u)
      BY <1>2, <1>3, <1>6, <1>7 DEF j
    <2>2. ASSUME NEW i \in 1 .. Len(t) PROVE t[i] = u[i]
      <3>1. i \in 1 .. Len(q) - 1 /\ i + 1 \in 1 .. n - k /\ i \in 1 .. n - j /\ (i + 1) + k = i + j
        BY <1>2, <1>3, <1>7 DEF j
      <3> QED
        BY <1>2, <1>6, <1>7, <3>1
    <2> QED
      BY <1>6, <1>7, <2>1, <2>2, SeqEqual
  <1>9. Head(calls) = R[k + 1]
    <2>1. 1 \in 1 .. n - k /\ 1 + k = k + 1
      BY <1>3, <1>4
    <2> QED
      BY <1>2, <1>3, <1>7, <2>1
  <1>10. calls' = SubSeq(R, j + 1, Len(R))
    BY <1>3, <1>8 DEF t, u
  <1>11. Printing(R, k + 1)'
    BY <1>1, <1>4, <1>9, PieceNext
  <1> QED
    BY <1>5, <1>10, <1>11 DEF Underway, j

\* When no call is left all of the report is printed, with every argument used.
LEMMA UnderwayDone ==
    ASSUME NEW R \in Seq(Pieces), Underway(R), format = << >>, calls = << >>
    PROVE  out = Texts(R) /\ args = << >>
  <1>1. PICK k \in 0 .. Len(R) : calls = SubSeq(R, k + 1, Len(R)) /\ Printing(R, k)
    BY DEF Underway
  <1>2. Len(calls) = Len(R) - k /\ Len(calls) = 0
    BY <1>1, DropSome
  <1>3. k = Len(R)
    BY <1>2
  <1>4. out = Joined(TextsOf(R), k) /\ args = << >>
    BY <1>1, PieceDone
  <1>5. Joined(TextsOf(R), Len(R)) = Texts(R)
    BY TextsTypes, JoinedFacts DEF Texts
  <1> QED
    BY <1>3, <1>4, <1>5

\* Nothing is being printed while the frame is built; then the report is on its
\* way, and is all that has been printed in the end.
ReportInv ==
    /\ stage \in {"stub", "pushad", "halted"} => format = << >> /\ args = << >>
    /\ stage = "report" => Underway(TheReport)
    /\ stage = "halted" => out = Texts(TheReport)

\* ReportInv is an invariant, with StackInv for the frame that is reported.
THEOREM ReportInvHolds == Spec => []ReportInv
  <1>1. Init => ReportInv
    BY DEF Init, ReportInv
  <1>2. StackInv /\ stage \in {"report", "halted"} => TheReport \in Seq(Pieces)
    BY TheReportCovers
  <1>3. (StackInv /\ stage \in {"report", "halted"} => TheReport \in Seq(Pieces))'
    BY <1>2, PTL
  <1>4. ReportInv /\ StackInv /\ StackInv' /\ [Next]_vars => ReportInv'
    <2> SUFFICES ASSUME ReportInv, StackInv, StackInv', [Next]_vars PROVE ReportInv'
      OBVIOUS
    <2>1. ASSUME stack' = stack, fault' = fault PROVE TheReport' = TheReport
      BY <2>1 DEF TheReport
    <2>2. CASE MainPrints
      BY <2>2 DEF MainPrints, ReportInv
    <2>3. CASE FormatStep
      <3>1. /\ kprintf_step /\ stage' = stage /\ calls' = calls /\ stack' = stack /\ fault' = fault
            /\ format # << >>
        BY <2>3, NothingLeft DEF FormatStep, panicVars
      <3>2. stage \notin {"stub", "pushad", "halted"}
        BY <3>1 DEF ReportInv
      <3>3. PICK R : R = TheReport
        OBVIOUS
      <3>4. ASSUME stage = "report" PROVE Underway(TheReport)'
        <4>1. R \in Seq(Pieces) /\ Underway(R)
          BY <1>2, <3>3, <3>4 DEF ReportInv
        <4>2. Underway(R)'
          BY <3>1, <4>1, UnderwayPrints
        <4> QED
          BY <2>1, <3>1, <3>3, <4>2
      <3> QED
        BY <3>1, <3>2, <3>4 DEF ReportInv
    <2>4. CASE Fault \/ NonMaskable
      BY <2>4 DEF Fault, NonMaskable, Exception, ReportInv
    <2>5. CASE Stub
      BY <2>5 DEF Stub, formatVars, ReportInv
    <2>6. CASE isr_common_stub
      <3>1. /\ stage = "pushad" /\ stage' = "report" /\ calls' = TheReport'
            /\ out' = << >> /\ format' = format /\ args' = args
        BY <2>6 DEF isr_common_stub, TheReport, Report
      <3>2. format' = << >> /\ args' = << >>
        BY <3>1 DEF ReportInv
      <3>3. PICK R : R = TheReport'
        OBVIOUS
      <3>4. R \in Seq(Pieces)
        BY <1>3, <3>1, <3>3
      <3>5. Underway(R)'
        BY <3>1, <3>2, <3>3, <3>4, UnderwayBegins
      <3> QED
        BY <3>1, <3>3, <3>5 DEF ReportInv
    <2>7. CASE NextCall
      <3>1. /\ stage = "report" /\ stage' = stage /\ stack' = stack /\ fault' = fault /\ out' = out
            /\ format = << >> /\ calls # << >> /\ calls' = Tail(calls)
            /\ format' = Head(calls).format /\ args' = Head(calls).args
        BY <2>7 DEF NextCall
      <3>2. PICK R : R = TheReport
        OBVIOUS
      <3>3. R \in Seq(Pieces) /\ Underway(R)
        BY <1>2, <3>1, <3>2 DEF ReportInv
      <3>4. Underway(R)'
        BY <3>1, <3>3, UnderwayNext
      <3> QED
        BY <2>1, <3>1, <3>2, <3>4 DEF ReportInv
    <2>8. CASE Halt
      <3>1. /\ stage = "report" /\ stage' = "halted" /\ stack' = stack /\ fault' = fault
            /\ out' = out /\ format' = format /\ args' = args
            /\ format = << >> /\ calls = << >>
        BY <2>8 DEF Halt, formatVars
      <3>2. PICK R : R = TheReport
        OBVIOUS
      <3>3. R \in Seq(Pieces) /\ Underway(R)
        BY <1>2, <3>1, <3>2 DEF ReportInv
      <3>4. out = Texts(R) /\ args = << >>
        BY <3>1, <3>3, UnderwayDone
      <3> QED
        BY <2>1, <3>1, <3>2, <3>4 DEF ReportInv
    <2>9. CASE Astray \/ Halted \/ UNCHANGED vars
      <3>1. UNCHANGED << format, args, out, stage, stack, calls, fault >>
        BY <2>9 DEF Astray, Halted, vars, formatVars, panicVars
      <3>2. PICK R : R = TheReport
        OBVIOUS
      <3>3. TheReport' = R
        BY <2>1, <3>1, <3>2
      <3>4. Underway(R)' <=> Underway(R)
        BY <3>1 DEF Underway, Printing, AtText, AtNumber
      <3> QED
        BY <3>1, <3>2, <3>3, <3>4 DEF ReportInv
    <2> QED
      BY <2>2, <2>3, <2>4, <2>5, <2>6, <2>7, <2>8, <2>9 DEF Next
  <1> QED
    BY <1>1, <1>4, StackInvHolds, PTL DEF Spec

\* What the report holds is on the screen when it has been printed.
LEMMA HoldsShown ==
    ASSUME NEW R \in Seq(Pieces), out = Texts(R), NEW label \in Printable,
           NEW text \in Seq(Chars), Holds(R, label, text)
    PROVE  Shown(label, text) /\ label \in ToSet(out)
  <1>1. PICK a \in Seq(Chars), b \in Seq(Chars) : out = a \o ((<< label >> \o text) \o b)
    BY DEF Holds
  <1> DEFINE f == << label >>
             c == f \o text
             d == c \o b
             k == Len(f)
             l == Len(a)
             m == Len(text)
             n == Len(b)
  <1>2. f \in Seq(Chars) /\ f[1] = label
    BY CharFacts
  <1>3. k = 1
    OBVIOUS
  <1>4. out = a \o d
    BY <1>1
  <1>5. Len(f) = k /\ Len(a) = l /\ Len(text) = m /\ Len(b) = n
    OBVIOUS
  <1> HIDE DEF f, k, l, m, n
  <1>6. /\ k \in Nat /\ m \in Nat /\ c \in Seq(Chars) /\ Len(c) = k + m
        /\ \A i \in 1 .. k : c[i] = f[i]
        /\ \A i \in 1 .. m : c[k + i] = text[i]
    BY ONLY <1>2, <1>5, text \in Seq(Chars), ConcatAt, SMTT(30)
  <1> HIDE DEF c
  <1> DEFINE km == k + m
  <1>7. Len(c) = km
    BY <1>6
  <1> HIDE DEF km
  <1>8. /\ km \in Nat /\ n \in Nat /\ d \in Seq(Chars) /\ Len(d) = km + n
        /\ \A i \in 1 .. km : d[i] = c[i]
    BY ONLY <1>5, <1>6, <1>7, b \in Seq(Chars), ConcatAt
  <1> HIDE DEF d
  <1> DEFINE e == km + n
             s == a \o d
  <1>9. Len(d) = e
    BY <1>8
  <1> HIDE DEF e
  <1>10. /\ l \in Nat /\ e \in Nat /\ s \in Seq(Chars) /\ Len(s) = l + e
         /\ \A i \in 1 .. e : s[l + i] = d[i]
    BY ONLY <1>5, <1>8, <1>9, a \in Seq(Chars), ConcatAt, SMTT(30)
  <1> HIDE DEF s
  <1>11. km = k + m /\ e = km + n
    BY DEF km, e
  <1>12. ASSUME NEW i \in 1 .. km PROVE s[l + i] = c[i] /\ l + i \in 1 .. Len(s)
    <2>1. i \in 1 .. e
      BY <1>6, <1>8, <1>11
    <2> QED
      BY <1>8, <1>10, <2>1
  <1>13. s[l + 1] = label /\ l + 1 \in 1 .. Len(s)
    <2>1. 1 \in 1 .. k /\ 1 \in 1 .. km
      BY <1>3, <1>6, <1>11
    <2> QED
      BY <1>2, <1>6, <1>12, <2>1
  <1>14. ASSUME NEW i \in 1 .. m PROVE s[(l + 1) + i] = text[i] /\ (l + 1) + i \in 1 .. Len(s)
    <2>1. 1 + i \in 1 .. km /\ l + (1 + i) = (l + 1) + i
      BY <1>3, <1>6, <1>10, <1>11
    <2>2. c[1 + i] = text[i]
      BY <1>3, <1>6
    <2> QED
      BY <1>12, <2>1, <2>2
  <1> DEFINE p == l + 1
             q == p + 1
             r == p + m
             t == SubSeq(s, q, r)
  <1>15. t = text
    <2>1. q \in Int /\ r \in Int /\ p \in Nat
      BY <1>6, <1>10
    <2>2. \A i \in q .. r : s[i] \in Chars
      <3>1. ASSUME NEW i \in q .. r PROVE s[i] \in Chars
        <4>1. i - p \in 1 .. m /\ p + (i - p) = i
          BY <1>6, <1>10
        <4>2. i \in 1 .. Len(s)
          BY <1>14, <4>1
        <4> QED
          BY <1>10, <4>2, ElementOfSeq
      <3> QED
        BY <3>1
    <2>3. \A i \in 1 .. m : s[p + i] = text[i]
      BY <1>14
    <2>4. (IF q <= r THEN r - q + 1 ELSE 0) = m /\ r - q + 1 = m
          /\ \A i \in 1 .. m : q + i - 1 = p + i
      BY <1>6, <1>10
    <2> HIDE DEF q, r, p
    <2>5. /\ t \in Seq(Chars) /\ Len(t) = (IF q <= r THEN r - q + 1 ELSE 0)
          /\ \A i \in 1 .. r - q + 1 : t[i] = s[q + i - 1]
      BY ONLY <2>1, <2>2, SubSeqProperties, SMTT(30)
    <2> HIDE DEF t
    <2>6. Len(t) = Len(text) /\ \A i \in 1 .. Len(t) : t[i] = text[i]
      BY <1>5, <2>3, <2>4, <2>5
    <2> QED
      BY <2>5, <2>6, SeqEqual
  <1>16. p \in 1 .. Len(out) /\ out[p] = label /\ SubSeq(out, p + 1, p + Len(text)) = text
    BY <1>4, <1>5, <1>13, <1>15 DEF s
  <1> HIDE DEF p
  <1>17. \E i \in 1 .. Len(out) : out[i] = label /\ SubSeq(out, i + 1, i + Len(text)) = text
    BY ONLY <1>16, Zenon
  <1>18. label \in {out[i] : i \in DOMAIN out}
    <2>1. DOMAIN out = 1 .. Len(out)
      BY <1>4, <1>10 DEF s
    <2> QED
      BY ONLY <1>16, <2>1, Zenon
  <1> QED
    BY ONLY <1>17, <1>18, Zenon DEF Shown, ToSet

\* What has been printed when the machine halts is the report of the exception
\* that happened last, once, with the values it happened with.
THEOREM ReportsExactly == Spec => []ReportExact
  <1>1. StackInv /\ ReportInv => ReportExact
    <2> SUFFICES ASSUME StackInv, ReportInv, stage = "halted" PROVE ReportExact
      BY DEF ReportExact
    <2> DEFINE c == fault.context
               v == fault.vector
               f == Frame(stack)
               S == ReportShown(f, c.cr2)
    <2>1. PICK R : R = TheReport
      OBVIOUS
    <2>2. R \in Seq(Pieces) /\ Covers(R, S, ReportMarks(f)) /\ Once(R)
      BY <2>1, TheReportCovers
    <2>3. out = Texts(R)
      BY <2>1 DEF ReportInv
    <2>4. /\ f.eax = c.eax /\ f.ebx = c.ebx /\ f.ecx = c.ecx /\ f.edx = c.edx
          /\ f.ebp = c.ebp /\ f.esi = c.esi /\ f.edi = c.edi
          /\ f.eip = c.eip /\ f.cs = c.cs /\ f.eflags = c.eflags
          /\ f.esp = fault.above[1] /\ f.ss = fault.above[2]
          /\ f.interrupt_number = v /\ f.error_code = ErrorPushed
          /\ v \in Raisable
      BY FrameRight
    <2>5. ASSUME NEW l, NEW t, << l, t >> \in S
          PROVE  Shown(l, t) /\ l \in ToSet(out)
      <3> DEFINE p == << l, t >>
      <3>1. p \in S /\ p[1] = l /\ p[2] = t
        BY <2>5
      <3> HIDE DEF p, S
      <3>2. l \in Printable /\ t \in Seq(Chars) /\ Holds(R, l, t)
        BY <2>2, <3>1 DEF Covers
      <3> QED
        BY <2>2, <2>3, <3>2, HoldsShown
    <2>6. ASSUME NEW m \in Marks PROVE m \in ToSet(out) <=> m \in ReportMarks(f)
      <3>1. MarksIn(R) = ReportMarks(f)
        BY <2>2 DEF Covers
      <3>2. m \in MarksIn(R) <=> \E i \in 1 .. Len(out) : out[i] = m
        BY <2>3, <2>6 DEF MarksIn
      <3>3. m \in ToSet(out) <=> \E i \in 1 .. Len(out) : out[i] = m
        BY DEF ToSet
      <3> QED
        BY <3>1, <3>2, <3>3
    <2>7. Registers(f) \subseteq KernelShown(f) /\ KernelShown(f) \subseteq S
      BY DEF KernelShown, ReportShown
    <2>8. Cardinality({i \in 1 .. Len(out) : out[i] = "=== KERNEL PANIC ==="}) = 1
      <3>1. PICK j \in 1 .. Len(out) : \A i \in 1 .. Len(out) : out[i] = Header <=> i = j
        BY <2>2, <2>3 DEF Once
      <3>2. {i \in 1 .. Len(out) : out[i] = Header} = {j}
        BY <3>1
      <3> QED
        BY <3>2, FS_Singleton DEF Header
    <2>9. Message(v) \in ToSet(out)
      <3>1. << Message(v), << >> >> \in S
        BY <2>4 DEF ReportShown
      <3> HIDE DEF S
      <3> QED
        BY <2>5, <3>1
    <2>10. Shown("Exception Number: ", Numeral(v, 10, FALSE, 0))
      <3>1. << "Exception Number: ", Numeral(v, 10, FALSE, 0) >> \in KernelShown(f)
        BY <2>4 DEF KernelShown
      <3> HIDE DEF S
      <3> QED
        BY <2>5, <2>7, <3>1
    <2>11. Shown("Fault Address (EIP): ", Hex(c.eip))
      <3>1. << "Fault Address (EIP): ", Hex(c.eip) >> \in KernelShown(f)
        BY <2>4 DEF KernelShown
      <3> HIDE DEF S
      <3> QED
        BY <2>5, <2>7, <3>1
    <2>12. /\ Shown("EIP=", Hex(c.eip))
           /\ Shown("EAX=", Hex(c.eax)) /\ Shown("EBX=", Hex(c.ebx))
           /\ Shown("ECX=", Hex(c.ecx)) /\ Shown("EDX=", Hex(c.edx))
           /\ Shown("EBP=", Hex(c.ebp)) /\ Shown("ESI=", Hex(c.esi)) /\ Shown("EDI=", Hex(c.edi))
           /\ Shown("CS=", Hex(c.cs)) /\ Shown("EFLAGS=", Hex(c.eflags))
           /\ Shown("ESP=", Hex(fault.above[1])) /\ Shown("SS=", Hex(fault.above[2]))
      <3>1. \A l, t : << l, t >> \in Registers(f) => Shown(l, t)
        <4> HIDE DEF S
        <4> QED
          BY <2>5, <2>7
      <3>2. /\ << "EIP=", Hex(c.eip) >> \in Registers(f)
            /\ << "EAX=", Hex(c.eax) >> \in Registers(f)
            /\ << "EBX=", Hex(c.ebx) >> \in Registers(f)
            /\ << "ECX=", Hex(c.ecx) >> \in Registers(f)
            /\ << "EDX=", Hex(c.edx) >> \in Registers(f)
            /\ << "EBP=", Hex(c.ebp) >> \in Registers(f)
            /\ << "ESI=", Hex(c.esi) >> \in Registers(f)
            /\ << "EDI=", Hex(c.edi) >> \in Registers(f)
            /\ << "CS=", Hex(c.cs) >> \in Registers(f)
            /\ << "EFLAGS=", Hex(c.eflags) >> \in Registers(f)
            /\ << "ESP=", Hex(fault.above[1]) >> \in Registers(f)
            /\ << "SS=", Hex(fault.above[2]) >> \in Registers(f)
        <4> HIDE DEF f, c
        <4> QED
          BY <2>4 DEF Registers
      <3> HIDE DEF f, c
      <3> QED
        BY <3>1, <3>2
    <2>13. /\ ShowsError(v) <=> v \in PushesError
           /\ v \in PushesError => f.error_code = c.error
      BY <2>4 DEF Raisable, ShowsError, PushesError, ErrorPushed
    <2>14. IF v \in PushesError THEN Shown("Error Code: ", Hex(c.error))
           ELSE "Error Code: " \notin ToSet(out)
      <3>1. ASSUME v \in PushesError PROVE Shown("Error Code: ", Hex(c.error))
        <4>1. << "Error Code: ", Hex(c.error) >> \in ErrorShown(f)
          BY <2>4, <2>13, <3>1 DEF ErrorShown
        <4>2. << "Error Code: ", Hex(c.error) >> \in KernelShown(f)
          BY <4>1 DEF KernelShown
        <4> HIDE DEF S
        <4> QED
          BY <2>5, <2>7, <4>2
      <3>2. ASSUME v \notin PushesError PROVE "Error Code: " \notin ToSet(out)
        <4>1. "Error Code: " \in Marks /\ "Error Code: " # Header /\ "Error Code: " # "Write access "
          BY DEF Marks, Header
        <4>2. ErrorMarks(f.interrupt_number) = {}
          BY <2>4, <2>13, <3>2 DEF ErrorMarks
        <4>3. "Error Code: " \notin ReportMarks(f)
          BY <4>1, <4>2 DEF ReportMarks, FaultMarks
        <4> QED
          BY <2>6, <4>1, <4>3
      <3> QED
        BY <3>1, <3>2
    <2>15. ASSUME v = 14
           PROVE  /\ Shown("Faulting address: 0x", Numeral(c.cr2, 16, FALSE, 0))
                  /\ Shown("Error code: 0x", Numeral(c.error, 16, FALSE, 0))
                  /\ "Write access " \in ToSet(out) <=> Bit(c.error, 1)
      <3>1. f.interrupt_number = 14 /\ f.error_code = c.error
        BY <2>4, <2>13, <2>15 DEF PushesError
      <3>2. PageFaultShown(c.error, c.cr2) \subseteq S
        BY <3>1 DEF ReportShown
      <3>3. /\ << "Faulting address: 0x", Numeral(c.cr2, 16, FALSE, 0) >> \in S
            /\ << "Error code: 0x", Numeral(c.error, 16, FALSE, 0) >> \in S
        <4> HIDE DEF S
        <4> QED
          BY <3>2 DEF PageFaultShown
      <3>4. "Write access " \in Marks /\ "Write access " # Header /\ "Write access " # "Error Code: "
        BY DEF Marks, Header
      <3>5. "Write access " \in ReportMarks(f) <=> Bit(c.error, 1)
        BY <3>1, <3>4 DEF ReportMarks, FaultMarks, ErrorMarks
      <3> HIDE DEF S
      <3> QED
        BY <2>5, <2>6, <3>3, <3>4, <3>5
    <2> QED
      BY <2>8, <2>9, <2>10, <2>11, <2>12, <2>14, <2>15 DEF ReportExact
  <1> QED
    BY <1>1, StackInvHolds, ReportInvHolds, PTL
=============================================================================
