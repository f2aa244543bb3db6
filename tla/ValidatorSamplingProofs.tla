---------------------- MODULE ValidatorSamplingProofs ----------------------
(***************************************************************************)
(* Theorems about ValidatorSampling, for any lists of weights and any      *)
(* MaxUint64.                                                              *)
(***************************************************************************)
EXTENDS ValidatorSampling, SequenceTheorems, FiniteSetTheorems, TLAPS

-----------------------------------------------------------------------------
(* The two folds of the model. *)

PlusWeight(w, sum) == sum + w
TimesBase(b, p) == p * b
Largest(s) == Max(s)

Summing     == INSTANCE FoldTheorems WITH op <- PlusWeight, choose <- Largest
Multiplying == INSTANCE FoldTheorems WITH op <- TimesBase, choose <- Largest

LEMMA SameFinite ==
  \A S : IsFiniteSet(S) => Summing!IsFiniteSet(S) /\ Multiplying!IsFiniteSet(S)
BY DEF IsFiniteSet, Summing!IsFiniteSet, Multiplying!IsFiniteSet

LEMMA SumIsFold == \A ws : SumOf(ws) = Summing!Fold(ws, 0, DOMAIN ws)
BY DEF SumOf, FoldLeft, MapThenFoldSet,
       Summing!Fold, Summing!MapThenFoldSet, Largest, PlusWeight

LEMMA PowIsFold ==
  \A b, n : Pow(b, n) = Multiplying!Fold([i \in 1 .. n |-> b], 1, DOMAIN [i \in 1 .. n |-> b])
BY DEF Pow, FoldLeft, MapThenFoldSet,
       Multiplying!Fold, Multiplying!MapThenFoldSet, Largest, TimesBase

LEMMA LeastMember ==
  ASSUME NEW S, \A x \in S : x \in Nat, S # {}
  PROVE  \E m \in S : \A y \in S : m <= y
BY Summing!LeastExists

(* The loops of the program go through a list from its start. *)
LEMMA IntervalChooses ==
  ASSUME NEW n \in Nat
  PROVE  /\ Summing!IsFiniteSet(1 .. n) /\ Summing!Chooses(1 .. n)
         /\ Multiplying!IsFiniteSet(1 .. n) /\ Multiplying!Chooses(1 .. n)
         /\ n > 0 => Largest(1 .. n) = n /\ (1 .. n) \ {n} = 1 .. n - 1
<1>1. IsFiniteSet(1 .. n)
  BY FS_Interval
<1>2. Summing!IsFiniteSet(1 .. n) /\ Multiplying!IsFiniteSet(1 .. n)
  BY <1>1, SameFinite
<1>3. ASSUME NEW T \in SUBSET (1 .. n), T # {} PROVE Largest(T) \in T
  <2>1. \A x \in 1 .. n : x \in Nat
    OBVIOUS
  <2>2. \E m \in T : \A y \in T : m >= y
    BY <1>2, <1>3, <2>1, Summing!LargestExists
  <2> QED
    BY <2>2 DEF Largest, Max
<1>4. ASSUME n > 0 PROVE Largest(1 .. n) = n /\ (1 .. n) \ {n} = 1 .. n - 1
  <2>1. n \in 1 .. n /\ \A y \in 1 .. n : n >= y
    BY <1>4
  <2>2. \E m \in 1 .. n : \A y \in 1 .. n : m >= y
    BY <2>1
  <2>3. Largest(1 .. n) \in 1 .. n /\ \A y \in 1 .. n : Largest(1 .. n) >= y
    BY <2>2 DEF Largest, Max
  <2> QED
    BY <2>1, <2>3
<1> QED
  BY <1>2, <1>3, <1>4 DEF Summing!Chooses, Multiplying!Chooses

-----------------------------------------------------------------------------
(* Powers. *)

LEMMA PowStep ==
  ASSUME NEW b, NEW n \in Nat
  PROVE  Pow(b, 0) = 1 /\ Pow(b, n + 1) = Pow(b, n) * b
<1> DEFINE f(j) == [i \in 1 .. j |-> b]
           F(j, S) == Multiplying!Fold(f(j), 1, S)
<1>1. \A j : Pow(b, j) = F(j, 1 .. j)
  BY PowIsFold
<1>2. Pow(b, 0) = 1
  <2>1. 1 .. 0 = {} /\ 0 \in Nat
    OBVIOUS
  <2>2. Multiplying!IsFiniteSet(1 .. 0) /\ Multiplying!Chooses(1 .. 0)
    BY <2>1, IntervalChooses
  <2>3. F(0, 1 .. 0) = 1
    BY <2>1, <2>2, Multiplying!FoldEquation
  <2> QED
    BY <1>1, <2>3
<1>3. /\ Multiplying!IsFiniteSet(1 .. n + 1) /\ Multiplying!Chooses(1 .. n + 1)
      /\ Multiplying!IsFiniteSet(1 .. n) /\ Multiplying!Chooses(1 .. n)
      /\ Largest(1 .. n + 1) = n + 1 /\ (1 .. n + 1) \ {n + 1} = 1 .. n
      /\ 1 .. n + 1 # {}
  <2>1. n + 1 \in Nat /\ n + 1 > 0 /\ (n + 1) - 1 = n /\ n + 1 \in 1 .. n + 1
    OBVIOUS
  <2> QED
    BY <2>1, IntervalChooses
<1>4. F(n + 1, 1 .. n + 1) = TimesBase(f(n + 1)[n + 1], F(n + 1, 1 .. n))
  BY <1>3, Multiplying!FoldEquation DEF Multiplying!Rest
<1>5. F(n + 1, 1 .. n) = F(n, 1 .. n)
  <2>1. \A i \in 1 .. n : f(n + 1)[i] = f(n)[i]
    OBVIOUS
  <2> HIDE DEF f
  <2>2. 1 .. n \in SUBSET (1 .. n)
    OBVIOUS
  <2> QED
    BY <1>3, <2>1, <2>2, Multiplying!FoldSame
<1>6. f(n + 1)[n + 1] = b
  OBVIOUS
<1> QED
  BY <1>1, <1>2, <1>4, <1>5, <1>6 DEF TimesBase

(* A power is a number; of a positive number it is positive. *)
LEMMA PowType ==
  ASSUME NEW b \in Nat, NEW n \in Nat
  PROVE  Pow(b, n) \in Nat /\ (b > 0 => Pow(b, n) > 0)
<1> DEFINE Good(i) == Pow(b, i) \in Nat /\ (b > 0 => Pow(b, i) > 0)
           S == {i \in Nat : ~Good(i)}
<1> SUFFICES ASSUME S # {} PROVE FALSE
  OBVIOUS
<1>1. PICK m \in S : \A y \in S : m <= y
  <2>1. \A x \in S : x \in Nat
    OBVIOUS
  <2> HIDE DEF S
  <2> QED
    BY <2>1, LeastMember
<1>2. m \in Nat /\ ~Good(m)
  OBVIOUS
<1>3. m # 0
  <2>1. Good(0)
    BY PowStep
  <2> QED
    BY <1>2, <2>1
<1>4. m - 1 \in Nat /\ (m - 1) + 1 = m /\ ~(m <= m - 1)
  BY <1>2, <1>3
<1>5. Good(m - 1)
  BY <1>1, <1>4
<1>6. Pow(b, m) = Pow(b, m - 1) * b
  BY <1>4, PowStep
<1>7. ASSUME NEW p \in Nat PROVE p * b \in Nat /\ (b > 0 /\ p > 0 => p * b > 0)
  OBVIOUS
<1> QED
  BY <1>2, <1>5, <1>6, <1>7

(* A larger base gives a larger power. *)
LEMMA PowMonotone ==
  ASSUME NEW a \in Nat, NEW b \in Nat, a <= b, NEW n \in Nat
  PROVE  Pow(a, n) <= Pow(b, n)
<1> DEFINE S == {i \in Nat : ~(Pow(a, i) <= Pow(b, i))}
<1> SUFFICES ASSUME S # {} PROVE FALSE
  OBVIOUS
<1>1. PICK m \in S : \A y \in S : m <= y
  <2>1. \A x \in S : x \in Nat
    OBVIOUS
  <2> HIDE DEF S
  <2> QED
    BY <2>1, LeastMember
<1>2. m \in Nat /\ ~(Pow(a, m) <= Pow(b, m))
  OBVIOUS
<1>3. m # 0
  BY <1>2, PowStep
<1>4. m - 1 \in Nat /\ (m - 1) + 1 = m /\ ~(m <= m - 1)
  BY <1>2, <1>3
<1>5. Pow(a, m - 1) <= Pow(b, m - 1)
  BY <1>1, <1>4
<1>6. Pow(a, m) = Pow(a, m - 1) * a /\ Pow(b, m) = Pow(b, m - 1) * b
  BY <1>4, PowStep
<1>7. Pow(a, m - 1) \in Nat /\ Pow(b, m - 1) \in Nat
  BY <1>4, PowType
<1>8. ASSUME NEW p \in Nat, NEW q \in Nat, p <= q PROVE p * a <= q * b
  <2>1. p * a <= p * b /\ p * b <= q * b
    BY <1>8
  <2>2. p * a \in Nat /\ p * b \in Nat /\ q * b \in Nat
    OBVIOUS
  <2> QED
    BY <2>1, <2>2
<1> QED
  BY <1>2, <1>5, <1>6, <1>7, <1>8

(* A strictly larger base gives a strictly larger power. *)
LEMMA PowStrict ==
  ASSUME NEW a \in Nat, NEW n \in Nat, n > 0
  PROVE  Pow(a, n) < Pow(a + 1, n)
<1>1. n - 1 \in Nat /\ (n - 1) + 1 = n
  OBVIOUS
<1>2. Pow(a, n) = Pow(a, n - 1) * a /\ Pow(a + 1, n) = Pow(a + 1, n - 1) * (a + 1)
  BY <1>1, PowStep
<1>3. a + 1 \in Nat /\ a + 1 > 0 /\ a <= a + 1
  OBVIOUS
<1>4. /\ Pow(a, n - 1) \in Nat /\ Pow(a + 1, n - 1) \in Nat
      /\ Pow(a + 1, n - 1) > 0 /\ Pow(a, n - 1) <= Pow(a + 1, n - 1)
  BY <1>1, <1>3, PowType, PowMonotone
<1>5. ASSUME NEW p \in Nat, NEW q \in Nat, q > 0, p <= q PROVE p * a < q * (a + 1)
  <2>1. p * a <= q * a /\ p * a \in Nat /\ q * a \in Nat
    BY <1>5
  <2>2. q * (a + 1) = q * a + q
    OBVIOUS
  <2> QED
    BY <1>5, <2>1, <2>2
<1> QED
  BY <1>2, <1>4, <1>5

(* (1 + 1/n)^j <= j + 1 for j <= n. *)
LEMMA PowSuccessor ==
  ASSUME NEW n \in Nat, n > 0, NEW j \in 0 .. n
  PROVE  Pow(n + 1, j) <= (j + 1) * Pow(n, j)
<1> DEFINE S == {i \in 0 .. n : ~(Pow(n + 1, i) <= (i + 1) * Pow(n, i))}
<1> SUFFICES ASSUME S # {} PROVE FALSE
  OBVIOUS
<1>1. PICK m \in S : \A y \in S : m <= y
  <2>1. \A x \in S : x \in Nat
    OBVIOUS
  <2> HIDE DEF S
  <2> QED
    BY <2>1, LeastMember
<1>2. m \in 0 .. n /\ ~(Pow(n + 1, m) <= (m + 1) * Pow(n, m))
  OBVIOUS
<1>3. m # 0
  BY <1>2, PowStep
<1>4. PICK i \in Nat : m = i + 1 /\ i + 1 <= n
  <2>1. m - 1 \in Nat /\ m = (m - 1) + 1 /\ m <= n
    BY <1>2, <1>3
  <2> QED
    BY <2>1
<1>5. Pow(n + 1, i) <= (i + 1) * Pow(n, i)
  <2>1. i \in 0 .. n /\ ~(m <= i)
    BY <1>4
  <2> QED
    BY <1>1, <2>1
<1>6. Pow(n + 1, m) = Pow(n + 1, i) * (n + 1) /\ Pow(n, m) = Pow(n, i) * n
  BY <1>4, PowStep
<1>7. Pow(n + 1, i) \in Nat /\ Pow(n, i) \in Nat
  <2>1. n + 1 \in Nat
    OBVIOUS
  <2> QED
    BY <2>1, PowType
<1>8. ASSUME NEW A \in Nat, NEW B \in Nat, A <= (i + 1) * B
      PROVE  A * (n + 1) <= (i + 2) * (B * n)
  <2>1. A * (n + 1) <= ((i + 1) * B) * (n + 1)
    BY <1>8
  <2>2. ((i + 1) * B) * (n + 1) = ((i + 1) * (n + 1)) * B
    OBVIOUS
  <2>3. (i + 1) * (n + 1) <= (i + 2) * n
    BY <1>4
  <2>4. ((i + 1) * (n + 1)) * B <= ((i + 2) * n) * B
    BY <2>3
  <2>5. ((i + 2) * n) * B = (i + 2) * (B * n)
    OBVIOUS
  <2> QED
    BY <2>1, <2>2, <2>4, <2>5
<1>9. (m + 1) * Pow(n, m) = (i + 2) * (Pow(n, i) * n)
  BY <1>4, <1>6
<1> QED
  BY <1>2, <1>5, <1>6, <1>7, <1>8, <1>9

(* n^s < (s + 1)^n for n >= s > 0. *)
LEMMA PowExchange ==
  ASSUME NEW s \in Nat, s > 0, NEW n \in Nat, n >= s
  PROVE  Pow(n, s) < Pow(s + 1, n)
<1> DEFINE S == {i \in Nat : i >= s /\ ~(Pow(i, s) < Pow(s + 1, i))}
<1> SUFFICES ASSUME S # {} PROVE FALSE
  OBVIOUS
<1>1. PICK m \in S : \A y \in S : m <= y
  <2>1. \A x \in S : x \in Nat
    OBVIOUS
  <2> HIDE DEF S
  <2> QED
    BY <2>1, LeastMember
<1>2. m \in Nat /\ m >= s /\ ~(Pow(m, s) < Pow(s + 1, m))
  OBVIOUS
<1>3. m # s
  BY <1>2, PowStrict
<1>4. PICK i \in Nat : m = i + 1 /\ i >= s /\ i > 0 /\ ~(m <= i) /\ s \in 0 .. i
  <2>1. m - 1 \in Nat /\ m = (m - 1) + 1 /\ m - 1 >= s
    BY <1>2, <1>3
  <2> QED
    BY <2>1
<1>5. Pow(i, s) < Pow(s + 1, i)
  BY <1>1, <1>4
<1>6. Pow(m, s) <= (s + 1) * Pow(i, s)
  BY <1>4, PowSuccessor
<1>7. Pow(s + 1, m) = Pow(s + 1, i) * (s + 1)
  BY <1>4, PowStep
<1>8. Pow(i, s) \in Nat /\ Pow(s + 1, i) \in Nat /\ Pow(m, s) \in Nat
  <2>1. s + 1 \in Nat
    OBVIOUS
  <2> QED
    BY <1>2, <2>1, PowType
<1>9. ASSUME NEW A \in Nat, NEW B \in Nat, A < B PROVE (s + 1) * A < B * (s + 1)
  BY <1>9
<1>10. (s + 1) * Pow(i, s) < Pow(s + 1, i) * (s + 1)
  BY <1>5, <1>8, <1>9
<1>11. (s + 1) * Pow(i, s) \in Nat /\ Pow(s + 1, i) * (s + 1) \in Nat
  BY <1>8
<1> QED
  BY <1>2, <1>6, <1>7, <1>8, <1>10, <1>11

(* n^(q - r) < (n - r + 1)^q: the q-th root of the left-hand side, which    *)
(* math.Pow computes, is less than n - r + 1.                               *)
LEMMA RootBound ==
  ASSUME NEW n \in Nat, NEW r \in Nat, 0 < r, r < n, NEW q \in Nat, r <= q, q <= n
  PROVE  Pow(n, q - r) < Pow(n - r + 1, q)
<1> DEFINE x == n - r + 1
           Less(i) == Pow(n, i - r) < Pow(x, i)
           S == {d \in 0 .. n - r : ~Less(n - d)}
<1> SUFFICES ASSUME ~Less(q) PROVE FALSE
  OBVIOUS
<1>1. n - q \in S
  <2>1. n - q \in 0 .. n - r /\ n - (n - q) = q
    OBVIOUS
  <2> QED
    BY <2>1
<1>2. PICK d \in S : \A y \in S : d <= y
  <2>1. \A y \in S : y \in Nat
    OBVIOUS
  <2> HIDE DEF S
  <2> QED
    BY <1>1, <2>1, LeastMember
<1>3. d \in 0 .. n - r /\ ~Less(n - d)
  OBVIOUS
<1>4. x \in Nat /\ x > 0 /\ x <= n
  OBVIOUS
<1>5. d # 0
  <2>1. n - r \in Nat /\ n - r > 0 /\ n >= n - r
    OBVIOUS
  <2>2. Pow(n, n - r) < Pow((n - r) + 1, n)
    BY <2>1, PowExchange
  <2>3. Less(n - 0)
    BY <2>2
  <2> QED
    BY <1>3, <2>3
<1>6. PICK i \in Nat : i = n - d /\ i >= r
  <2>1. n - d \in Nat /\ n - d >= r
    BY <1>3
  <2> QED
    BY <2>1
<1>7. Pow(n, (i + 1) - r) < Pow(x, i + 1)
  <2>1. d - 1 \in 0 .. n - r /\ ~(d <= d - 1) /\ n - (d - 1) = i + 1
    BY <1>3, <1>5, <1>6
  <2>2. Less(n - (d - 1))
    BY <1>2, <2>1
  <2> QED
    BY <2>1, <2>2
<1>8. /\ Pow(n, (i + 1) - r) = Pow(n, i - r) * n
      /\ Pow(x, i + 1) = Pow(x, i) * x
  <2>1. i - r \in Nat /\ (i + 1) - r = (i - r) + 1
    BY <1>6
  <2> HIDE DEF x
  <2> QED
    BY <1>4, <2>1, PowStep
<1>9. Pow(n, i - r) \in Nat /\ Pow(x, i) \in Nat /\ Pow(n, i - r) >= Pow(x, i)
  <2>1. i - r \in Nat
    BY <1>6
  <2> HIDE DEF x
  <2>2. Pow(n, i - r) \in Nat /\ Pow(x, i) \in Nat
    BY <1>4, <2>1, PowType
  <2> QED
    BY <1>3, <1>6, <2>2
<1> HIDE DEF x
<1>10. ASSUME NEW A \in Nat, NEW B \in Nat, A >= B PROVE A * n >= B * x
  <2>1. A * n >= B * n /\ B * n >= B * x
    BY <1>4, <1>10
  <2>2. A * n \in Nat /\ B * n \in Nat /\ B * x \in Nat
    BY <1>4
  <2> QED
    BY <2>1, <2>2
<1>11. Pow(n, i - r) * n >= Pow(x, i) * x
  BY <1>9, <1>10
<1>12. Pow(n, i - r) * n \in Nat /\ Pow(x, i) * x \in Nat
  BY <1>4, <1>9
<1> QED
  BY <1>7, <1>8, <1>11, <1>12

LEMMA PowExponent ==
  ASSUME NEW b \in Nat, b > 0, NEW p \in Nat, NEW q \in Nat, p <= q
  PROVE  Pow(b, p) <= Pow(b, q)
<1> DEFINE S == {i \in Nat : p <= i /\ ~(Pow(b, p) <= Pow(b, i))}
<1> SUFFICES ASSUME S # {} PROVE FALSE
  OBVIOUS
<1>1. PICK m \in S : \A y \in S : m <= y
  <2>1. \A x \in S : x \in Nat
    OBVIOUS
  <2> HIDE DEF S
  <2> QED
    BY <2>1, LeastMember
<1>2. m \in Nat /\ p <= m /\ ~(Pow(b, p) <= Pow(b, m))
  OBVIOUS
<1>3. Pow(b, p) \in Nat
  BY PowType
<1>4. m # p
  BY <1>2, <1>3
<1>5. PICK i \in Nat : m = i + 1 /\ p <= i /\ ~(m <= i)
  <2>1. m - 1 \in Nat /\ m = (m - 1) + 1 /\ p <= m - 1
    BY <1>2, <1>4
  <2> QED
    BY <2>1
<1>6. Pow(b, p) <= Pow(b, i)
  BY <1>1, <1>5
<1>7. Pow(b, m) = Pow(b, i) * b /\ Pow(b, i) \in Nat
  BY <1>5, PowStep, PowType
<1>8. ASSUME NEW A \in Nat PROVE A <= A * b /\ A * b \in Nat
  OBVIOUS
<1> QED
  BY <1>2, <1>3, <1>6, <1>7, <1>8

(* The integer part of the root exists. *)
LEMMA RootExists ==
  ASSUME NEW b \in Nat, b > 0, NEW p \in Nat, NEW q \in Nat, p <= q, q > 0
  PROVE  \E x \in 0 .. b : Pow(x, q) <= Pow(b, p) /\ Pow(x + 1, q) > Pow(b, p)
<1> DEFINE S == {x \in Nat : Pow(x + 1, q) > Pow(b, p)}
<1>0. Pow(b, p) \in Nat /\ Pow(b, q) \in Nat /\ Pow(b + 1, q) \in Nat
  <2>1. b + 1 \in Nat
    OBVIOUS
  <2> QED
    BY <2>1, PowType
<1>1. b \in S
  <2>1. Pow(b, p) <= Pow(b, q) /\ Pow(b, q) < Pow(b + 1, q)
    BY PowExponent, PowStrict
  <2> QED
    BY <1>0, <2>1
<1>2. PICK m \in S : \A y \in S : m <= y
  <2>1. \A x \in S : x \in Nat
    OBVIOUS
  <2> HIDE DEF S
  <2> QED
    BY <1>1, <2>1, LeastMember
<1>3. m \in 0 .. b /\ Pow(m + 1, q) > Pow(b, p)
  BY <1>1, <1>2
<1>4. Pow(m, q) <= Pow(b, p)
  <2>1. CASE m = 0
    <3>1. PICK i \in Nat : q = i + 1
      <4>1. q - 1 \in Nat /\ q = (q - 1) + 1
        OBVIOUS
      <4> QED
        BY <4>1
    <3>2. Pow(m, q) = Pow(m, i) * 0 /\ Pow(m, i) \in Nat
      BY <2>1, <3>1, PowStep, PowType
    <3> QED
      BY <1>0, <3>2
  <2>2. CASE m # 0
    <3>1. m - 1 \in Nat /\ (m - 1) + 1 = m /\ ~(m <= m - 1)
      BY <1>3, <2>2
    <3>2. m - 1 \notin S
      BY <1>2, <3>1
    <3>3. ~(Pow(m, q) > Pow(b, p))
      BY <3>1, <3>2
    <3>4. Pow(m, q) \in Nat
      BY <1>3, PowType
    <3> QED
      BY <1>0, <3>3, <3>4
  <2> QED
    BY <2>1, <2>2
<1> QED
  BY <1>3, <1>4

(* What rounding may make of the root is a number from 0 to the base, and   *)
(* not more than the bound of RootBound allows.                             *)
LEMMA IntPowBound ==
  ASSUME NEW b \in Nat, NEW r \in Nat, 0 < r, r < b, NEW q \in Nat, r <= q, q <= b
  PROVE  IntPow(b, q - r, q) \subseteq 0 .. b - r
<1> DEFINE p == q - r
           IsRoot(x) == Pow(x, q) <= Pow(b, p) /\ Pow(x + 1, q) > Pow(b, p)
           m == CHOOSE x \in 0 .. b : IsRoot(x)
<1>1. p \in Nat /\ p <= q /\ q > 0 /\ b > 0
  OBVIOUS
<1>2. \E x \in 0 .. b : IsRoot(x)
  <2> HIDE DEF p
  <2> QED
    BY <1>1, RootExists
<1>3. m \in 0 .. b /\ IsRoot(m)
  <2> HIDE DEF IsRoot
  <2> QED
    BY <1>2
<1> HIDE DEF m
<1>4. Pow(b, p) < Pow(b - r + 1, q)
  BY RootBound
<1> HIDE DEF p
<1>5. m <= b - r
  <2> SUFFICES ASSUME ~(m <= b - r) PROVE FALSE
    OBVIOUS
  <2>1. b - r + 1 \in Nat /\ m \in Nat /\ b - r + 1 <= m
    BY <1>3
  <2>2. Pow(b - r + 1, q) <= Pow(m, q)
    BY <2>1, PowMonotone
  <2>3. Pow(b - r + 1, q) \in Nat /\ Pow(m, q) \in Nat /\ Pow(b, p) \in Nat
    BY <1>1, <2>1, PowType
  <2> QED
    BY <1>3, <1>4, <2>2, <2>3
<1>6. IntPow(b, p, q) \subseteq {x \in {m - 1, m} : x = m \/ m > 1}
  BY DEF IntPow, m
<1> QED
  BY <1>3, <1>5, <1>6 DEF p

(* A round has at least one candidate and no more than are left.            *)
LEMMA CandidateSize ==
  ASSUME NEW n \in Nat, NEW total \in Nat, NEW r \in Nat, r < total, total <= n
  PROVE  GetCandidateSize(r, total, n) \subseteq 1 .. n - r
<1>1. CASE r = 0
  BY <1>1 DEF GetCandidateSize
<1>2. CASE r # 0 /\ n = r + 1
  BY <1>2 DEF GetCandidateSize
<1>3. CASE r # 0 /\ n # r + 1
  <2> DEFINE b == n - 1
             q == total - 1
  <2>1. /\ b \in Nat /\ q \in Nat /\ 0 < r /\ r < b /\ r <= q /\ q <= b
        /\ b - r = n - r - 1
    BY <1>3
  <2>2. GetCandidateSize(r, total, n) = {m + 1 : m \in IntPow(b, q - r, q)}
    BY <1>3 DEF GetCandidateSize
  <2> HIDE DEF b, q
  <2>3. IntPow(b, q - r, q) \subseteq 0 .. b - r
    BY <2>1, IntPowBound
  <2>4. ASSUME NEW m \in 0 .. b - r PROVE m + 1 \in 1 .. n - r
    BY <2>1, <2>4
  <2> QED
    BY <2>2, <2>3, <2>4
<1> QED
  BY <1>1, <1>2, <1>3

-----------------------------------------------------------------------------
(* The validators that are left and those chosen. *)

LEMMA RemoveAtProperties ==
  ASSUME NEW S, NEW s \in Seq(S), NEW i \in 1 .. Len(s)
  PROVE  /\ RemoveAt(s, i) \in Seq(S)
         /\ Len(RemoveAt(s, i)) = Len(s) - 1
         /\ \A j \in 1 .. Len(s) - 1 :
              RemoveAt(s, i)[j] = IF j < i THEN s[j] ELSE s[j + 1]
<1> DEFINE n  == Len(s)
           s1 == SubSeq(s, 1, i - 1)
           s2 == SubSeq(s, i + 1, n)
<1>1. n \in Nat /\ i \in Nat /\ 1 <= i /\ i <= n /\ \A j \in 1 .. n : s[j] \in S
  BY LenProperties, ElementOfSeq
<1> HIDE DEF n
<1>2. s1 \in Seq(S) /\ Len(s1) = i - 1 /\ \A j \in 1 .. i - 1 : s1[j] = s[j]
  <2>1. 1 \in Int /\ i - 1 \in Int /\ \A j \in 1 .. i - 1 : s[j] \in S
    BY <1>1
  <2>2. /\ s1 \in Seq(S)
        /\ Len(s1) = IF 1 <= i - 1 THEN (i - 1) - 1 + 1 ELSE 0
        /\ \A j \in 1 .. (i - 1) - 1 + 1 : s1[j] = s[1 + j - 1]
    BY <2>1, SubSeqProperties
  <2> HIDE DEF s1
  <2> QED
    BY <1>1, <2>2
<1>3. s2 \in Seq(S) /\ Len(s2) = n - i /\ \A j \in 1 .. n - i : s2[j] = s[j + i]
  <2>1. i + 1 \in Int /\ n \in Int /\ \A j \in i + 1 .. n : s[j] \in S
    BY <1>1
  <2>2. /\ s2 \in Seq(S)
        /\ Len(s2) = IF i + 1 <= n THEN n - (i + 1) + 1 ELSE 0
        /\ \A j \in 1 .. n - (i + 1) + 1 : s2[j] = s[(i + 1) + j - 1]
    BY <2>1, SubSeqProperties
  <2> HIDE DEF s2
  <2>3. Len(s2) = n - i /\ n - (i + 1) + 1 = n - i
    BY <1>1, <2>2
  <2>4. \A j \in 1 .. n - i : (i + 1) + j - 1 = j + i
    BY <1>1
  <2> QED
    BY <2>2, <2>3, <2>4
<1>4. RemoveAt(s, i) = s1 \o s2
  BY DEF RemoveAt, n
<1> HIDE DEF s1, s2
<1>5. /\ s1 \o s2 \in Seq(S) /\ Len(s1 \o s2) = (i - 1) + (n - i)
      /\ \A j \in 1 .. (i - 1) + (n - i) :
           (s1 \o s2)[j] = IF j <= i - 1 THEN s1[j] ELSE s2[j - (i - 1)]
  <2>1. /\ s1 \o s2 \in Seq(S) /\ Len(s1 \o s2) = Len(s1) + Len(s2)
        /\ \A j \in 1 .. Len(s1) + Len(s2) :
             (s1 \o s2)[j] = IF j <= Len(s1) THEN s1[j] ELSE s2[j - Len(s1)]
    BY <1>2, <1>3, ConcatProperties
  <2>2. Len(s1) = i - 1 /\ Len(s2) = n - i
    BY <1>2, <1>3
  <2> QED
    BY ONLY <2>1, <2>2
<1>6. (i - 1) + (n - i) = n - 1
  BY <1>1
<1>7. ASSUME NEW j \in 1 .. n - 1
      PROVE  (s1 \o s2)[j] = IF j < i THEN s[j] ELSE s[j + 1]
  <2>1. CASE j < i
    <3>1. j \in 1 .. i - 1 /\ j <= i - 1
      BY <1>1, <2>1
    <3> QED
      BY <1>2, <1>5, <1>6, <2>1, <3>1
  <2>2. CASE ~(j < i)
    <3>1. j - (i - 1) \in 1 .. n - i /\ ~(j <= i - 1) /\ (j - (i - 1)) + i = j + 1
      BY <1>1, <2>2
    <3>2. (s1 \o s2)[j] = s2[j - (i - 1)]
      BY <1>5, <1>6, <3>1
    <3> QED
      BY <1>3, <2>2, <3>1, <3>2
  <2> QED
    BY <2>1, <2>2
<1> QED
  BY <1>4, <1>5, <1>6, <1>7 DEF n

(* The values in scope: the list that GetRandomValidators passes, and the   *)
(* indexes ChooseK keeps of it.                                             *)
TypeOK ==
  /\ weights \in WeightSeqs
  /\ k \in 0 .. totalCount
  /\ luckies \in Seq(1 .. totalCount)
  /\ weightIndexes \in Seq(1 .. totalCount)
  /\ status \in {"running", "done", "panic"}
  /\ round <= k

Disjoint ==
  \A i \in 1 .. Len(luckies), j \in 1 .. Len(weightIndexes) :
    luckies[i] # weightIndexes[j]

Inv == TypeOK /\ Disjoint /\ ChosenOnce

LEMMA WeightsType ==
  ASSUME weights \in WeightSeqs
  PROVE  /\ weights \in Seq(1 .. MaxUint64) /\ MaxUint64 \in Nat
         /\ totalCount \in Nat
         /\ \A i \in 1 .. totalCount : weights[i] \in Nat /\ weights[i] > 0
<1>1. weights \in Seq(1 .. MaxUint64) /\ MaxUint64 \in Nat
  BY WeightsTyped
<1>2. Len(weights) \in Nat /\ \A i \in 1 .. Len(weights) : weights[i] \in 1 .. MaxUint64
  BY <1>1, LenProperties, ElementOfSeq
<1> QED
  BY <1>1, <1>2 DEF totalCount

LEMMA InitInv == Init => Inv
<1> SUFFICES ASSUME Init PROVE Inv
  OBVIOUS
<1> USE DEF Init
<1> DEFINE n == totalCount
<1>1. n \in Nat
  BY WeightsType
<1>2. weightIndexes = [i \in 1 .. n |-> i] /\ luckies = << >>
  OBVIOUS
<1>3. weightIndexes \in Seq(1 .. n) /\ Len(weightIndexes) = n /\ DOMAIN weightIndexes = 1 .. n
  BY <1>1, <1>2
<1>4. luckies \in Seq(1 .. n) /\ Len(luckies) = 0 /\ DOMAIN luckies = {}
  BY <1>2, EmptySeq, LenProperties
<1>5. TypeOK
  <2>1. weights \in WeightSeqs /\ k \in 0 .. n /\ status = "running"
    OBVIOUS
  <2>2. round <= k
    BY <1>1, <1>4, <2>1 DEF round
  <2> QED
    BY <1>3, <1>4, <2>1, <2>2 DEF TypeOK
<1>6. Disjoint
  BY <1>4 DEF Disjoint
<1>7. ToSet(luckies) = {} /\ ToSet(weightIndexes) = 1 .. n
  BY <1>2, <1>3, <1>4 DEF ToSet
<1>8. ChosenOnce
  <2>1. IsInjective(luckies)
    BY <1>4 DEF IsInjective
  <2>2. Len(luckies) + Len(weightIndexes) = n
    BY <1>1, <1>3, <1>4
  <2>3. \A i, j \in 1 .. Len(weightIndexes) : i < j => weightIndexes[i] < weightIndexes[j]
    BY <1>1, <1>2, <1>3
  <2>4. status # "done"
    OBVIOUS
  <2> QED
    BY <1>7, <2>1, <2>2, <2>3, <2>4 DEF ChosenOnce
<1> QED
  BY <1>5, <1>6, <1>8 DEF Inv

LEMMA LeftCount ==
  ASSUME Inv
  PROVE  /\ totalCount \in Nat /\ round \in Nat /\ k \in Nat
         /\ Len(weightIndexes) \in Nat /\ Len(weightIndexes) = totalCount - round
         /\ round <= k /\ k <= totalCount
<1>1. totalCount \in Nat
  BY WeightsType DEF Inv, TypeOK
<1>2. Len(luckies) \in Nat /\ Len(weightIndexes) \in Nat
  BY LenProperties DEF Inv, TypeOK
<1>3. Len(luckies) + Len(weightIndexes) = totalCount
  BY DEF Inv, ChosenOnce
<1>4. k \in 0 .. totalCount /\ round <= k
  BY DEF Inv, TypeOK
<1> QED
  BY <1>1, <1>2, <1>3, <1>4 DEF round

LEMMA SizesInBounds ==
  ASSUME Inv, round < k
  PROVE  GetCandidateSize(round, k, totalCount) \subseteq 1 .. Len(weightIndexes)
BY LeftCount, CandidateSize

LEMMA CandidatesType ==
  ASSUME Inv, NEW size \in 1 .. Len(weightIndexes)
  PROVE  /\ Candidates(size) \in Seq(1 .. MaxUint64)
         /\ Len(Candidates(size)) = size /\ DOMAIN Candidates(size) = 1 .. size
         /\ \A i \in 1 .. size :
              /\ weightIndexes[i] \in 1 .. totalCount
              /\ Candidates(size)[i] = weights[weightIndexes[i]]
<1>1. size \in Nat /\ \A i \in 1 .. size : i \in 1 .. Len(weightIndexes)
  BY LeftCount
<1>2. \A i \in 1 .. size : weightIndexes[i] \in 1 .. totalCount
  BY <1>1, ElementOfSeq DEF Inv, TypeOK
<1>3. \A i \in 1 .. totalCount : weights[i] \in 1 .. MaxUint64
  BY WeightsType, ElementOfSeq DEF Inv, TypeOK, totalCount
<1>4. \A i \in 1 .. size : weights[weightIndexes[i]] \in 1 .. MaxUint64
  BY <1>2, <1>3
<1> QED
  BY <1>1, <1>2, <1>4 DEF Candidates

LEMMA ChooseNextInv ==
  ASSUME Inv, status = "running", round < k, NEW i \in 1 .. Len(weightIndexes),
         ChooseNext(i), UNCHANGED <<weights, k>>
  PROVE  Inv'
<1> DEFINE n == totalCount
           w == weightIndexes
           l == luckies
           W == Len(w)
           R == Len(l)
           x == w[i]
<1>1. /\ n \in Nat /\ W \in Nat /\ R \in Nat /\ R + W = n /\ R < k /\ k <= n /\ k \in Nat
      /\ w \in Seq(1 .. n) /\ l \in Seq(1 .. n)
      /\ x \in 1 .. n
  <2>1. w \in Seq(1 .. n) /\ l \in Seq(1 .. n)
    BY DEF Inv, TypeOK
  <2>2. x \in 1 .. n
    BY <2>1, ElementOfSeq
  <2>3. n \in Nat /\ W \in Nat /\ R \in Nat /\ W = n - R /\ R < k /\ k <= n /\ k \in Nat
    BY LeftCount DEF round
  <2> HIDE DEF n, w, l, W, R
  <2>4. R + W = n
    BY <2>3
  <2> QED
    BY <2>1, <2>2, <2>3, <2>4
<1>2. n' = n /\ k' = k /\ status' = status /\ weights' = weights
  BY DEF totalCount, ChooseNext
<1>3. /\ w' \in Seq(1 .. n) /\ Len(w') = W - 1
      /\ \A j \in 1 .. W - 1 : w'[j] = IF j < i THEN w[j] ELSE w[j + 1]
  <2>1. w' = RemoveAt(w, i)
    BY DEF ChooseNext
  <2>2. w \in Seq(1 .. n) /\ i \in 1 .. Len(w)
    BY <1>1
  <2> HIDE DEF n, w
  <2>3. /\ RemoveAt(w, i) \in Seq(1 .. n) /\ Len(RemoveAt(w, i)) = Len(w) - 1
        /\ \A j \in 1 .. Len(w) - 1 : RemoveAt(w, i)[j] = IF j < i THEN w[j] ELSE w[j + 1]
    BY <2>2, RemoveAtProperties
  <2> QED
    BY <2>1, <2>3
<1>4. /\ l' \in Seq(1 .. n) /\ Len(l') = R + 1
      /\ l'[R + 1] = x /\ \A j \in 1 .. R : l'[j] = l[j]
  <2>1. l' = Append(l, x)
    BY DEF ChooseNext
  <2> HIDE DEF n, l, w, x
  <2> QED
    BY <1>1, <2>1
<1>5. DOMAIN l = 1 .. R /\ DOMAIN w = 1 .. W /\ DOMAIN l' = 1 .. R + 1 /\ DOMAIN w' = 1 .. W - 1
  BY <1>1, <1>3, <1>4, LenProperties
<1>6. /\ \A a \in 1 .. R, b \in 1 .. W : l[a] # w[b]
      /\ \A a, b \in 1 .. R : l[a] = l[b] => a = b
      /\ \A a, b \in 1 .. W : a < b => w[a] < w[b]
      /\ \A e \in 1 .. n : (\E a \in 1 .. R : l[a] = e) \/ (\E b \in 1 .. W : w[b] = e)
  <2>1. \A a \in 1 .. R, b \in 1 .. W : l[a] # w[b]
    BY DEF Inv, Disjoint
  <2>2. \A a, b \in 1 .. R : l[a] = l[b] => a = b
    BY <1>5 DEF Inv, ChosenOnce, IsInjective
  <2>3. \A a, b \in 1 .. W : a < b => w[a] < w[b]
    BY DEF Inv, ChosenOnce
  <2>4. ToSet(l) \cup ToSet(w) = 1 .. n
    BY DEF Inv, ChosenOnce
  <2>5. \A e \in 1 .. n : (\E a \in 1 .. R : l[a] = e) \/ (\E b \in 1 .. W : w[b] = e)
    BY <1>5, <2>4 DEF ToSet
  <2> QED
    BY <2>1, <2>2, <2>3, <2>5
<1> HIDE DEF n, w, l, W, R, x
<1>7. \A j \in 1 .. W - 1 : \E b \in 1 .. W : w'[j] = w[b] /\ b # i
  <2> TAKE j \in 1 .. W - 1
  <2>0. i \in 1 .. W
    BY DEF W, w
  <2>1. CASE j < i
    <3>1. j \in 1 .. W /\ j # i /\ w'[j] = w[j]
      BY <1>1, <1>3, <2>0, <2>1
    <3> QED
      BY <3>1
  <2>2. CASE ~(j < i)
    <3>1. j + 1 \in 1 .. W /\ j + 1 # i /\ w'[j] = w[j + 1]
      BY <1>1, <1>3, <2>0, <2>2
    <3> QED
      BY <3>1
  <2> QED
    BY <2>1, <2>2
<1>8. \A a, b \in 1 .. W : w[a] = w[b] => a = b
  <2> TAKE a, b \in 1 .. W
  <2>1. w[a] \in 1 .. n /\ w[b] \in 1 .. n
    BY <1>1, ElementOfSeq DEF W
  <2> QED
    BY <1>1, <1>6, <2>1
<1>9. \A a \in 1 .. R + 1, b \in 1 .. W - 1 : l'[a] # w'[b]
  <2> TAKE a \in 1 .. R + 1, b \in 1 .. W - 1
  <2>1. PICK c \in 1 .. W : w'[b] = w[c] /\ c # i
    BY <1>7
  <2>2. CASE a = R + 1
    BY <1>4, <1>8, <2>1, <2>2 DEF x, W, w
  <2>3. CASE a # R + 1
    <3>1. a \in 1 .. R
      BY <1>1, <2>3
    <3> QED
      BY <1>4, <1>6, <2>1, <3>1
  <2> QED
    BY <2>2, <2>3
<1>10. \A a, b \in 1 .. R + 1 : l'[a] = l'[b] => a = b
  <2>1. i \in 1 .. W
    BY DEF W, w
  <2>2. \A a \in 1 .. R : l[a] # x
    BY <1>6, <2>1 DEF x
  <2>3. \A a \in 1 .. R + 1 : a \in 1 .. R \/ a = R + 1
    BY <1>1
  <2> QED
    BY <1>4, <1>6, <2>2, <2>3
<1>11. \A a, b \in 1 .. W - 1 : a < b => w'[a] < w'[b]
  <2> TAKE a, b \in 1 .. W - 1
  <2>1. SUFFICES ASSUME a < b PROVE w'[a] < w'[b]
    OBVIOUS
  <2>2. /\ a \in 1 .. W /\ a + 1 \in 1 .. W /\ b \in 1 .. W /\ b + 1 \in 1 .. W
        /\ a < b /\ a + 1 < b + 1 /\ a < b + 1 /\ (b < i => a < i)
    BY <1>1, <2>1
  <2>3. w[a] < w[b] /\ w[a + 1] < w[b + 1] /\ w[a] < w[b + 1]
    BY <1>6, <2>2
  <2>4. /\ w'[a] = IF a < i THEN w[a] ELSE w[a + 1]
        /\ w'[b] = IF b < i THEN w[b] ELSE w[b + 1]
    BY <1>3
  <2> QED
    BY <2>2, <2>3, <2>4
<1>12. \A e \in 1 .. n :
         (\E a \in 1 .. R + 1 : l'[a] = e) \/ (\E b \in 1 .. W - 1 : w'[b] = e)
  <2> TAKE e \in 1 .. n
  <2>1. ASSUME NEW a \in 1 .. R, l[a] = e PROVE \E c \in 1 .. R + 1 : l'[c] = e
    <3>1. a \in 1 .. R + 1 /\ l'[a] = e
      BY <1>1, <1>4, <2>1
    <3> QED
      BY <3>1
  <2>2. ASSUME NEW b \in 1 .. W, w[b] = e
        PROVE  (\E a \in 1 .. R + 1 : l'[a] = e) \/ (\E c \in 1 .. W - 1 : w'[c] = e)
    <3>1. i \in 1 .. W
      BY DEF W, w
    <3>2. CASE b = i
      <4>1. R + 1 \in 1 .. R + 1 /\ l'[R + 1] = e
        BY <1>1, <1>4, <2>2, <3>2 DEF x
      <4> QED
        BY <4>1
    <3>3. CASE b < i
      <4>1. b \in 1 .. W - 1 /\ w'[b] = e
        BY <1>1, <1>3, <2>2, <3>1, <3>3
      <4> QED
        BY <4>1
    <3>4. CASE b > i
      <4>1. b - 1 \in 1 .. W - 1 /\ ~(b - 1 < i) /\ (b - 1) + 1 = b
        BY <1>1, <3>1, <3>4
      <4>2. w'[b - 1] = e
        BY <1>3, <2>2, <4>1
      <4> QED
        BY <4>1, <4>2
    <3> QED
      BY <1>1, <3>1, <3>2, <3>3, <3>4
  <2> QED
    BY <1>6, <2>1, <2>2
<1>13. ToSet(l') \cup ToSet(w') = 1 .. n
  <2>1. \A a \in 1 .. R + 1 : l'[a] \in 1 .. n
    BY <1>4, ElementOfSeq
  <2>2. \A b \in 1 .. W - 1 : w'[b] \in 1 .. n
    BY <1>3, ElementOfSeq
  <2> QED
    BY <1>5, <1>12, <2>1, <2>2 DEF ToSet
<1>14. TypeOK'
  <2>1. weights \in WeightSeqs /\ k \in 0 .. n
    BY DEF Inv, TypeOK, n
  <2>2. R + 1 <= k
    BY <1>1
  <2> QED
    BY <1>2, <1>3, <1>4, <2>1, <2>2 DEF TypeOK, round, n, w, l
<1>15. Disjoint'
  BY <1>3, <1>4, <1>9 DEF Disjoint, w, l
<1>16. ChosenOnce'
  <2>1. IsInjective(l')
    BY <1>5, <1>10 DEF IsInjective
  <2>2. Len(l') + Len(w') = n
    BY <1>1, <1>3, <1>4
  <2>3. \A a, b \in 1 .. Len(w') : a < b => w'[a] < w'[b]
    BY <1>3, <1>11
  <2>4. status' # "done"
    BY <1>2
  <2> QED
    BY <1>2, <1>13, <2>1, <2>2, <2>3, <2>4 DEF ChosenOnce, n, w, l
<1> QED
  BY <1>14, <1>15, <1>16 DEF Inv

LEMMA UnchangedInv ==
  ASSUME Inv, UNCHANGED <<weights, k, weightIndexes, luckies>>,
         status' \in {"running", "done", "panic"}, status' = "done" => round = k
  PROVE  Inv'
<1>1. totalCount' = totalCount /\ round' = round
  BY DEF totalCount, round
<1>2. TypeOK' /\ Disjoint'
  BY <1>1 DEF Inv, TypeOK, Disjoint
<1>3. ChosenOnce'
  BY <1>1 DEF Inv, ChosenOnce, round
<1> QED
  BY <1>2, <1>3 DEF Inv

(* What ChooseOne finds is one of the candidates. *)
LEMMA FoundIsCandidate ==
  ASSUME NEW ws, NEW lucky, NEW i \in ChooseOne(ws, lucky)
  PROVE  i \in 1 .. Len(ws)
BY DEF ChooseOne

LEMMA NextInv == Inv /\ [Next]_vars => Inv'
<1> SUFFICES ASSUME Inv, [Next]_vars PROVE Inv'
  OBVIOUS
<1>1. CASE ChooseRound
  <2>1. status = "running" /\ round < k /\ UNCHANGED <<weights, k>>
    BY <1>1 DEF ChooseRound
  <2>2. PICK size \in GetCandidateSize(round, k, totalCount), lucky \in 0 .. MaxUint64 :
          \/ \E i \in ChooseOne(Candidates(size), lucky) : ChooseNext(i)
          \/ status' = "panic" /\ UNCHANGED <<luckies, weightIndexes>>
    BY <1>1 DEF ChooseRound
  <2>3. size \in 1 .. Len(weightIndexes) /\ Len(Candidates(size)) = size
    BY <2>1, SizesInBounds, CandidatesType
  <2>4. CASE \E i \in ChooseOne(Candidates(size), lucky) : ChooseNext(i)
    <3>1. PICK i \in ChooseOne(Candidates(size), lucky) : ChooseNext(i)
      BY <2>4
    <3>2. i \in 1 .. Len(weightIndexes)
      <4>1. i \in 1 .. size
        BY <2>3, FoundIsCandidate
      <4>2. Len(weightIndexes) \in Nat
        BY LeftCount
      <4> QED
        BY <2>3, <4>1, <4>2
    <3> QED
      BY <2>1, <3>1, <3>2, ChooseNextInv
  <2>5. CASE status' = "panic" /\ UNCHANGED <<luckies, weightIndexes>>
    BY <2>1, <2>5, UnchangedInv
  <2> QED
    BY <2>2, <2>4, <2>5
<1>2. CASE Return
  BY <1>2, UnchangedInv DEF Return
<1>3. CASE UNCHANGED vars
  <2>1. status \in {"running", "done", "panic"} /\ (status = "done" => round = k)
    BY DEF Inv, TypeOK, ChosenOnce, round
  <2> QED
    BY <1>3, <2>1, UnchangedInv DEF vars
<1> QED
  BY <1>1, <1>2, <1>3 DEF Next

(* For any powers and any numbers of the generator, ChooseK chooses k       *)
(* different validators and keeps the others in the order of their power.   *)
THEOREM ValidatorsChosenOnce == Spec => []ChosenOnce
<1>1. Inv => ChosenOnce
  BY DEF Inv
<1> QED
  BY <1>1, InitInv, NextInv, PTL DEF Spec

(* For any powers, the candidates GetCandidateSize allows in a round,       *)
(* however math.Pow rounds an integer root, are among the validators left.  *)
THEOREM CandidatesAreLeft == Spec => []SliceInBounds
<1>1. Inv => SliceInBounds
  <2> SUFFICES ASSUME Inv, status = "running", round < k,
                      NEW size \in GetCandidateSize(round, k, totalCount)
               PROVE  size \in 1 .. Len(weightIndexes)
    BY DEF SliceInBounds
  <2> QED
    BY SizesInBounds
<1> QED
  BY <1>1, InitInv, NextInv, PTL DEF Spec

-----------------------------------------------------------------------------
(* Sums of weights. *)

SumTo(ws, i) == Summing!Fold(ws, 0, 1 .. i)

LEMMA SumToStep ==
  ASSUME NEW ws, NEW i \in Nat
  PROVE  SumTo(ws, 0) = 0 /\ SumTo(ws, i + 1) = SumTo(ws, i) + ws[i + 1]
<1>1. SumTo(ws, 0) = 0
  <2>1. 1 .. 0 = {} /\ 0 \in Nat
    OBVIOUS
  <2>2. Summing!IsFiniteSet(1 .. 0) /\ Summing!Chooses(1 .. 0)
    BY <2>1, IntervalChooses
  <2> QED
    BY <2>1, <2>2, Summing!FoldEquation DEF SumTo
<1>2. /\ Summing!IsFiniteSet(1 .. i + 1) /\ Summing!Chooses(1 .. i + 1)
      /\ Largest(1 .. i + 1) = i + 1 /\ (1 .. i + 1) \ {i + 1} = 1 .. i
      /\ 1 .. i + 1 # {}
  <2>1. i + 1 \in Nat /\ i + 1 > 0 /\ (i + 1) - 1 = i /\ i + 1 \in 1 .. i + 1
    OBVIOUS
  <2> QED
    BY <2>1, IntervalChooses
<1>3. Summing!Fold(ws, 0, 1 .. i + 1) = PlusWeight(ws[i + 1], Summing!Fold(ws, 0, 1 .. i))
  BY <1>2, Summing!FoldEquation DEF Summing!Rest
<1> QED
  BY <1>1, <1>3 DEF SumTo, PlusWeight

(* The sum ChooseOne has when it comes to an index. *)
LEMMA PrefixSum ==
  ASSUME NEW S, NEW ws \in Seq(S)
  PROVE  /\ SumOf(ws) = SumTo(ws, Len(ws))
         /\ \A i \in 1 .. Len(ws) : SumOf(SubSeq(ws, 1, i)) = SumTo(ws, i)
<1>1. Len(ws) \in Nat /\ DOMAIN ws = 1 .. Len(ws) /\ \A j \in 1 .. Len(ws) : ws[j] \in S
  BY LenProperties, ElementOfSeq
<1>2. SumOf(ws) = SumTo(ws, Len(ws))
  BY <1>1, SumIsFold DEF SumTo
<1>3. ASSUME NEW i \in 1 .. Len(ws) PROVE SumOf(SubSeq(ws, 1, i)) = SumTo(ws, i)
  <2> DEFINE v == SubSeq(ws, 1, i)
  <2>1. i \in Nat /\ 1 \in Int /\ i \in Int /\ 1 <= i /\ i - 1 + 1 = i
        /\ \A j \in 1 .. i : ws[j] \in S /\ 1 + j - 1 = j
    BY <1>1
  <2>2. /\ v \in Seq(S)
        /\ Len(v) = IF 1 <= i THEN i - 1 + 1 ELSE 0
        /\ \A j \in 1 .. i - 1 + 1 : v[j] = ws[1 + j - 1]
    BY <2>1, SubSeqProperties
  <2> HIDE DEF v
  <2>3. DOMAIN v = 1 .. i /\ \A j \in 1 .. i : v[j] = ws[j]
    BY <2>1, <2>2, LenProperties
  <2>4. Summing!IsFiniteSet(1 .. i) /\ Summing!Chooses(1 .. i) /\ 1 .. i \in SUBSET (1 .. i)
    BY <2>1, IntervalChooses
  <2>5. Summing!Fold(v, 0, 1 .. i) = Summing!Fold(ws, 0, 1 .. i)
    BY <2>3, <2>4, Summing!FoldSame
  <2> QED
    BY <2>3, <2>5, SumIsFold DEF SumTo, v
<1> QED
  BY <1>2, <1>3

(* Sums of positive weights grow. *)
LEMMA SumToGrows ==
  ASSUME NEW n \in Nat, NEW ws, \A j \in 1 .. n : ws[j] \in Nat /\ ws[j] > 0
  PROVE  /\ \A i \in 0 .. n : SumTo(ws, i) \in Nat
         /\ \A i, j \in 0 .. n : i < j => SumTo(ws, i) < SumTo(ws, j)
<1> DEFINE Good(j) == SumTo(ws, j) \in Nat /\ \A i \in 0 .. n : i < j => SumTo(ws, i) < SumTo(ws, j)
           S == {j \in 0 .. n : ~Good(j)}
<1> SUFFICES ASSUME S # {} PROVE FALSE
  OBVIOUS
<1>1. PICK m \in S : \A y \in S : m <= y
  <2>1. \A x \in S : x \in Nat
    OBVIOUS
  <2> HIDE DEF S
  <2> QED
    BY <2>1, LeastMember
<1>2. m \in 0 .. n /\ ~Good(m)
  OBVIOUS
<1>3. m # 0
  <2>1. SumTo(ws, 0) = 0 /\ ~(\E i \in 0 .. n : i < 0)
    BY SumToStep
  <2>2. Good(0)
    BY <2>1
  <2> QED
    BY <1>2, <2>2
<1>4. PICK p \in Nat : m = p + 1 /\ p \in 0 .. n /\ ~(m <= p) /\ m \in 1 .. n
  <2>1. m - 1 \in Nat /\ m = (m - 1) + 1 /\ m - 1 \in 0 .. n /\ ~(m <= m - 1) /\ m \in 1 .. n
    BY <1>2, <1>3
  <2> QED
    BY <2>1
<1>5. Good(p)
  BY <1>1, <1>4
<1>6. SumTo(ws, m) = SumTo(ws, p) + ws[m] /\ ws[m] \in Nat /\ ws[m] > 0
  BY <1>4, SumToStep
<1>7. SumTo(ws, m) \in Nat /\ SumTo(ws, p) < SumTo(ws, m)
  BY <1>5, <1>6
<1>8. ASSUME NEW i \in 0 .. n, i < m PROVE SumTo(ws, i) < SumTo(ws, m)
  <2>1. CASE i = p
    BY <1>7, <2>1
  <2>2. CASE i < p
    <3>1. Good(i)
      BY <1>1, <1>2, <1>8
    <3>2. SumTo(ws, i) < SumTo(ws, p)
      BY <1>5, <2>2
    <3> QED
      BY <1>5, <1>7, <3>1, <3>2
  <2> QED
    BY <1>4, <1>8, <2>1, <2>2
<1> QED
  BY <1>2, <1>7, <1>8

(* ChooseOne finds the index whose part of the sum holds the remainder of   *)
(* the lucky number, and there is one.                                      *)
LEMMA ChooseOneFinds ==
  ASSUME NEW ws \in Seq(1 .. MaxUint64), MaxUint64 \in Nat, Len(ws) > 0, NEW lucky \in Nat
  PROVE  /\ SumOf(ws) \in Nat /\ SumOf(ws) > 0
         /\ \A i \in 1 .. Len(ws) :
              i \in ChooseOne(ws, lucky) <=>
                SumTo(ws, i - 1) <= (lucky % SumOf(ws)) /\ (lucky % SumOf(ws)) < SumTo(ws, i)
         /\ ChooseOne(ws, lucky) # {}
<1> DEFINE n == Len(ws)
           s == SumOf(ws)
           rem == lucky % s
           ends == {i \in 1 .. n : SumTo(ws, i) > rem}
<1>1. n \in Nat /\ n > 0 /\ \A j \in 1 .. n : ws[j] \in Nat /\ ws[j] > 0
  <2>1. n \in Nat /\ \A j \in 1 .. n : ws[j] \in 1 .. MaxUint64
    BY LenProperties, ElementOfSeq
  <2> QED
    BY <2>1
<1>2. s = SumTo(ws, n) /\ \A i \in 1 .. n : SumOf(SubSeq(ws, 1, i)) = SumTo(ws, i)
  BY PrefixSum
<1>3. ChooseOne(ws, lucky) = {i \in ends : \A j \in ends : i <= j}
  BY <1>2 DEF ChooseOne
<1> HIDE DEF n
<1>4. /\ \A i \in 0 .. n : SumTo(ws, i) \in Nat
      /\ \A i, j \in 0 .. n : i < j => SumTo(ws, i) < SumTo(ws, j)
      /\ SumTo(ws, 0) = 0
  BY <1>1, SumToGrows, SumToStep
<1>5. s \in Nat /\ s > 0
  <2>1. 0 \in 0 .. n /\ n \in 0 .. n /\ 0 < n
    BY <1>1
  <2> QED
    BY <1>2, <1>4, <2>1
<1> HIDE DEF s
<1>6. rem \in Nat /\ rem < s
  BY <1>5
<1> HIDE DEF rem
<1>7. n \in ends
  BY <1>1, <1>2, <1>6
<1>8. \E m \in ends : \A j \in ends : m <= j
  <2>1. \A j \in ends : j \in Nat
    BY <1>1
  <2> HIDE DEF ends
  <2> QED
    BY <1>7, <2>1, LeastMember
<1>9. ASSUME NEW i \in 1 .. n
      PROVE  i \in ChooseOne(ws, lucky) <=> SumTo(ws, i - 1) <= rem /\ rem < SumTo(ws, i)
  <2>1. i - 1 \in 0 .. n /\ i \in 0 .. n /\ i \in Nat /\ (i - 1 # 0 => i - 1 \in 1 .. n)
    BY <1>1
  <2>2. SumTo(ws, i - 1) \in Nat /\ SumTo(ws, i) \in Nat
    BY <1>4, <2>1
  <2>3. ASSUME i \in ends, \A j \in ends : i <= j PROVE SumTo(ws, i - 1) <= rem
    <3>1. CASE i - 1 = 0
      BY <1>4, <1>6, <3>1
    <3>2. CASE i - 1 # 0
      <4>1. i - 1 \in 1 .. n /\ ~(i <= i - 1)
        BY <2>1, <3>2
      <4>2. i - 1 \notin ends
        BY <2>3, <4>1
      <4>3. ~(SumTo(ws, i - 1) > rem)
        BY <4>1, <4>2
      <4> QED
        BY <1>6, <2>2, <4>3
    <3> QED
      BY <3>1, <3>2
  <2>4. ASSUME SumTo(ws, i - 1) <= rem, NEW j \in ends PROVE i <= j
    <3> SUFFICES ASSUME ~(i <= j) PROVE FALSE
      OBVIOUS
    <3>1. j \in 1 .. n /\ SumTo(ws, j) > rem /\ j \in 0 .. n /\ SumTo(ws, j) \in Nat
      BY <1>1, <1>4
    <3>2. j = i - 1 \/ j < i - 1
      BY <2>1, <3>1
    <3>3. SumTo(ws, j) <= SumTo(ws, i - 1)
      <4>1. CASE j = i - 1
        BY <2>2, <4>1
      <4>2. CASE j < i - 1
        <5>1. SumTo(ws, j) < SumTo(ws, i - 1)
          BY <1>4, <2>1, <3>1, <4>2
        <5> QED
          BY <2>2, <3>1, <5>1
      <4> QED
        BY <3>2, <4>1, <4>2
    <3> QED
      BY <1>6, <2>2, <2>4, <3>1, <3>3
  <2>5. i \in ends <=> rem < SumTo(ws, i)
    BY <1>6, <2>2
  <2> HIDE DEF ends
  <2> QED
    BY <1>3, <2>3, <2>4, <2>5
<1> QED
  BY <1>3, <1>5, <1>8, <1>9 DEF n, s, rem

(* The candidates are some of the validators: their sum is not larger.      *)
LEMMA CandidatesSum ==
  ASSUME Inv, NEW size \in 1 .. Len(weightIndexes)
  PROVE  SumOf(Candidates(size)) <= SumOf(weights)
<1> DEFINE ws == Candidates(size)
           n == totalCount
           w == weightIndexes
           upTo(i) == IF i = 0 THEN 0 ELSE w[i]
           Less(i) == SumTo(ws, i) <= SumTo(weights, upTo(i))
           S == {i \in 0 .. size : ~Less(i)}
<1>1. /\ ws \in Seq(1 .. MaxUint64) /\ Len(ws) = size
      /\ \A i \in 1 .. size : w[i] \in 1 .. n /\ ws[i] = weights[w[i]]
  BY CandidatesType
<1>2. size \in Nat /\ size > 0 /\ n \in Nat /\ \A i \in 1 .. size : i \in 1 .. Len(w)
  BY LeftCount
<1>3. \A i, j \in 1 .. size : i < j => w[i] < w[j]
  BY <1>2 DEF Inv, ChosenOnce
<1>4. /\ weights \in Seq(1 .. MaxUint64) /\ MaxUint64 \in Nat
      /\ \A i \in 1 .. n : weights[i] \in Nat /\ weights[i] > 0
  BY WeightsType DEF Inv, TypeOK
<1>5. SumOf(ws) = SumTo(ws, size) /\ SumOf(weights) = SumTo(weights, n)
  BY <1>1, <1>4, PrefixSum DEF totalCount
<1> HIDE DEF ws, n, w
<1>6. \A i \in 1 .. size : ws[i] \in Nat /\ ws[i] > 0
  BY <1>1, <1>4
<1>7. \A i \in 0 .. size : SumTo(ws, i) \in Nat
  BY <1>2, <1>6, SumToGrows
<1>8. /\ \A i \in 0 .. n : SumTo(weights, i) \in Nat
      /\ \A i, j \in 0 .. n : i < j => SumTo(weights, i) < SumTo(weights, j)
  BY <1>2, <1>4, SumToGrows
<1>9. \A i, j \in 0 .. n : i <= j => SumTo(weights, i) <= SumTo(weights, j)
  <2> TAKE i, j \in 0 .. n
  <2>1. SumTo(weights, i) \in Nat /\ SumTo(weights, j) \in Nat
    BY <1>8
  <2>2. i < j => SumTo(weights, i) < SumTo(weights, j)
    BY <1>8
  <2>3. i <= j => i = j \/ i < j
    BY <1>2
  <2> QED
    BY <2>1, <2>2, <2>3
<1>10. S = {}
  <2> SUFFICES ASSUME S # {} PROVE FALSE
    OBVIOUS
  <2>1. PICK m \in S : \A y \in S : m <= y
    <3>1. \A x \in S : x \in Nat
      OBVIOUS
    <3> HIDE DEF S
    <3> QED
      BY <3>1, LeastMember
  <2>2. m \in 0 .. size /\ ~Less(m)
    OBVIOUS
  <2>3. m # 0
    <3>1. SumTo(ws, 0) = 0 /\ SumTo(weights, 0) = 0
      BY SumToStep
    <3>2. Less(0)
      BY <3>1
    <3> QED
      BY <2>2, <3>2
  <2>4. PICK p \in Nat : /\ m = p + 1 /\ p \in 0 .. size /\ ~(m <= p) /\ m \in 1 .. size
                         /\ (p # 0 => p \in 1 .. size /\ p < m)
    <3>1. /\ m - 1 \in Nat /\ m = (m - 1) + 1 /\ m - 1 \in 0 .. size /\ ~(m <= m - 1)
          /\ m \in 1 .. size /\ (m - 1 # 0 => m - 1 \in 1 .. size /\ m - 1 < m)
      BY <1>2, <2>2, <2>3
    <3> QED
      BY <3>1
  <2>5. Less(p)
    BY <2>1, <2>4
  <2>6. PICK d \in Nat : w[m] = d + 1 /\ d \in 0 .. n /\ w[m] \in 1 .. n
    <3>1. w[m] \in 1 .. n
      BY <1>1, <2>4
    <3>2. w[m] - 1 \in Nat /\ w[m] = (w[m] - 1) + 1 /\ w[m] - 1 \in 0 .. n
      BY <1>2, <3>1
    <3> QED
      BY <3>1, <3>2
  <2>7. upTo(p) \in 0 .. n /\ upTo(p) <= d
    <3>1. CASE p = 0
      BY <1>2, <2>6, <3>1
    <3>2. CASE p # 0
      <4>1. w[p] < w[m] /\ w[p] \in 1 .. n
        BY <1>1, <1>3, <2>4, <3>2
      <4> QED
        BY <1>2, <2>6, <3>2, <4>1
    <3> QED
      BY <3>1, <3>2
  <2> HIDE DEF S
  <2>8. SumTo(weights, upTo(p)) <= SumTo(weights, d)
    BY <1>9, <2>6, <2>7
  <2>9. /\ SumTo(ws, m) = SumTo(ws, p) + weights[w[m]]
        /\ SumTo(weights, w[m]) = SumTo(weights, d) + weights[w[m]]
    <3>1. SumTo(ws, p + 1) = SumTo(ws, p) + ws[p + 1]
      BY SumToStep
    <3>2. SumTo(weights, d + 1) = SumTo(weights, d) + weights[d + 1]
      BY SumToStep
    <3> QED
      BY <1>1, <2>4, <2>6, <3>1, <3>2
  <2>10. /\ SumTo(ws, p) \in Nat /\ SumTo(weights, upTo(p)) \in Nat
         /\ SumTo(weights, d) \in Nat /\ weights[w[m]] \in Nat
    BY <1>4, <1>7, <1>8, <2>4, <2>6, <2>7
  <2>11. upTo(m) = w[m]
    BY <2>3
  <2>12. SumTo(ws, p) <= SumTo(weights, upTo(p))
    BY <2>5
  <2>13. ~(SumTo(ws, m) <= SumTo(weights, w[m]))
    BY <2>2, <2>11
  <2> HIDE DEF upTo, Less
  <2> QED
    BY <2>8, <2>9, <2>10, <2>12, <2>13
<1>11. SumTo(ws, size) <= SumTo(weights, w[size])
  <2>1. size \in 0 .. size /\ size # 0
    BY <1>2
  <2>2. Less(size)
    BY <1>10, <2>1
  <2> QED
    BY <2>1, <2>2
<1>12. SumTo(weights, w[size]) <= SumTo(weights, n)
  <2>1. w[size] \in 1 .. n /\ w[size] \in 0 .. n /\ n \in 0 .. n /\ w[size] <= n
    BY <1>1, <1>2
  <2> QED
    BY <1>9, <2>1
<1>13. SumTo(ws, size) \in Nat /\ SumTo(weights, w[size]) \in Nat /\ SumTo(weights, n) \in Nat
  <2>1. size \in 0 .. size /\ w[size] \in 0 .. n /\ n \in 0 .. n
    BY <1>1, <1>2
  <2> QED
    BY <1>7, <1>8, <2>1
<1> QED
  BY <1>5, <1>11, <1>12, <1>13 DEF ws

LEMMA PanicStep ==
  ASSUME Inv, PanicsOnlyOnOverflow, [Next]_vars
  PROVE  PanicsOnlyOnOverflow'
<1>1. SumOf(weights)' = SumOf(weights)
  <2>1. weights' = weights
    BY DEF Next, ChooseRound, Return, vars
  <2> QED
    BY <2>1, Zenon
<1> SUFFICES ASSUME status' = "panic" PROVE SumOf(weights) > MaxUint64
  BY <1>1 DEF PanicsOnlyOnOverflow
<1>2. CASE status = "panic"
  BY <1>2 DEF PanicsOnlyOnOverflow
<1>3. CASE status # "panic"
  <2>1. ChooseRound
    BY <1>3 DEF Next, Return, vars
  <2>2. status = "running" /\ round < k
    BY <2>1 DEF ChooseRound
  <2>3. PICK size \in GetCandidateSize(round, k, totalCount), lucky \in 0 .. MaxUint64 :
          (IF SumOf(Candidates(size)) > MaxUint64 THEN {}
           ELSE ChooseOne(Candidates(size), lucky)) = {}
    BY <2>1, <2>2 DEF ChooseRound, ChooseNext
  <2>4. size \in 1 .. Len(weightIndexes)
    BY <2>2, SizesInBounds
  <2> DEFINE ws == Candidates(size)
  <2>5. ws \in Seq(1 .. MaxUint64) /\ Len(ws) = size /\ MaxUint64 \in Nat
    BY <2>4, CandidatesType, WeightsType DEF Inv, TypeOK
  <2>6. Len(ws) > 0 /\ lucky \in Nat
    BY <2>4, <2>5, LeftCount
  <2>7. SumOf(ws) <= SumOf(weights)
    BY <2>4, CandidatesSum
  <2> HIDE DEF ws
  <2>8. SumOf(ws) \in Nat /\ ChooseOne(ws, lucky) # {}
    BY <2>5, <2>6, ChooseOneFinds
  <2>9. SumOf(ws) > MaxUint64
    BY <2>3, <2>8 DEF ws
  <2>10. SumOf(weights) \in Nat
    <3>1. weights \in Seq(1 .. MaxUint64) /\ totalCount \in Nat
      BY WeightsType DEF Inv, TypeOK
    <3>2. Len(weights) > 0
      BY <2>4, LeftCount DEF totalCount
    <3> QED
      BY <2>5, <2>6, <3>1, <3>2, ChooseOneFinds
  <2> QED
    BY <2>5, <2>7, <2>8, <2>9, <2>10
<1> QED
  BY <1>2, <1>3

(* ChooseOne finds a candidate for every number of the generator: the only  *)
(* panic of a choice is that of the sum, and the sum of all the powers then *)
(* is no uint64 either.                                                     *)
THEOREM PanicNeedsOverflow == Spec => []PanicsOnlyOnOverflow
<1>1. Init => PanicsOnlyOnOverflow
  BY DEF Init, PanicsOnlyOnOverflow
<1> QED
  BY <1>1, InitInv, NextInv, PanicStep, PTL DEF Spec

-----------------------------------------------------------------------------
(* How many of the numbers of the generator choose a candidate. *)

(* Of the numbers 0 .. M, each full cycle of s numbers has every remainder  *)
(* once; the last cycle may be a part of one.                               *)
LEMMA RemaindersCount ==
  ASSUME NEW M \in Nat, NEW s \in Nat, s > 0, NEW a \in Nat, NEW b \in Nat, a < b, b <= s
  PROVE  LET N == {n \in 0 .. M : a <= (n % s) /\ (n % s) < b}
             c == (M + 1) \div s
         IN  /\ Cardinality(N) >= (b - a) * c
             /\ Cardinality(N) <= (b - a) * (c + 1)
<1> DEFINE N == {n \in 0 .. M : a <= (n % s) /\ (n % s) < b}
           c == (M + 1) \div s
           P == (0 .. c - 1) \X (a .. b - 1)
           Q == (0 .. c) \X (a .. b - 1)
           f == [p \in P |-> p[1] * s + p[2]]
           g == [n \in N |-> <<n \div s, n % s>>]
<1>1. c \in Nat
  OBVIOUS
<1>2. ASSUME NEW q \in 0 .. c - 1, NEW x \in a .. b - 1
      PROVE  q * s + x \in N /\ (q * s + x) \div s = q /\ (q * s + x) % s = x
  <2>1. q \in Nat /\ x \in Nat /\ x < s /\ a <= x /\ x < b
    OBVIOUS
  <2>2. (q * s + x) \div s = q /\ (q * s + x) % s = x
    BY <2>1
  <2>3. q * s + x \in 0 .. M
    <3>1. c * s <= M + 1
      OBVIOUS
    <3>2. (q + 1) * s <= c * s
      BY <1>1
    <3>3. (q + 1) * s = q * s + s
      BY <2>1
    <3>4. q * s \in Nat /\ c * s \in Nat
      BY <1>1, <2>1
    <3> HIDE DEF c
    <3> QED
      BY <2>1, <3>1, <3>2, <3>3, <3>4
  <2> QED
    BY <2>1, <2>2, <2>3
<1>3. ASSUME NEW n \in N
      PROVE  /\ n \div s \in 0 .. c /\ n % s \in a .. b - 1
             /\ n = (n \div s) * s + (n % s)
  <2>1. n \in Nat /\ n <= M /\ a <= (n % s) /\ (n % s) < b
    OBVIOUS
  <2>2. n \div s \in Nat /\ n % s \in Nat /\ n = (n \div s) * s + (n % s)
    BY <2>1
  <2>3. n \div s <= c
    BY <2>1
  <2> HIDE DEF N, c
  <2> QED
    BY <1>1, <2>1, <2>2, <2>3
<1> HIDE DEF c, N
<1>4. IsFiniteSet(N)
  <2>1. IsFiniteSet(0 .. M) /\ N \in SUBSET (0 .. M)
    BY FS_Interval DEF N
  <2> QED
    BY <2>1, FS_Subset
<1>5. /\ IsFiniteSet(0 .. c - 1) /\ Cardinality(0 .. c - 1) = c
      /\ IsFiniteSet(0 .. c) /\ Cardinality(0 .. c) = c + 1
      /\ IsFiniteSet(a .. b - 1) /\ Cardinality(a .. b - 1) = b - a
  <2>1. /\ IsFiniteSet(0 .. c - 1)
        /\ Cardinality(0 .. c - 1) = IF 0 > c - 1 THEN 0 ELSE (c - 1) - 0 + 1
    BY <1>1, FS_Interval
  <2>2. /\ IsFiniteSet(0 .. c)
        /\ Cardinality(0 .. c) = IF 0 > c THEN 0 ELSE c - 0 + 1
    BY <1>1, FS_Interval
  <2>3. /\ IsFiniteSet(a .. b - 1)
        /\ Cardinality(a .. b - 1) = IF a > b - 1 THEN 0 ELSE (b - 1) - a + 1
    BY FS_Interval
  <2> QED
    BY <1>1, <2>1, <2>2, <2>3
<1>6. /\ IsFiniteSet(P) /\ Cardinality(P) = c * (b - a)
      /\ IsFiniteSet(Q) /\ Cardinality(Q) = (c + 1) * (b - a)
  <2>1. ASSUME NEW X, NEW Y, IsFiniteSet(X), IsFiniteSet(Y)
        PROVE  IsFiniteSet(X \X Y) /\ Cardinality(X \X Y) = Cardinality(X) * Cardinality(Y)
    BY <2>1, FS_Product
  <2>2. IsFiniteSet(P) /\ Cardinality(P) = Cardinality(0 .. c - 1) * Cardinality(a .. b - 1)
    BY <1>5, <2>1
  <2>3. IsFiniteSet(Q) /\ Cardinality(Q) = Cardinality(0 .. c) * Cardinality(a .. b - 1)
    BY <1>5, <2>1
  <2> HIDE DEF P, Q
  <2> QED
    BY <1>5, <2>2, <2>3
<1>7. f \in Injection(P, N)
  <2>1. f \in [P -> N]
    BY <1>2
  <2>2. ASSUME NEW x \in P, NEW y \in P, f[x] = f[y] PROVE x = y
    <3>1. PICK q \in 0 .. c - 1, u \in a .. b - 1 : x = <<q, u>>
      OBVIOUS
    <3>2. PICK r \in 0 .. c - 1, v \in a .. b - 1 : y = <<r, v>>
      OBVIOUS
    <3>3. q * s + u = r * s + v
      BY <2>2, <3>1, <3>2
    <3>4. q = r /\ u = v
      BY <1>2, <3>3
    <3> QED
      BY <3>1, <3>2, <3>4
  <2> HIDE DEF f, P
  <2> QED
    BY <2>1, <2>2 DEF Injection, IsInjective
<1>8. g \in Injection(N, Q)
  <2>1. g \in [N -> Q]
    BY <1>3
  <2>2. ASSUME NEW x \in N, NEW y \in N, g[x] = g[y] PROVE x = y
    <3>1. x \div s = y \div s /\ x % s = y % s
      BY <2>2
    <3>2. x = (x \div s) * s + (x % s) /\ y = (y \div s) * s + (y % s)
      BY <1>3
    <3> QED
      BY ONLY <3>1, <3>2
  <2> HIDE DEF g, Q
  <2> QED
    BY <2>1, <2>2 DEF Injection, IsInjective
<1> HIDE DEF P, Q, f, g
<1>9. Cardinality(P) <= Cardinality(N) /\ Cardinality(N) <= Cardinality(Q)
  BY <1>4, <1>6, <1>7, <1>8, FS_Injection
<1>10. Cardinality(N) \in Nat
  BY <1>4, FS_CardinalityType
<1>11. c * (b - a) = (b - a) * c /\ (c + 1) * (b - a) = (b - a) * (c + 1)
  BY <1>1
<1> QED
  BY <1>6, <1>9, <1>10, <1>11 DEF N, c

LEMMA ShareOfCandidate ==
  ASSUME MaxUint64 \in Nat, NEW ws \in Seq(1 .. MaxUint64), NEW i \in 1 .. Len(ws)
  PROVE  LET share == Cardinality({n \in 0 .. MaxUint64 : i \in ChooseOne(ws, n)})
         IN  /\ share >= ws[i] * ((MaxUint64 + 1) \div SumOf(ws))
             /\ share <= ws[i] * ((MaxUint64 + 1) \div SumOf(ws) + 1)
<1> DEFINE s == SumOf(ws)
           a == SumTo(ws, i - 1)
           b == SumTo(ws, i)
           M == MaxUint64
           len == Len(ws)
<1>1. len \in Nat /\ len > 0 /\ \A j \in 1 .. len : ws[j] \in Nat /\ ws[j] > 0
  <2>1. len \in Nat /\ \A j \in 1 .. len : ws[j] \in 1 .. M
    BY LenProperties, ElementOfSeq
  <2> QED
    BY <2>1
<1>2. \A n \in 0 .. M : i \in ChooseOne(ws, n) <=> a <= (n % s) /\ (n % s) < b
  <2> TAKE n \in 0 .. M
  <2>1. n \in Nat
    OBVIOUS
  <2> QED
    BY <1>1, <2>1, ChooseOneFinds
<1>3. s \in Nat /\ s > 0
  <2>1. 0 \in Nat
    OBVIOUS
  <2> QED
    BY <1>1, <2>1, ChooseOneFinds
<1>4. s = SumTo(ws, len)
  BY PrefixSum
<1>5. i \in 1 .. len
  OBVIOUS
<1> HIDE DEF len
<1>6. i - 1 \in 0 .. len /\ i \in 0 .. len /\ len \in 0 .. len /\ i - 1 < i /\ i - 1 \in Nat
  BY <1>1, <1>5
<1>7. /\ \A j \in 0 .. len : SumTo(ws, j) \in Nat
      /\ \A j, l \in 0 .. len : j < l => SumTo(ws, j) < SumTo(ws, l)
  BY <1>1, SumToGrows
<1>8. a \in Nat /\ b \in Nat /\ a < b
  BY <1>6, <1>7
<1>9. b <= s
  <2>1. CASE i = len
    BY <1>3, <1>4, <2>1
  <2>2. CASE i # len
    <3>1. i < len
      BY <1>1, <1>5, <2>2
    <3>2. b < s
      BY <1>4, <1>6, <1>7, <3>1
    <3> QED
      BY <1>3, <1>8, <3>2
  <2> QED
    BY <2>1, <2>2
<1>10. b - a = ws[i] /\ ws[i] \in Nat
  <2>1. SumTo(ws, (i - 1) + 1) = SumTo(ws, i - 1) + ws[(i - 1) + 1]
    BY <1>6, SumToStep
  <2>2. (i - 1) + 1 = i
    BY <1>6
  <2>3. ws[i] \in Nat
    BY <1>1, <1>5
  <2>4. b = a + ws[i]
    BY <2>1, <2>2
  <2> HIDE DEF a, b
  <2> QED
    BY <1>8, <2>3, <2>4
<1> HIDE DEF a, b, s
<1> DEFINE N == {n \in 0 .. M : a <= (n % s) /\ (n % s) < b}
<1>11. {n \in 0 .. M : i \in ChooseOne(ws, n)} = N
  BY <1>2
<1>12. /\ Cardinality(N) >= (b - a) * ((M + 1) \div s)
       /\ Cardinality(N) <= (b - a) * ((M + 1) \div s + 1)
  BY <1>3, <1>8, <1>9, RemaindersCount
<1> HIDE DEF N
<1> QED
  BY <1>10, <1>11, <1>12 DEF s

(* For any powers and any range of the generator, each candidate of a round *)
(* is chosen by its weight's share of the numbers, up to the rounding of    *)
(* the remainder.                                                           *)
THEOREM SharesProportional == Spec => []ProportionalInRound
<1>1. ASSUME Inv, status = "running", round < k PROVE ProportionalInRound
  <2>1. ASSUME NEW size \in GetCandidateSize(round, k, totalCount), NEW i \in 1 .. size
        PROVE  LET ws    == Candidates(size)
                   share == Cardinality({n \in 0 .. MaxUint64 : i \in ChooseOne(ws, n)})
               IN  /\ share >= ws[i] * ((MaxUint64 + 1) \div SumOf(ws))
                   /\ share <= ws[i] * ((MaxUint64 + 1) \div SumOf(ws) + 1)
    <3>1. size \in 1 .. Len(weightIndexes)
      BY <1>1, SizesInBounds
    <3> DEFINE ws == Candidates(size)
    <3>2. ws \in Seq(1 .. MaxUint64) /\ i \in 1 .. Len(ws) /\ MaxUint64 \in Nat
      BY <1>1, <3>1, CandidatesType, WeightsType DEF Inv, TypeOK
    <3> HIDE DEF ws
    <3>3. LET share == Cardinality({n \in 0 .. MaxUint64 : i \in ChooseOne(ws, n)})
          IN  /\ share >= ws[i] * ((MaxUint64 + 1) \div SumOf(ws))
              /\ share <= ws[i] * ((MaxUint64 + 1) \div SumOf(ws) + 1)
      BY <3>2, ShareOfCandidate
    <3> QED
      BY <3>3 DEF ws
  <2> QED
    BY <2>1 DEF ProportionalInRound
<1>2. Inv => ProportionalInRound
  BY <1>1 DEF ProportionalInRound
<1> QED
  BY <1>2, InitInv, NextInv, PTL DEF Spec
=============================================================================
