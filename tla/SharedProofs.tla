-------------------------- MODULE SharedProofs --------------------------
(***************************************************************************)
(* The lemmas that several components' proofs rest on.                      *)
(*                                                                          *)
(* First, facts about SumTo: how it unfolds, what it depends on, and how it *)
(* moves when one entry changes.  The library's induction theorems take an  *)
(* operator as a parameter; BoundedInduction states induction over 0..n for *)
(* a set instead, and rests on the well-foundedness of finite sets.         *)
(*                                                                          *)
(* Next, what sorting and filtering keep of a list: every element that is   *)
(* to be there is, once, and in order.                                      *)
(*                                                                          *)
(* Then, what the operators of RewardStream preserve: types, the order of   *)
(* the times and accumulators, and the debt of a stream, which is what it   *)
(* has still to release and what the accounts it streams to have earned.    *)
(* Rounding is always in favour of the contract; the debt is counted in     *)
(* units of 1/Precision, before the roundings.  The constants of            *)
(* RewardStream occur in no lemma of the first two parts.                   *)
(***************************************************************************)
EXTENDS RewardStream, Lists, FiniteSets, FiniteSetTheorems, SequenceTheorems, WellFoundedInduction, TLAPS

----------------------------------------------------------------------------------
(* Arithmetic with products, which the provers do best one fact at a time *)

\* Products of naturals are naturals.
LEMMA MulNat ==
  ASSUME NEW a \in Nat, NEW b \in Nat
  PROVE  a * b \in Nat
OBVIOUS

\* Multiplying keeps the order.
LEMMA MulMonotone ==
  ASSUME NEW a \in Int, NEW b \in Int, NEW c \in Nat, a <= b
  PROVE  c * a <= c * b
OBVIOUS

\* Products distribute over sums and differences.
LEMMA Distributes ==
  ASSUME NEW a \in Int, NEW b \in Int, NEW c \in Int
  PROVE  c * (a + b) = c * a + c * b /\ c * (a - b) = c * a - c * b /\ c * a \in Int /\ c * b \in Int
OBVIOUS

\* Division rounds down.
LEMMA DivRoundsDown ==
  ASSUME NEW x \in Nat, NEW d \in Nat, d > 0
  PROVE  x \div d \in Nat /\ d * (x \div d) <= x
OBVIOUS

\* A factor cancels.
LEMMA MulCancels ==
  ASSUME NEW a \in Int, NEW b \in Int, NEW c \in Nat, c > 0, c * a <= c * b
  PROVE  a <= b
<1> SUFFICES ASSUME b + 1 <= a PROVE FALSE
  OBVIOUS
<1>1. c * (b + 1) <= c * a
  BY MulMonotone
<1>2. c * (b + 1) = c * b + c /\ c * b \in Int /\ c * a \in Int
  OBVIOUS
<1> QED BY <1>1, <1>2

\* Division is monotone in the dividend,
LEMMA DivMonotone ==
  ASSUME NEW x \in Nat, NEW y \in Nat, NEW d \in Nat, d > 0, x <= y
  PROVE  x \div d <= y \div d
<1> DEFINE p == x \div d
           q == y \div d
<1>1. p \in Nat /\ d * p <= x
  BY DivRoundsDown
<1>2. q \in Nat /\ y < d * q + d
  OBVIOUS
<1> HIDE DEF p, q
<1>3. d * p < d * (q + 1)
  <2>1. d * (q + 1) = d * q + d /\ d * p \in Int /\ d * q \in Int
    BY <1>1, <1>2
  <2> QED BY <2>1, <1>1, <1>2
<1>4. ~(q + 1 <= p)
  <2>1. ASSUME q + 1 <= p PROVE FALSE
    <3>1. d * (q + 1) <= d * p /\ d * (q + 1) \in Int /\ d * p \in Int
      BY <2>1, <1>1, <1>2, MulMonotone
    <3> QED BY <3>1, <1>3
  <2> QED BY <2>1
<1>5. p <= q
  BY <1>1, <1>2, <1>4
<1> QED BY <1>5 DEF p, q

\* and antitone in the divisor.
LEMMA DivAntitone ==
  ASSUME NEW x \in Nat, NEW d \in Nat, NEW e \in Nat, d > 0, d <= e
  PROVE  x \div e <= x \div d
<1> DEFINE p == x \div e
           q == x \div d
<1>1. p \in Nat /\ e * p <= x
  BY DivRoundsDown
<1>2. q \in Nat /\ x < d * q + d
  OBVIOUS
<1> HIDE DEF p, q
<1>3. d * p <= e * p /\ d * p \in Int /\ e * p \in Int
  <2>1. p * d <= p * e
    BY <1>1, MulMonotone
  <2> QED BY <2>1, <1>1
<1>4. d * p < d * (q + 1)
  <2>1. d * (q + 1) = d * q + d /\ d * q \in Int
    BY <1>2
  <2> QED BY <2>1, <1>1, <1>2, <1>3
<1>5. ~(q + 1 <= p)
  <2>1. ASSUME q + 1 <= p PROVE FALSE
    <3>1. d * (q + 1) <= d * p /\ d * (q + 1) \in Int /\ d * p \in Int
      BY <2>1, <1>1, <1>2, MulMonotone
    <3> QED BY <3>1, <1>4
  <2> QED BY <2>1
<1>6. p <= q
  BY <1>1, <1>2, <1>5
<1> QED BY <1>6 DEF p, q

----------------------------------------------------------------------------------
(* Sums *)

\* A nonempty set of numbers up to n has a least element.
LEMMA LeastElement ==
  ASSUME NEW n \in Nat, NEW T \in SUBSET (0..n), T # {}
  PROVE  \E m \in T : \A k \in T : m <= k
<1> DEFINE R == StrictSubsetOrdering(0..n)
           Segs == {0..i : i \in T}
<1>1. IsFiniteSet(0..n)
  BY FS_Interval
<1>2. IsWellFoundedOn(R, SUBSET (0..n))
  BY <1>1, FS_StrictSubsetOrderingWellFounded, FS_FiniteSubsetsOfFinite
<1>3. Segs \subseteq SUBSET (0..n) /\ Segs # {}
  <2>1. \A i \in T : 0..i \in SUBSET (0..n)
    OBVIOUS
  <2>2. PICK i \in T : TRUE
    OBVIOUS
  <2> QED BY <2>1, <2>2, Zenon
<1> HIDE DEF R, Segs
<1>4. PICK s \in Segs : \A t \in Segs : <<t, s>> \notin R
  BY <1>2, <1>3, WFMin
<1>5. PICK m \in T : s = 0..m
  BY <1>4 DEF Segs
<1>6. ASSUME NEW k \in T, k < m PROVE FALSE
  <2>1. 0..k \in Segs
    BY DEF Segs
  <2>2. 0..k \subseteq 0..m /\ 0..k # 0..m
    BY <1>6
  <2>3. <<0..k, s>> \in R
    BY <2>2, <1>5, <1>3, <2>1 DEF R, StrictSubsetOrdering
  <2> QED BY <2>1, <2>3, <1>4
<1> QED BY <1>5, <1>6

\* A nonempty set of numbers up to n has a greatest element.
LEMMA GreatestElement ==
  ASSUME NEW n \in Nat, NEW T \in SUBSET (0..n), T # {}
  PROVE  \E m \in T : \A k \in T : k <= m
<1> DEFINE U == {n - k : k \in T}
<1>1. U \in SUBSET (0..n) /\ U # {}
  <2>1. \A k \in T : n - k \in 0..n
    OBVIOUS
  <2>2. PICK k \in T : TRUE
    OBVIOUS
  <2> QED BY <2>1, <2>2, Zenon
<1> HIDE DEF U
<1>2. PICK u \in U : \A v \in U : u <= v
  BY <1>1, LeastElement
<1>3. PICK m \in T : u = n - m
  BY <1>2 DEF U
<1>4. ASSUME NEW k \in T PROVE k <= m
  <2>1. n - k \in U
    BY DEF U
  <2> QED BY <2>1, <1>2, <1>3
<1> QED BY <1>4

\* Induction from 0 up to n, for a set in place of a predicate.
LEMMA BoundedInduction ==
  ASSUME NEW n \in Nat, NEW S, 0 \in S,
         \A k \in 0..n : k \in S /\ k < n => k + 1 \in S
  PROVE  0..n \subseteq S
<1> SUFFICES ASSUME (0..n) \ S # {} PROVE FALSE
  OBVIOUS
<1>1. PICK m \in (0..n) \ S : \A k \in (0..n) \ S : m <= k
  <2>1. (0..n) \ S \in SUBSET (0..n)
    OBVIOUS
  <2> QED BY <2>1, LeastElement
<1>2. m # 0
  BY <1>1
<1>3. m - 1 \in 0..n /\ m - 1 \in S /\ m - 1 < n
  BY <1>1, <1>2
<1> QED BY <1>1, <1>3

\* s is the function by which SumTo(f, n) is defined.
IsAccumulator(s, f, n) == s = [i \in 0..n |-> IF i = 0 THEN 0 ELSE s[i - 1] + f[i]]

\* A function of running sums exists.
LEMMA AccumulatorExists ==
  ASSUME NEW n \in Nat, NEW f, \A i \in 1..n : f[i] \in Int
  PROVE  \E s \in [0..n -> Int] : IsAccumulator(s, f, n)
<1> DEFINE Sums(k) == {s \in [0..k -> Int] : s[0] = 0 /\ \A i \in 1..k : s[i] = s[i - 1] + f[i]}
           S == {k \in 0..n : Sums(k) # {}}
<1>1. 0 \in S
  <2> DEFINE s == [i \in 0..0 |-> 0]
  <2>1. s \in Sums(0)
    OBVIOUS
  <2> QED BY <2>1
<1>2. ASSUME NEW k \in 0..n, k \in S, k < n PROVE k + 1 \in S
  <2>1. PICK s \in [0..k -> Int] : s[0] = 0 /\ \A i \in 1..k : s[i] = s[i - 1] + f[i]
    BY <1>2
  <2> DEFINE r == [i \in 0..(k + 1) |-> IF i <= k THEN s[i] ELSE s[k] + f[k + 1]]
  <2>2. r \in [0..(k + 1) -> Int]
    BY <2>1, <1>2
  <2>3. r[0] = 0
    BY <2>1, <1>2
  <2>4. ASSUME NEW i \in 1..(k + 1) PROVE r[i] = r[i - 1] + f[i]
    <3>1. CASE i <= k
      <4>1. i \in 1..k /\ i \in 0..(k + 1) /\ i - 1 \in 0..(k + 1) /\ i - 1 <= k
        BY <3>1, <1>2
      <4>2. r[i] = s[i] /\ r[i - 1] = s[i - 1]
        BY <4>1, <3>1
      <4> QED BY <4>1, <4>2, <2>1
    <3>2. CASE i = k + 1
      <4>1. i \in 0..(k + 1) /\ i - 1 \in 0..(k + 1) /\ i - 1 = k /\ ~(i <= k)
        BY <3>2, <1>2
      <4>2. r[i] = s[k] + f[k + 1] /\ r[i - 1] = s[k]
        BY <4>1
      <4> QED BY <4>2, <3>2
    <3> QED BY <3>1, <3>2, <1>2
  <2>5. r \in Sums(k + 1)
    BY <2>2, <2>3, <2>4
  <2>6. Sums(k + 1) # {}
    <3> HIDE DEF Sums, r
    <3> QED BY <2>5, Zenon
  <2>7. k + 1 \in 0..n
    BY <1>2
  <2> QED BY <2>6, <2>7, Zenon
<1>3. n \in S
  <2> HIDE DEF S
  <2>1. 0..n \subseteq S
    BY <1>1, <1>2, BoundedInduction
  <2> QED BY <2>1
<1>4. PICK s \in [0..n -> Int] : s[0] = 0 /\ \A i \in 1..n : s[i] = s[i - 1] + f[i]
  BY <1>3
<1>5. \A i \in 0..n : s[i] = IF i = 0 THEN 0 ELSE s[i - 1] + f[i]
  BY <1>4
<1>6. s = [i \in 0..n |-> IF i = 0 THEN 0 ELSE s[i - 1] + f[i]]
  BY <1>5
<1> QED BY <1>6 DEF IsAccumulator

\* The running sums of f are determined by f.
LEMMA AccumulatorUnique ==
  ASSUME NEW n \in Nat, NEW f, NEW s, NEW r, IsAccumulator(s, f, n), IsAccumulator(r, f, n)
  PROVE  s = r
<1> DEFINE S == {i \in 0..n : s[i] = r[i]}
<1>1. 0 \in S
  BY DEF IsAccumulator
<1>2. ASSUME NEW k \in 0..n, k \in S, k < n PROVE k + 1 \in S
  <2>1. k + 1 \in 0..n /\ k + 1 # 0 /\ (k + 1) - 1 = k
    BY <1>2
  <2>2. s[k + 1] = s[k] + f[k + 1] /\ r[k + 1] = r[k] + f[k + 1]
    BY <2>1 DEF IsAccumulator
  <2> QED BY <2>1, <2>2, <1>2
<1>3. 0..n \subseteq S
  <2> HIDE DEF S
  <2> QED BY <1>1, <1>2, BoundedInduction
<1> QED BY <1>3 DEF IsAccumulator

\* SumTo unfolds: the sum of no entries, of one entry more, and of integers.
LEMMA SumToUnfold ==
  ASSUME NEW n \in Nat, NEW f, \A i \in 1..n : f[i] \in Int
  PROVE  /\ SumTo(f, 0) = 0
         /\ n > 0 => SumTo(f, n) = SumTo(f, n - 1) + f[n]
         /\ SumTo(f, n) \in Int
<1>1. ASSUME NEW m \in 0..n
      PROVE  \E s \in [0..m -> Int] : IsAccumulator(s, f, m) /\ SumTo(f, m) = s[m]
  <2>1. PICK r \in [0..m -> Int] : IsAccumulator(r, f, m)
    <3>1. m \in Nat /\ \A i \in 1..m : f[i] \in Int
      OBVIOUS
    <3> QED BY <3>1, AccumulatorExists
  <2> DEFINE s == CHOOSE s : IsAccumulator(s, f, m)
  <2>2. IsAccumulator(s, f, m)
    BY <2>1
  <2>3. SumTo(f, m) = s[m]
    BY DEF SumTo, IsAccumulator
  <2> HIDE DEF s
  <2>4. s = r
    BY <2>1, <2>2, AccumulatorUnique
  <2> QED BY <2>1, <2>3, <2>4
<1>2. SumTo(f, 0) = 0
  <2>1. 0 \in 0..n
    OBVIOUS
  <2>2. PICK s \in [0..0 -> Int] : IsAccumulator(s, f, 0) /\ SumTo(f, 0) = s[0]
    BY <1>1, <2>1, Zenon
  <2> QED BY <2>2 DEF IsAccumulator
<1>3. SumTo(f, n) \in Int
  BY <1>1
<1>4. ASSUME n > 0 PROVE SumTo(f, n) = SumTo(f, n - 1) + f[n]
  <2>1. PICK s \in [0..n -> Int] : IsAccumulator(s, f, n) /\ SumTo(f, n) = s[n]
    BY <1>1
  <2>0. n - 1 \in 0..n
    BY <1>4
  <2>2. PICK r \in [0..(n - 1) -> Int] : IsAccumulator(r, f, n - 1) /\ SumTo(f, n - 1) = r[n - 1]
    BY <1>1, <2>0, Zenon
  <2> DEFINE q == [i \in 0..(n - 1) |-> s[i]]
  <2>3. IsAccumulator(q, f, n - 1)
    <3>1. ASSUME NEW i \in 0..(n - 1) PROVE q[i] = IF i = 0 THEN 0 ELSE q[i - 1] + f[i]
      BY <2>1, <1>4 DEF IsAccumulator
    <3> QED BY <3>1 DEF IsAccumulator
  <2>4. q = r
    BY <2>2, <2>3, <1>4, AccumulatorUnique
  <2>5. q[n - 1] = s[n - 1]
    BY <1>4
  <2>6. s[n] = s[n - 1] + f[n]
    BY <2>1, <1>4 DEF IsAccumulator
  <2> QED BY <2>1, <2>2, <2>4, <2>5, <2>6
<1> QED BY <1>2, <1>3, <1>4

\* The unfolding, in the form that the inductions below step with.
LEMMA SumToStep ==
  ASSUME NEW n \in Nat, NEW f, \A i \in 1..n : f[i] \in Int, NEW k \in 0..n, k < n
  PROVE  /\ SumTo(f, k + 1) = SumTo(f, k) + f[k + 1]
         /\ SumTo(f, k) \in Int
         /\ f[k + 1] \in Int
<1>1. k + 1 \in Nat /\ (k + 1) - 1 = k /\ k + 1 > 0 /\ k \in Nat
  OBVIOUS
<1>2. \A i \in 1..(k + 1) : f[i] \in Int
  OBVIOUS
<1>3. SumTo(f, k + 1) = SumTo(f, (k + 1) - 1) + f[k + 1]
  BY <1>1, <1>2, SumToUnfold
<1>4. SumTo(f, k) \in Int
  BY <1>1, <1>2, SumToUnfold
<1> QED BY <1>1, <1>2, <1>3, <1>4

\* The sum of no entries.
LEMMA SumToZero ==
  ASSUME NEW f
  PROVE  SumTo(f, 0) = 0
<1>1. 0 \in Nat /\ \A i \in 1..0 : f[i] \in Int
  OBVIOUS
<1> QED BY <1>1, SumToUnfold

\* A sum depends on the entries it adds up and on nothing else.
LEMMA SumToCongruence ==
  ASSUME NEW n \in Nat, NEW f, NEW g,
         \A i \in 1..n : f[i] \in Int /\ g[i] = f[i]
  PROVE  SumTo(g, n) = SumTo(f, n)
<1> DEFINE S == {k \in 0..n : SumTo(g, k) = SumTo(f, k)}
<1>1. 0 \in S
  BY SumToZero
<1>2. ASSUME NEW k \in 0..n, k \in S, k < n PROVE k + 1 \in S
  <2>1. SumTo(f, k + 1) = SumTo(f, k) + f[k + 1]
    BY <1>2, SumToStep
  <2>2. SumTo(g, k + 1) = SumTo(g, k) + g[k + 1]
    BY <1>2, SumToStep
  <2>3. k + 1 \in 1..n
    BY <1>2
  <2> QED BY <2>1, <2>2, <2>3, <1>2
<1>3. 0..n \subseteq S
  <2> HIDE DEF S
  <2> QED BY <1>1, <1>2, BoundedInduction
<1> QED BY <1>3

\* A sum of natural numbers is one, and a longer sum is no smaller.
LEMMA SumToNat ==
  ASSUME NEW n \in Nat, NEW f, \A i \in 1..n : f[i] \in Nat
  PROVE  \A k \in 0..n : SumTo(f, k) \in Nat /\ SumTo(f, k) <= SumTo(f, n)
<1> DEFINE S == {k \in 0..n : SumTo(f, k) \in Nat /\ \A j \in 0..k : SumTo(f, j) <= SumTo(f, k)}
<1>1. 0 \in S
  BY SumToZero
<1>2. ASSUME NEW k \in 0..n, k \in S, k < n PROVE k + 1 \in S
  <2>1. SumTo(f, k + 1) = SumTo(f, k) + f[k + 1]
    BY <1>2, SumToStep
  <2>2. k + 1 \in 1..n /\ f[k + 1] \in Nat /\ k + 1 \in 0..n
    BY <1>2
  <2>3. SumTo(f, k + 1) \in Nat /\ SumTo(f, k) <= SumTo(f, k + 1)
    BY <2>1, <2>2, <1>2
  <2>4. ASSUME NEW j \in 0..(k + 1) PROVE SumTo(f, j) <= SumTo(f, k + 1)
    <3>1. CASE j = k + 1
      BY <3>1, <2>3
    <3>2. CASE j # k + 1
      <4>1. j \in 0..k
        BY <3>2, <1>2
      <4>2. SumTo(f, j) <= SumTo(f, k) /\ SumTo(f, k) \in Nat
        BY <4>1, <1>2
      <4>3. SumTo(f, j) \in Int
        BY <4>1, <1>2, SumToUnfold
      <4> QED BY <4>2, <4>3, <2>3
    <3> QED BY <3>1, <3>2
  <2> QED BY <2>2, <2>3, <2>4
<1>3. 0..n \subseteq S
  <2> HIDE DEF S
  <2> QED BY <1>1, <1>2, BoundedInduction
<1>4. n \in 0..n
  OBVIOUS
<1> QED BY <1>3, <1>4

\* Changing one entry moves the sum by the change.
LEMMA SumToUpdate ==
  ASSUME NEW n \in Nat, NEW f, NEW g, NEW j \in 1..n,
         \A i \in 1..n : f[i] \in Int /\ g[i] \in Int,
         \A i \in 1..n : i # j => g[i] = f[i]
  PROVE  SumTo(g, n) = SumTo(f, n) + g[j] - f[j]
<1> DEFINE S == {k \in 0..n : SumTo(g, k) = SumTo(f, k) + (IF j <= k THEN g[j] - f[j] ELSE 0)}
<1>1. 0 \in S
  BY SumToZero
<1>2. ASSUME NEW k \in 0..n, k \in S, k < n PROVE k + 1 \in S
  <2>1. SumTo(f, k + 1) = SumTo(f, k) + f[k + 1] /\ SumTo(f, k) \in Int
    BY <1>2, SumToStep
  <2>2. SumTo(g, k + 1) = SumTo(g, k) + g[k + 1]
    BY <1>2, SumToStep
  <2>3. k + 1 \in 1..n /\ k + 1 \in 0..n
    BY <1>2
  <2>4. CASE j = k + 1
    <3>1. SumTo(g, k) = SumTo(f, k)
      BY <1>2, <2>1, <2>4
    <3>2. SumTo(g, k + 1) = SumTo(f, k + 1) + (g[j] - f[j])
      BY <3>1, <2>1, <2>2, <2>4
    <3> QED BY <3>2, <2>3, <2>4
  <2>5. CASE j # k + 1
    <3>1. g[k + 1] = f[k + 1] /\ (j <= k <=> j <= k + 1)
      BY <2>5, <2>3
    <3>2. SumTo(g, k) = SumTo(f, k) + (IF j <= k THEN g[j] - f[j] ELSE 0)
      BY <1>2
    <3>3. SumTo(g, k + 1) = SumTo(f, k + 1) + (IF j <= k + 1 THEN g[j] - f[j] ELSE 0)
      BY <3>1, <3>2, <2>1, <2>2, <2>3
    <3> QED BY <3>3, <2>3
  <2> QED BY <2>4, <2>5
<1>3. 0..n \subseteq S
  <2> HIDE DEF S
  <2> QED BY <1>1, <1>2, BoundedInduction
<1>4. n \in S
  BY <1>3
<1>5. SumTo(f, n) \in Int
  BY SumToUnfold
<1> QED BY <1>4, <1>5

\* No entry exceeds a sum of natural numbers.
LEMMA SumToMember ==
  ASSUME NEW n \in Nat, NEW f, \A i \in 1..n : f[i] \in Nat, NEW j \in 1..n
  PROVE  f[j] <= SumTo(f, n)
<1>1. j \in 0..n /\ j - 1 \in 0..n /\ j - 1 < n /\ (j - 1) + 1 = j
  OBVIOUS
<1>2. SumTo(f, (j - 1) + 1) = SumTo(f, j - 1) + f[(j - 1) + 1]
  BY <1>1, SumToStep
<1>3. SumTo(f, j - 1) \in Nat /\ SumTo(f, j) \in Nat /\ SumTo(f, j) <= SumTo(f, n)
  BY <1>1, SumToNat
<1>4. SumTo(f, n) \in Nat
  BY SumToNat
<1> QED BY <1>1, <1>2, <1>3, <1>4

\* A sum of zeros.
LEMMA SumOfZeros ==
  ASSUME NEW n \in Nat
  PROVE  SumTo([i \in 1..n |-> 0], n) = 0
<1> DEFINE f == [i \in 1..n |-> 0]
           S == {k \in 0..n : SumTo(f, k) = 0}
<1>1. 0 \in S
  BY SumToZero
<1>2. ASSUME NEW k \in 0..n, k \in S, k < n PROVE k + 1 \in S
  <2>1. \A i \in 1..n : f[i] \in Int
    OBVIOUS
  <2>2. f[k + 1] = 0
    BY <1>2
  <2> HIDE DEF f
  <2>3. SumTo(f, k + 1) = SumTo(f, k) + f[k + 1]
    BY <2>1, <1>2, SumToStep
  <2> QED BY <2>2, <2>3, <1>2
<1> HIDE DEF S
<1>3. 0..n \subseteq S
  BY <1>1, <1>2, BoundedInduction
<1> QED BY <1>3 DEF S

\* Larger entries make a larger sum.
LEMMA SumToMonotone ==
  ASSUME NEW n \in Nat, NEW f, NEW g,
         \A i \in 1..n : f[i] \in Int /\ g[i] \in Int /\ f[i] <= g[i]
  PROVE  SumTo(f, n) <= SumTo(g, n)
<1> DEFINE S == {k \in 0..n : SumTo(f, k) <= SumTo(g, k)}
<1>1. 0 \in S
  BY SumToZero
<1>2. ASSUME NEW k \in 0..n, k \in S, k < n PROVE k + 1 \in S
  <2>1. SumTo(f, k + 1) = SumTo(f, k) + f[k + 1] /\ SumTo(f, k) \in Int
    BY <1>2, SumToStep
  <2>2. SumTo(g, k + 1) = SumTo(g, k) + g[k + 1] /\ SumTo(g, k) \in Int
    BY <1>2, SumToStep
  <2>3. k + 1 \in 1..n /\ k + 1 \in 0..n
    BY <1>2
  <2>4. f[k + 1] \in Int /\ g[k + 1] \in Int /\ f[k + 1] <= g[k + 1]
    BY <2>3
  <2> QED BY <2>1, <2>2, <2>3, <2>4, <1>2
<1>3. 0..n \subseteq S
  <2> HIDE DEF S
  <2> QED BY <1>1, <1>2, BoundedInduction
<1> QED BY <1>3

\* Entries that grow by the multiple d of those of b make the sum grow by d times
\* the sum of b.
LEMMA SumToLinear ==
  ASSUME NEW n \in Nat, NEW f, NEW g, NEW b, NEW d \in Int,
         \A i \in 1..n : f[i] \in Int /\ b[i] \in Int /\ g[i] = f[i] + d * b[i]
  PROVE  SumTo(g, n) = SumTo(f, n) + d * SumTo(b, n)
<1> DEFINE S == {k \in 0..n : SumTo(g, k) = SumTo(f, k) + d * SumTo(b, k)}
<1>0. \A i \in 1..n : g[i] \in Int
  OBVIOUS
<1>1. 0 \in S
  BY SumToZero
<1>2. ASSUME NEW k \in 0..n, k \in S, k < n PROVE k + 1 \in S
  <2>1. SumTo(f, k + 1) = SumTo(f, k) + f[k + 1] /\ SumTo(f, k) \in Int
    BY <1>2, SumToStep
  <2>2. SumTo(g, k + 1) = SumTo(g, k) + g[k + 1]
    BY <1>0, <1>2, SumToStep
  <2>3. SumTo(b, k + 1) = SumTo(b, k) + b[k + 1] /\ SumTo(b, k) \in Int
    BY <1>2, SumToStep
  <2>4. k + 1 \in 1..n /\ k + 1 \in 0..n
    BY <1>2
  <2>5. g[k + 1] = f[k + 1] + d * b[k + 1] /\ f[k + 1] \in Int /\ b[k + 1] \in Int
    BY <2>4
  <2>6. d * SumTo(b, k + 1) = d * SumTo(b, k) + d * b[k + 1]
    BY <2>3, <2>5
  <2>7. SumTo(g, k) = SumTo(f, k) + d * SumTo(b, k)
    BY <1>2
  <2>8. d * SumTo(b, k) \in Int /\ d * b[k + 1] \in Int
    BY <2>3, <2>5
  <2> QED BY <2>1, <2>2, <2>4, <2>5, <2>6, <2>7, <2>8
<1>3. 0..n \subseteq S
  <2> HIDE DEF S
  <2> QED BY <1>1, <1>2, BoundedInduction
<1> QED BY <1>3

\* A common factor of the entries is one of the sum.
LEMMA SumToScale ==
  ASSUME NEW n \in Nat, NEW g, NEW b, NEW d \in Int,
         \A i \in 1..n : b[i] \in Int /\ g[i] = d * b[i]
  PROVE  SumTo(g, n) = d * SumTo(b, n)
<1> DEFINE f == [i \in 1..n |-> 0]
<1>1. \A i \in 1..n : f[i] \in Int /\ b[i] \in Int /\ g[i] = f[i] + d * b[i]
  <2>1. ASSUME NEW i \in 1..n PROVE d * b[i] \in Int /\ f[i] = 0 /\ g[i] = d * b[i] /\ b[i] \in Int
    OBVIOUS
  <2> QED BY <2>1
<1>2. SumTo(f, n) = 0
  BY SumOfZeros
<1>3. SumTo(b, n) \in Int
  BY SumToUnfold
<1> HIDE DEF f
<1>4. SumTo(g, n) = SumTo(f, n) + d * SumTo(b, n)
  BY <1>1, SumToLinear
<1>5. d * SumTo(b, n) \in Int
  BY <1>3
<1> QED BY <1>2, <1>4, <1>5

\* Sums over the same stretch of equal entries are equal.
LEMMA SumBetweenCongruence ==
  ASSUME NEW n \in Nat, NEW f, NEW g, \A i \in 1..n : f[i] \in Int /\ g[i] \in Int,
         NEW m \in 0..n, \A i \in (m + 1)..n : f[i] = g[i]
  PROVE  SumBetween(f, m, n) = SumBetween(g, m, n)
<1> DEFINE S == {k \in 0..n : k >= m => SumTo(f, k) - SumTo(f, m) = SumTo(g, k) - SumTo(g, m)}
<1>1. SumTo(f, m) \in Int /\ SumTo(g, m) \in Int
  <2>1. m \in Nat /\ \A i \in 1..m : f[i] \in Int /\ g[i] \in Int
    OBVIOUS
  <2> QED BY <2>1, SumToUnfold
<1>2. 0 \in S
  BY <1>1
<1>3. ASSUME NEW k \in 0..n, k \in S, k < n PROVE k + 1 \in S
  <2>1. /\ SumTo(f, k + 1) = SumTo(f, k) + f[k + 1] /\ SumTo(f, k) \in Int /\ f[k + 1] \in Int
        /\ SumTo(g, k + 1) = SumTo(g, k) + g[k + 1] /\ SumTo(g, k) \in Int /\ g[k + 1] \in Int
    BY <1>3, SumToStep
  <2>2. CASE k >= m
    <3>1. f[k + 1] = g[k + 1]
      BY <2>2, <1>3
    <3> QED BY <2>1, <2>2, <3>1, <1>1, <1>3
  <2>3. CASE k < m
    <3>1. k + 1 < m \/ k + 1 = m
      BY <2>3
    <3> QED BY <3>1, <1>1, <1>3
  <2> QED BY <2>2, <2>3
<1> HIDE DEF S
<1>4. 0..n \subseteq S
  BY <1>2, <1>3, BoundedInduction
<1>5. n \in S
  BY <1>4
<1> QED BY <1>5 DEF S, SumBetween

\* When the entries up to m do not count, the sum of the others is the whole sum.
LEMMA SumOfTail ==
  ASSUME NEW n \in Nat, NEW f, NEW g, \A i \in 1..n : f[i] \in Int /\ g[i] \in Int,
         NEW m \in 0..n, \A i \in 1..m : g[i] = 0, \A i \in (m + 1)..n : f[i] = g[i]
  PROVE  SumBetween(f, m, n) = SumTo(g, n)
<1>1. SumBetween(f, m, n) = SumBetween(g, m, n)
  BY SumBetweenCongruence
<1>2. SumTo(g, m) = 0
  <2> DEFINE z == [i \in 1..m |-> 0]
  <2>1. m \in Nat /\ \A i \in 1..m : z[i] \in Int /\ g[i] = z[i]
    OBVIOUS
  <2>2. SumTo(z, m) = 0
    BY <2>1, SumOfZeros
  <2> HIDE DEF z
  <2> QED BY <2>1, <2>2, SumToCongruence
<1>3. SumTo(g, n) \in Int
  BY SumToUnfold
<1> QED BY <1>1, <1>2, <1>3 DEF SumBetween

\* When the entries after m do not count, the sum up to m is the whole sum.
LEMMA SumOfHead ==
  ASSUME NEW n \in Nat, NEW g, \A i \in 1..n : g[i] \in Int,
         NEW m \in 0..n, \A i \in (m + 1)..n : g[i] = 0
  PROVE  SumTo(g, m) = SumTo(g, n)
<1> DEFINE S == {k \in 0..n : k >= m => SumTo(g, k) = SumTo(g, m)}
<1>1. 0 \in S
  OBVIOUS
<1>2. ASSUME NEW k \in 0..n, k \in S, k < n PROVE k + 1 \in S
  <2>1. SumTo(g, k + 1) = SumTo(g, k) + g[k + 1] /\ SumTo(g, k) \in Int
    BY <1>2, SumToStep
  <2>2. k + 1 >= m => k + 1 = m \/ (k >= m /\ k + 1 \in (m + 1)..n)
    BY <1>2
  <2> QED BY <2>1, <2>2, <1>2
<1> HIDE DEF S
<1>3. 0..n \subseteq S
  BY <1>1, <1>2, BoundedInduction
<1> QED BY <1>3 DEF S

\* Sums over the same stretch are in the order of their entries.
LEMMA SumBetweenMonotone ==
  ASSUME NEW n \in Nat, NEW f, NEW g, \A i \in 1..n : f[i] \in Int /\ g[i] \in Int,
         NEW m \in 0..n, \A i \in (m + 1)..n : f[i] <= g[i]
  PROVE  SumBetween(f, m, n) <= SumBetween(g, m, n) /\ SumBetween(f, m, n) \in Int
<1> DEFINE cf == [i \in 1..n |-> IF i <= m THEN 0 ELSE f[i]]
           cg == [i \in 1..n |-> IF i <= m THEN 0 ELSE g[i]]
<1>1. /\ \A i \in 1..n : cf[i] \in Int /\ cg[i] \in Int /\ cf[i] <= cg[i]
      /\ \A i \in 1..m : cf[i] = 0 /\ cg[i] = 0
      /\ \A i \in (m + 1)..n : f[i] = cf[i] /\ g[i] = cg[i]
  OBVIOUS
<1> HIDE DEF cf, cg
<1>2. SumBetween(f, m, n) = SumTo(cf, n)
  BY <1>1, SumOfTail
<1>3. SumBetween(g, m, n) = SumTo(cg, n)
  BY <1>1, SumOfTail
<1>4. SumTo(cf, n) <= SumTo(cg, n)
  BY <1>1, SumToMonotone
<1>5. SumTo(cf, n) \in Int
  BY <1>1, SumToUnfold
<1> QED BY <1>2, <1>3, <1>4, <1>5

\* Of a sum of numbers every part is part of the whole.
LEMMA SumBetweenSplit ==
  ASSUME NEW n \in Nat, NEW f, \A i \in 1..n : f[i] \in Int,
         NEW m \in 0..n, NEW k \in m..n
  PROVE  /\ SumBetween(f, m, n) = SumBetween(f, m, k) + SumBetween(f, k, n)
         /\ SumBetween(f, m, k) \in Int /\ SumBetween(f, k, n) \in Int
         /\ (\A i \in 1..n : f[i] \in Nat) => SumBetween(f, m, k) \in Nat /\ SumBetween(f, k, n) \in Nat
<1>1. ASSUME NEW j \in 0..n PROVE SumTo(f, j) \in Int
  <2>1. j \in Nat /\ \A i \in 1..j : f[i] \in Int
    OBVIOUS
  <2> QED BY <2>1, SumToUnfold
<1>2. SumTo(f, m) \in Int /\ SumTo(f, k) \in Int /\ SumTo(f, n) \in Int
  BY <1>1
<1>3. ASSUME \A i \in 1..n : f[i] \in Nat PROVE SumTo(f, m) <= SumTo(f, k) /\ SumTo(f, k) <= SumTo(f, n)
  <2>1. SumTo(f, k) <= SumTo(f, n)
    BY <1>3, SumToNat
  <2>2. k \in Nat /\ m \in 0..k /\ \A i \in 1..k : f[i] \in Nat
    BY <1>3
  <2>3. SumTo(f, m) <= SumTo(f, k)
    BY <2>2, SumToNat
  <2> QED BY <2>1, <2>3
<1> QED BY <1>2, <1>3 DEF SumBetween

\* Entries that an injection h takes to entries at least as large add up to no more.
LEMMA SumOverImage ==
  ASSUME NEW n \in Nat, NEW m \in Nat, NEW P \in SUBSET (1..n), NEW h,
         \A p \in P : h[p] \in 1..m,
         \A p, q \in P : h[p] = h[q] => p = q,
         NEW f, NEW g,
         \A i \in 1..n : f[i] \in Nat, \A j \in 1..m : g[j] \in Nat,
         \A p \in P : f[p] <= g[h[p]],
         \A i \in 1..n : i \notin P => f[i] = 0
  PROVE  SumTo(f, n) <= SumTo(g, m)
<1> DEFINE Hit(k, j) == \E p \in P : p <= k /\ h[p] = j
           G(k) == [j \in 1..m |-> IF Hit(k, j) THEN g[j] ELSE 0]
           S == {k \in 0..n : SumTo(f, k) <= SumTo(G(k), m)}
<1>1. \A k \in 0..n : \A j \in 1..m : G(k)[j] \in Nat /\ G(k)[j] \in Int /\ G(k)[j] <= g[j]
  OBVIOUS
<1>2. \A k \in 0..n : SumTo(G(k), m) \in Nat
  <2> SUFFICES ASSUME NEW k \in 0..n PROVE SumTo(G(k), m) \in Nat
    OBVIOUS
  <2>1. m \in 0..m /\ \A j \in 1..m : G(k)[j] \in Nat
    BY <1>1
  <2> HIDE DEF G
  <2> QED BY <2>1, SumToNat
<1>3. 0 \in S
  <2>1. SumTo(f, 0) = 0 /\ 0 \in 0..n
    BY SumToZero
  <2> HIDE DEF G
  <2> QED BY <2>1, <1>2
<1>4. ASSUME NEW k \in 0..n, k \in S, k < n PROVE k + 1 \in S
  <2>1. SumTo(f, k + 1) = SumTo(f, k) + f[k + 1] /\ SumTo(f, k) \in Int /\ f[k + 1] \in Nat
        /\ k + 1 \in 1..n /\ k + 1 \in 0..n
    <3>1. \A i \in 1..n : f[i] \in Int
      OBVIOUS
    <3>2. SumTo(f, k + 1) = SumTo(f, k) + f[k + 1] /\ SumTo(f, k) \in Int
      BY <3>1, <1>4, SumToStep
    <3> QED BY <3>2, <1>4
  <2>2. CASE k + 1 \in P
    <3> DEFINE j == h[k + 1]
               a == G(k)
               b == G(k + 1)
    <3>1. j \in 1..m /\ f[k + 1] <= g[j] /\ g[j] \in Nat
      BY <2>2
    <3>2. a[j] = 0 /\ b[j] = g[j]
      <4>1. Hit(k + 1, j)
        BY <2>2
      <4>2. ~Hit(k, j)
        BY <2>2, <1>4
      <4> QED BY <3>1, <4>1, <4>2
    <3>3. \A i \in 1..m : i # j => b[i] = a[i]
      <4> SUFFICES ASSUME NEW i \in 1..m, i # j PROVE Hit(k + 1, i) <=> Hit(k, i)
        OBVIOUS
      <4>1. \A p \in P : p <= k + 1 => p <= k \/ p = k + 1
        OBVIOUS
      <4>2. \A p \in P : p <= k => p <= k + 1
        OBVIOUS
      <4> QED BY <4>1, <4>2
    <3>4. \A i \in 1..m : a[i] \in Int /\ b[i] \in Int
      BY <1>1, <2>1
    <3>5. SumTo(a, m) \in Nat /\ SumTo(f, k) <= SumTo(a, m)
      BY <1>2, <1>4
    <3> HIDE DEF a, b, j
    <3>6. SumTo(b, m) = SumTo(a, m) + b[j] - a[j]
      BY <3>1, <3>3, <3>4, SumToUpdate
    <3>7. SumTo(f, k + 1) <= SumTo(b, m)
      BY <2>1, <3>1, <3>2, <3>5, <3>6
    <3> QED BY <2>1, <3>7 DEF b
  <2>3. CASE k + 1 \notin P
    <3>1. f[k + 1] = 0
      BY <2>1, <2>3
    <3>2. G(k + 1) = G(k)
      <4> SUFFICES ASSUME NEW i \in 1..m PROVE Hit(k + 1, i) <=> Hit(k, i)
        OBVIOUS
      <4>1. \A p \in P : p <= k + 1 <=> p <= k
        BY <2>3
      <4> QED BY <4>1
    <3>3. SumTo(f, k + 1) = SumTo(f, k)
      BY <2>1, <3>1
    <3> HIDE DEF G
    <3> QED BY <2>1, <3>2, <3>3, <1>4
  <2> QED BY <2>2, <2>3
<1>5. SumTo(f, n) <= SumTo(G(n), m)
  <2> HIDE DEF S
  <2>1. 0..n \subseteq S
    BY <1>3, <1>4, BoundedInduction
  <2>2. n \in S
    BY <2>1
  <2> QED BY <2>2 DEF S
<1>6. SumTo(G(n), m) <= SumTo(g, m)
  <2>1. \A j \in 1..m : G(n)[j] \in Int /\ g[j] \in Int /\ G(n)[j] <= g[j]
    BY <1>1
  <2> HIDE DEF G
  <2> QED BY <2>1, SumToMonotone
<1>7. SumTo(f, n) \in Int /\ SumTo(g, m) \in Int /\ SumTo(G(n), m) \in Int
  <2>1. SumTo(G(n), m) \in Int
    <3>1. n \in 0..n
      OBVIOUS
    <3> HIDE DEF G
    <3> QED BY <3>1, <1>2
  <2> QED BY <2>1, SumToUnfold
<1> HIDE DEF G
<1> QED BY <1>5, <1>6, <1>7

----------------------------------------------------------------------------------
(* Lists *)

\* Sorting lists every position once, by ascending keys.
LEMMA OrderedIsSorted ==
  ASSUME NEW S \in SUBSET Int, IsFiniteSet(S), NEW key, \A i \in S : key[i] \in Int
  PROVE  LET n == Cardinality(S)
             order == Ordered(S, key)
         IN  /\ n \in Nat /\ order \in [1..n -> S] /\ order \in Seq(S) /\ Len(order) = n
             /\ \A x \in S : \E k \in 1..n : order[k] = x
             /\ \A k, l \in 1..n : order[k] = order[l] => k = l
             /\ \A k, l \in 1..n : k < l => key[order[k]] <= key[order[l]]
<1> DEFINE Precedes(x, y) == key[x] < key[y] \/ (key[x] = key[y] /\ x < y)
           below(x) == {j \in S : Precedes(j, x)}
           n == Cardinality(S)
           rank == [x \in S |-> Cardinality(below(x)) + 1]
           order == Ordered(S, key)
<1>1. n \in Nat
  BY FS_CardinalityType
<1>2. /\ \A x \in S : ~Precedes(x, x)
      /\ \A x, y \in S : x # y => Precedes(x, y) \/ Precedes(y, x)
      /\ \A x, y, z \in S : Precedes(x, y) /\ Precedes(y, z) => Precedes(x, z)
      /\ \A x, y \in S : Precedes(x, y) => key[x] <= key[y]
  <2>1. S \subseteq Int
    OBVIOUS
  <2>2. ASSUME NEW x \in S PROVE ~Precedes(x, x)
    BY <2>1
  <2>3. ASSUME NEW x \in S, NEW y \in S, x # y PROVE Precedes(x, y) \/ Precedes(y, x)
    BY <2>1, <2>3
  <2>4. ASSUME NEW x \in S, NEW y \in S, NEW z \in S, Precedes(x, y), Precedes(y, z) PROVE Precedes(x, z)
    <3>1. x \in Int /\ y \in Int /\ z \in Int /\ key[x] \in Int /\ key[y] \in Int /\ key[z] \in Int
      OBVIOUS
    <3> QED BY <3>1, <2>4
  <2>5. ASSUME NEW x \in S, NEW y \in S, Precedes(x, y) PROVE key[x] <= key[y]
    BY <2>5
  <2> HIDE DEF Precedes
  <2> QED BY <2>2, <2>3, <2>4, <2>5
<1> HIDE DEF Precedes
<1>3. ASSUME NEW x \in S PROVE IsFiniteSet(below(x)) /\ Cardinality(below(x)) \in Nat /\ Cardinality(below(x)) + 1 <= n
  <2>1. below(x) \in SUBSET (S \ {x}) /\ IsFiniteSet(S \ {x}) /\ Cardinality(S \ {x}) = n - 1
    BY <1>2, FS_RemoveElement
  <2>2. IsFiniteSet(below(x)) /\ Cardinality(below(x)) <= Cardinality(S \ {x})
    BY <2>1, FS_Subset
  <2>3. Cardinality(below(x)) \in Nat
    BY <2>2, FS_CardinalityType
  <2> QED BY <2>1, <2>2, <2>3, <1>1
<1>4. rank \in [S -> 1..n]
  <2>1. ASSUME NEW x \in S PROVE Cardinality(below(x)) + 1 \in 1..n
    BY <1>1, <1>3
  <2> QED BY <2>1
<1>5. ASSUME NEW x \in S, NEW y \in S, Precedes(x, y) PROVE rank[x] < rank[y]
  <2>1. IsFiniteSet(below(x) \cup {x}) /\ Cardinality(below(x) \cup {x}) = Cardinality(below(x)) + 1
    <3>1. x \notin below(x)
      BY <1>2
    <3> QED BY <3>1, <1>3, FS_AddElement
  <2>2. below(x) \cup {x} \in SUBSET below(y)
    <3>1. ASSUME NEW z \in below(x) \cup {x} PROVE z \in S /\ Precedes(z, y)
      BY <1>2, <1>5
    <3> QED BY <3>1
  <2>3. Cardinality(below(x) \cup {x}) <= Cardinality(below(y))
    BY <2>2, <1>3, FS_Subset
  <2> QED BY <2>1, <2>3, <1>3
<1>6. \A x, y \in S : rank[x] = rank[y] => x = y
  <2> SUFFICES ASSUME NEW x \in S, NEW y \in S, rank[x] = rank[y], x # y PROVE FALSE
    OBVIOUS
  <2>1. rank[x] \in Int /\ rank[y] \in Int
    BY <1>4, <1>1
  <2>2. Precedes(x, y) \/ Precedes(y, x)
    BY <1>2
  <2> HIDE DEF rank
  <2> QED BY <2>1, <2>2, <1>5
<1>7. \A k \in 1..n : \E x \in S : rank[x] = k
  <2>1. rank \in Injection(S, 1..n)
    <3> HIDE DEF rank
    <3> QED BY <1>4, <1>6 DEF Injection, IsInjective
  <2>2. IsFiniteSet(1..n) /\ Cardinality(1..n) = n
    BY <1>1, FS_Interval
  <2>3. rank \in Surjection(S, 1..n)
    BY <2>1, <2>2, FS_Injection
  <2> QED BY <2>3 DEF Surjection
<1>8. ASSUME NEW k \in 1..n PROVE order[k] \in S /\ rank[order[k]] = k
  <2>1. PICK x \in S : rank[x] = k
    BY <1>7
  <2>2. Cardinality(below(x)) = k - 1
    BY <2>1, <1>1, <1>3
  <2> DEFINE y == CHOOSE i \in S : Cardinality(below(i)) = k - 1
  <2>3. y \in S /\ Cardinality(below(y)) = k - 1
    BY <2>2
  <2>4. order[k] = y
    BY DEF Ordered, Precedes
  <2>5. rank[y] = k
    BY <2>3, <1>1
  <2> QED BY <2>3, <2>4, <2>5
<1>9. order \in [1..n -> S]
  <2>1. order = [k \in 1..n |-> order[k]]
    BY DEF Ordered
  <2> HIDE DEF order
  <2> QED BY <2>1, <1>8
<1> HIDE DEF order
<1>10. order \in Seq(S) /\ Len(order) = n
  <2>1. order \in Seq(S)
    BY <1>9, <1>1, SeqDef
  <2> QED BY <2>1, <1>9, <1>1, LenProperties
<1>11. ASSUME NEW x \in S PROVE \E k \in 1..n : order[k] = x
  <2>1. rank[x] \in 1..n
    BY <1>4
  <2>2. order[rank[x]] \in S /\ rank[order[rank[x]]] = rank[x]
    BY <2>1, <1>8
  <2>3. order[rank[x]] = x
    <3> HIDE DEF rank
    <3> QED BY <2>2, <1>6
  <2> QED BY <2>1, <2>3
<1>12. ASSUME NEW k \in 1..n, NEW l \in 1..n, order[k] = order[l] PROVE k = l
  BY <1>8, <1>12
<1>13. ASSUME NEW k \in 1..n, NEW l \in 1..n, k < l PROVE key[order[k]] <= key[order[l]]
  <2> DEFINE x == order[k]
             y == order[l]
  <2>1. x \in S /\ y \in S /\ rank[x] = k /\ rank[y] = l
    BY <1>8
  <2> HIDE DEF x, y, rank
  <2>2. ~Precedes(y, x)
    BY <2>1, <1>5, <1>13
  <2>3. x # y
    BY <2>1, <1>13
  <2>4. Precedes(x, y)
    BY <2>1, <2>2, <2>3, <1>2
  <2>5. key[x] <= key[y]
    BY <2>1, <2>4, <1>2
  <2> QED BY <2>5 DEF x, y
<1> QED BY <1>1, <1>9, <1>10, <1>11, <1>12, <1>13 DEF order

\* out has the elements of seq at the positions S, each once; p says which.
IsSelection(out, seq, S, p) ==
  /\ p \in [1..Len(out) -> S]
  /\ \A k \in 1..Len(out) : out[k] = seq[p[k]]
  /\ \A i \in S : \E k \in 1..Len(out) : p[k] = i
  /\ \A k, l \in 1..Len(out) : p[k] = p[l] => k = l

\* Sorting is such a selection, in the order of the keys,
LEMMA OrderedSelects ==
  ASSUME NEW T, NEW seq \in Seq(T), NEW S \in SUBSET (1..Len(seq)), NEW key, \A i \in S : key[i] \in Int
  PROVE  LET out == At(seq, Ordered(S, key))
             p == Ordered(S, key)
         IN  /\ out \in Seq(T) /\ Len(out) \in Nat /\ Len(out) = Len(p) /\ Len(out) = Cardinality(S) /\ DOMAIN out = 1..Len(out)
             /\ IsSelection(out, seq, S, p)
             /\ \A k, l \in 1..Len(out) : k < l => key[p[k]] <= key[p[l]]
<1> DEFINE p == Ordered(S, key)
           n == Cardinality(S)
           out == At(seq, p)
<1>0. Len(seq) \in Nat /\ 1..Len(seq) \subseteq Int /\ IsFiniteSet(1..Len(seq))
  BY LenProperties, FS_Interval
<1>1. S \in SUBSET Int /\ IsFiniteSet(S)
  BY <1>0, FS_Subset
<1>2. /\ n \in Nat /\ p \in [1..n -> S] /\ Len(p) = n
      /\ \A x \in S : \E k \in 1..n : p[k] = x
      /\ \A k, l \in 1..n : p[k] = p[l] => k = l
      /\ \A k, l \in 1..n : k < l => key[p[k]] <= key[p[l]]
  BY <1>1, OrderedIsSorted
<1> HIDE DEF p, n
<1>3. out = [k \in 1..n |-> seq[p[k]]]
  BY <1>2 DEF At
<1>4. \A k \in 1..n : p[k] \in 1..Len(seq) /\ seq[p[k]] \in T
  BY <1>2, ElementOfSeq
<1>5. out \in [1..n -> T]
  BY <1>3, <1>4
<1>6. out \in Seq(T)
  BY <1>5, <1>2, SeqDef
<1>7. Len(out) = n /\ DOMAIN out = 1..n
  BY <1>3, <1>2
<1>8. \A k \in 1..n : out[k] = seq[p[k]]
  BY <1>3
<1> HIDE DEF out
<1>9. IsSelection(out, seq, S, p)
  BY <1>2, <1>7, <1>8 DEF IsSelection
<1> QED BY <1>2, <1>6, <1>7, <1>9 DEF out, p, n

\* and so is filtering, which keeps the order of the list.
LEMMA FilteredSelects ==
  ASSUME NEW T, NEW seq \in Seq(T), NEW S \in SUBSET (1..Len(seq))
  PROVE  LET out == Filtered(seq, S)
         IN  /\ out \in Seq(T) /\ Len(out) \in Nat /\ DOMAIN out = 1..Len(out)
             /\ \E p : IsSelection(out, seq, S, p) /\ \A k, l \in 1..Len(out) : k < l => p[k] < p[l]
<1> DEFINE key == [i \in S |-> i]
           p == Ordered(S, key)
           out == At(seq, p)
<1>1. \A i \in S : key[i] \in Int /\ key[i] = i /\ i \in Int
  BY LenProperties
<1>2. out = Filtered(seq, S)
  BY DEF Filtered, Ascending
<1> HIDE DEF key, p
<1>3. /\ out \in Seq(T) /\ Len(out) \in Nat /\ DOMAIN out = 1..Len(out)
      /\ IsSelection(out, seq, S, p)
      /\ \A k, l \in 1..Len(out) : k < l => key[p[k]] <= key[p[l]]
  <2>1. \A i \in S : key[i] \in Int
    BY <1>1
  <2>2. LET o == At(seq, Ordered(S, key))
            q == Ordered(S, key)
        IN  /\ o \in Seq(T) /\ Len(o) \in Nat /\ Len(o) = Len(q) /\ Len(o) = Cardinality(S) /\ DOMAIN o = 1..Len(o)
            /\ IsSelection(o, seq, S, q)
            /\ \A k, l \in 1..Len(o) : k < l => key[q[k]] <= key[q[l]]
    BY <2>1, OrderedSelects
  <2> QED BY <2>2 DEF p
<1> HIDE DEF out
<1>4. \A k \in 1..Len(out) : p[k] \in S
  BY <1>3 DEF IsSelection
<1>5. \A k, l \in 1..Len(out) : k < l => p[k] <= p[l]
  BY <1>1, <1>3, <1>4
<1>6. ASSUME NEW k \in 1..Len(out), NEW l \in 1..Len(out), k < l PROVE p[k] < p[l]
  <2>1. p[k] <= p[l] /\ p[k] # p[l]
    BY <1>3, <1>5, <1>6 DEF IsSelection
  <2>2. p[k] \in Int /\ p[l] \in Int
    BY <1>1, <1>4
  <2> QED BY <2>1, <2>2
<1> QED BY <1>2, <1>3, <1>6

\* A filter keeps exactly the elements it is to keep, and does not repeat any.
LEMMA FilteredRange ==
  ASSUME NEW T, NEW seq \in Seq(T), NEW S \in SUBSET (1..Len(seq))
  PROVE  /\ \A x : x \in Range(Filtered(seq, S)) <=> \E i \in S : seq[i] = x
         /\ IsInjective(seq) => IsInjective(Filtered(seq, S))
<1> DEFINE out == Filtered(seq, S)
<1>1. out \in Seq(T) /\ DOMAIN out = 1..Len(out)
  BY FilteredSelects
<1>2. PICK p : IsSelection(out, seq, S, p)
  BY FilteredSelects
<1>3. DOMAIN seq = 1..Len(seq)
  BY LenProperties
<1> HIDE DEF out
<1>4. ASSUME NEW x, x \in Range(out) PROVE \E i \in S : seq[i] = x
  <2>1. PICK k \in 1..Len(out) : x = out[k]
    BY <1>1, <1>4 DEF Range
  <2>2. p[k] \in S /\ out[k] = seq[p[k]]
    BY <1>2 DEF IsSelection
  <2> QED BY <2>1, <2>2
<1>5. ASSUME NEW i \in S PROVE seq[i] \in Range(out)
  BY <1>1, <1>2 DEF Range, IsSelection
<1>6. ASSUME IsInjective(seq) PROVE IsInjective(out)
  BY <1>1, <1>2, <1>3, <1>6 DEF IsInjective, IsSelection
<1> QED BY <1>4, <1>5, <1>6 DEF out

\* The first of some positions.
LEMMA FirstIsLeast ==
  ASSUME NEW n \in Nat, NEW S \in SUBSET (0..n), S # {}
  PROVE  First(S) \in S /\ \A j \in S : First(S) <= j
BY LeastElement DEF First

\* The positions a filter keeps are listed once each.
LEMMA AscendingRange ==
  ASSUME NEW S \in SUBSET Int, IsFiniteSet(S)
  PROVE  Ascending(S) \in Seq(S) /\ Range(Ascending(S)) = S
<1> DEFINE key == [i \in S |-> i]
           order == Ordered(S, key)
           n == Cardinality(S)
<1>1. \A i \in S : key[i] \in Int
  OBVIOUS
<1>2. Ascending(S) = order
  BY DEF Ascending
<1> HIDE DEF key
<1>3. order \in [1..n -> S] /\ order \in Seq(S) /\ \A x \in S : \E k \in 1..n : order[k] = x
  BY <1>1, OrderedIsSorted
<1> HIDE DEF order, n
<1> QED BY <1>2, <1>3 DEF Range

----------------------------------------------------------------------------------
(* Types *)

\* Settling a stream keeps its type and order, and its accumulator only grows.
LEMMA RefreshedType ==
  ASSUME NEW rd \in RewardDataType, NEW supply \in Nat, NEW t \in Nat,
         rd.lastUpdateTime <= t, rd.lastUpdateTime <= rd.periodFinish
  PROVE  /\ Refreshed(rd, supply, t) \in RewardDataType
         /\ rd.rewardPerTokenStored <= Refreshed(rd, supply, t).rewardPerTokenStored
         /\ Refreshed(rd, supply, t).lastUpdateTime <= t
         /\ Refreshed(rd, supply, t).lastUpdateTime <= Refreshed(rd, supply, t).periodFinish
<1> USE PrecisionAssumption
<1> DEFINE elapsed == LastTimeRewardApplicable(rd, t) - rd.lastUpdateTime
<1>1. /\ LastTimeRewardApplicable(rd, t) \in Nat
      /\ LastTimeRewardApplicable(rd, t) <= t
      /\ LastTimeRewardApplicable(rd, t) <= rd.periodFinish
      /\ elapsed \in Nat
  BY DEF LastTimeRewardApplicable, AtMost, RewardDataType
<1>2. rd.rewardRate \in Nat /\ rd.rewardPerTokenStored \in Nat
  BY DEF RewardDataType
<1>3. RewardPerToken(rd, supply, t) \in Nat /\ rd.rewardPerTokenStored <= RewardPerToken(rd, supply, t)
  <2> HIDE DEF elapsed
  <2>1. elapsed * rd.rewardRate \in Nat
    BY <1>1, <1>2
  <2>2. elapsed * rd.rewardRate * Precision \in Nat
    BY <2>1
  <2>3. CASE supply = 0
    BY <2>3, <1>2 DEF RewardPerToken
  <2>4. CASE supply # 0
    <3>1. (elapsed * rd.rewardRate * Precision) \div supply \in Nat
      <4> DEFINE released == elapsed * rd.rewardRate * Precision
      <4> HIDE DEF released
      <4> QED BY <2>2, <2>4 DEF released
    <3> QED BY <3>1, <2>4, <1>2 DEF RewardPerToken, elapsed
  <2> QED BY <2>3, <2>4
<1> QED BY <1>1, <1>3 DEF Refreshed, RewardDataType

\* So does settling an account.
LEMMA SettledType ==
  ASSUME NEW ud \in UserDataType, NEW balance \in Nat, NEW perToken \in Nat,
         ud.rewardPerTokenPaid <= perToken
  PROVE  /\ Settled(ud, balance, perToken) \in UserDataType
         /\ Settled(ud, balance, perToken).rewardPerTokenPaid = perToken
<1>1. ud.rewardPerTokenPaid \in Nat /\ ud.rewards \in Nat
  BY DEF UserDataType
<1>2. balance * (perToken - ud.rewardPerTokenPaid) \in Nat
  BY <1>1
<1>3. (balance * (perToken - ud.rewardPerTokenPaid)) \div Precision \in Nat
  <2> DEFINE share == balance * (perToken - ud.rewardPerTokenPaid)
  <2> HIDE DEF share
  <2> QED BY <1>2, PrecisionAssumption DEF share
<1> QED BY <1>1, <1>3 DEF Settled, Earned, UserDataType

\* A stream that starts is typed and runs for a whole duration.
LEMMA NotifiedType ==
  ASSUME NEW rd \in RewardDataType, NEW reward \in Nat, NEW t \in Nat
  PROVE  /\ Notified(rd, reward, t) \in RewardDataType
         /\ Notified(rd, reward, t).lastUpdateTime = t
         /\ t <= Notified(rd, reward, t).periodFinish
         /\ Notified(rd, reward, t).rewardPerTokenStored = rd.rewardPerTokenStored
<1> USE RewardsDurationAssumption
<1>1. /\ rd.rewardRate \in Nat /\ rd.periodFinish \in Nat
      /\ rd.lastUpdateTime \in Nat /\ rd.rewardPerTokenStored \in Nat
  BY DEF RewardDataType
<1> DEFINE total == reward + Remaining(rd, t) * rd.rewardRate
           rate == total \div RewardsDuration
<1>2. total \in Nat
  <2>1. Remaining(rd, t) \in Nat
    BY <1>1 DEF Remaining
  <2>2. Remaining(rd, t) * rd.rewardRate \in Nat
    BY <1>1, <2>1
  <2> QED BY <2>2
<1>3. Notified(rd, reward, t) = [rd EXCEPT !.rewardRate = rate,
                                           !.lastUpdateTime = t,
                                           !.periodFinish = t + RewardsDuration]
  BY DEF Notified
<1> HIDE DEF total
<1>4. rate \in Nat
  BY <1>2
<1> HIDE DEF rate
<1>5. Notified(rd, reward, t) = [periodFinish |-> t + RewardsDuration, lastUpdateTime |-> t,
                                 rewardRate |-> rate,
                                 rewardPerTokenStored |-> rd.rewardPerTokenStored]
  BY <1>3 DEF RewardDataType
<1>6. t + RewardsDuration \in Nat /\ t <= t + RewardsDuration
  OBVIOUS
<1> QED BY <1>1, <1>4, <1>5, <1>6 DEF RewardDataType

----------------------------------------------------------------------------------
(* Debts *)

\* What is owed to account i: with the balances b and the settled data ud.
DebtTo(b, ud, rd, i) ==
  b[i] * (rd.rewardPerTokenStored - ud[i].rewardPerTokenPaid) + Precision * ud[i].rewards

DebtsToAll(b, ud, rd, n) == SumTo([i \in 1..n |-> DebtTo(b, ud, rd, i)], n)

\* What is released between the last update and the end of the stream.
ToRelease(rd) == (rd.periodFinish - rd.lastUpdateTime) * rd.rewardRate

StreamDebt(b, ud, rd, n) == DebtsToAll(b, ud, rd, n) + Precision * ToRelease(rd)

\* Refreshing a stream passes what it has released on to the accounts, and no more.
LEMMA RefreshKeepsDebt ==
  ASSUME NEW n \in Nat, NEW b, NEW ud,
         \A i \in 1..n : b[i] \in Nat /\ ud[i] \in UserDataType,
         NEW rd \in RewardDataType, NEW t \in Nat,
         rd.lastUpdateTime <= t, rd.lastUpdateTime <= rd.periodFinish
  PROVE  /\ DebtsToAll(b, ud, rd, n) \in Int
         /\ DebtsToAll(b, ud, Refreshed(rd, SumTo(b, n), t), n) \in Int
         /\ StreamDebt(b, ud, Refreshed(rd, SumTo(b, n), t), n) <= StreamDebt(b, ud, rd, n)
<1> DEFINE S == SumTo(b, n)
           new == Refreshed(rd, S, t)
           last == LastTimeRewardApplicable(rd, t)
           released == (last - rd.lastUpdateTime) * rd.rewardRate
           d == RewardPerToken(rd, S, t) - rd.rewardPerTokenStored
<1>1. S \in Nat
  <2>1. \A i \in 1..n : b[i] \in Nat
    OBVIOUS
  <2> QED BY <2>1, SumToNat
<1>2. /\ rd.rewardRate \in Nat /\ rd.rewardPerTokenStored \in Nat
      /\ rd.periodFinish \in Nat /\ rd.lastUpdateTime \in Nat
      /\ last \in Nat /\ rd.lastUpdateTime <= last /\ last <= rd.periodFinish
  BY DEF RewardDataType, LastTimeRewardApplicable, AtMost
<1>3. released \in Nat /\ Precision \in Nat /\ Precision > 0
  <2>1. last - rd.lastUpdateTime \in Nat
    BY <1>2
  <2> HIDE DEF last
  <2>2. (last - rd.lastUpdateTime) * rd.rewardRate \in Nat
    BY <2>1, <1>2, MulNat
  <2> QED BY <2>2, PrecisionAssumption
<1>4. Precision * released \in Nat
  BY <1>3
<1>5. d \in Nat /\ S * d <= Precision * released
  <2>1. CASE S = 0
    <3>1. d = 0
      BY <2>1, <1>2 DEF RewardPerToken
    <3> QED BY <3>1, <2>1, <1>4
  <2>2. CASE S # 0
    <3> DEFINE scaled == (last - rd.lastUpdateTime) * rd.rewardRate * Precision
    <3>1. scaled = Precision * released
      BY <1>2, <1>3
    <3>2. RewardPerToken(rd, S, t) = rd.rewardPerTokenStored + (scaled \div S)
      BY <2>2 DEF RewardPerToken
    <3> HIDE DEF scaled, released, S
    <3>3. (scaled \div S) \in Nat /\ S * (scaled \div S) <= scaled
      BY <2>2, <1>1, <1>4, <3>1, DivRoundsDown
    <3>4. d = scaled \div S
      BY <3>2, <3>3, <1>2
    <3> QED BY <3>1, <3>3, <3>4
  <2> QED BY <2>1, <2>2
<1>6. /\ new.rewardPerTokenStored = rd.rewardPerTokenStored + d
      /\ ToRelease(new) = (rd.periodFinish - last) * rd.rewardRate
  <2>1. /\ new.rewardPerTokenStored = RewardPerToken(rd, S, t) /\ new.lastUpdateTime = last
        /\ new.periodFinish = rd.periodFinish /\ new.rewardRate = rd.rewardRate
    BY DEF Refreshed, RewardDataType
  <2>2. RewardPerToken(rd, S, t) \in Int
    <3>1. new \in RewardDataType
      BY <1>1, RefreshedType
    <3> QED BY <3>1, <2>1 DEF RewardDataType
  <2> HIDE DEF new, last, S
  <2> QED BY <1>2, <2>1, <2>2 DEF ToRelease
<1>7. ToRelease(rd) = ToRelease(new) + released /\ ToRelease(new) \in Nat
  <2>1. ToRelease(rd) = (rd.periodFinish - rd.lastUpdateTime) * rd.rewardRate
    BY DEF ToRelease
  <2> HIDE DEF last, new
  <2>2. (rd.periodFinish - rd.lastUpdateTime) * rd.rewardRate
          = (rd.periodFinish - last) * rd.rewardRate + (last - rd.lastUpdateTime) * rd.rewardRate
    BY <1>2
  <2>3. (rd.periodFinish - last) * rd.rewardRate \in Nat
    <3>1. rd.periodFinish - last \in Nat
      BY <1>2
    <3> QED BY <3>1, <1>2, MulNat
  <2> QED BY <2>1, <2>2, <2>3, <1>6
<1> DEFINE f == [i \in 1..n |-> DebtTo(b, ud, rd, i)]
           g == [i \in 1..n |-> DebtTo(b, ud, new, i)]
<1>8. \A i \in 1..n : f[i] \in Int /\ b[i] \in Int /\ g[i] = f[i] + d * b[i]
  <2> SUFFICES ASSUME NEW i \in 1..n PROVE f[i] \in Int /\ b[i] \in Int /\ g[i] = f[i] + d * b[i]
    OBVIOUS
  <2>1. b[i] \in Nat /\ ud[i].rewardPerTokenPaid \in Nat /\ ud[i].rewards \in Nat
    <3>1. ud[i] \in UserDataType
      OBVIOUS
    <3> QED BY <3>1 DEF UserDataType
  <2> DEFINE gap == rd.rewardPerTokenStored - ud[i].rewardPerTokenPaid
             settled == Precision * ud[i].rewards
  <2>2. gap \in Int /\ settled \in Int /\ b[i] * gap \in Int
    <3>1. gap \in Int
      BY <2>1, <1>2
    <3>2. settled \in Int
      BY <2>1, <1>3
    <3> HIDE DEF gap
    <3>3. b[i] * gap \in Int
      BY <3>1, <2>1
    <3> QED BY <3>1, <3>2, <3>3
  <2>3. f[i] = b[i] * gap + settled
    BY DEF DebtTo
  <2>4. g[i] = b[i] * (gap + d) + settled
    <3>1. new.rewardPerTokenStored - ud[i].rewardPerTokenPaid = gap + d
      BY <1>2, <1>5, <1>6, <2>1
    <3> HIDE DEF new, d, gap
    <3> QED BY <3>1 DEF DebtTo
  <2> HIDE DEF gap, settled, d, f, g
  <2>5. b[i] * (gap + d) = b[i] * gap + b[i] * d /\ b[i] * d = d * b[i] /\ b[i] * d \in Int
    BY <2>1, <2>2, <1>5, Distributes
  <2> QED BY <2>1, <2>2, <2>3, <2>4, <2>5
<1>9. /\ DebtsToAll(b, ud, rd, n) = SumTo(f, n) /\ DebtsToAll(b, ud, new, n) = SumTo(g, n)
  BY DEF DebtsToAll
<1>10. SumTo(g, n) = SumTo(f, n) + d * S /\ SumTo(f, n) \in Int
  <2>1. d \in Int
    BY <1>5
  <2> HIDE DEF f, g, d
  <2>2. SumTo(g, n) = SumTo(f, n) + d * SumTo(b, n)
    BY <2>1, <1>8, SumToLinear
  <2>3. SumTo(f, n) \in Int
    BY <1>8, SumToUnfold
  <2> QED BY <2>2, <2>3
<1>11. Precision * ToRelease(rd) = Precision * ToRelease(new) + Precision * released
       /\ Precision * ToRelease(new) \in Int
  <2> HIDE DEF released, new
  <2> QED BY <1>3, <1>7
<1> HIDE DEF f, g, d, S, new, released
<1>12. d * S = S * d /\ d * S \in Int
  BY <1>1, <1>5
<1>13. SumTo(g, n) \in Int
  BY <1>10, <1>12
<1>14. StreamDebt(b, ud, new, n) <= StreamDebt(b, ud, rd, n)
  BY <1>4, <1>5, <1>9, <1>10, <1>11, <1>12 DEF StreamDebt
<1> QED BY <1>9, <1>10, <1>13, <1>14 DEF new, S

\* A debt is a number.
LEMMA DebtIsInt ==
  ASSUME NEW b, NEW ud, NEW rd \in RewardDataType, NEW i, b[i] \in Nat, ud[i] \in UserDataType
  PROVE  DebtTo(b, ud, rd, i) \in Int
<1>1. /\ rd.rewardPerTokenStored \in Nat /\ ud[i].rewardPerTokenPaid \in Nat
      /\ ud[i].rewards \in Nat /\ Precision \in Nat
  BY PrecisionAssumption DEF RewardDataType, UserDataType
<1> DEFINE gap == rd.rewardPerTokenStored - ud[i].rewardPerTokenPaid
<1>2. gap \in Int
  BY <1>1
<1>3. DebtTo(b, ud, rd, i) = b[i] * gap + Precision * ud[i].rewards
  BY DEF DebtTo
<1> HIDE DEF gap
<1>4. b[i] * gap \in Int /\ Precision * ud[i].rewards \in Int
  BY <1>1, <1>2
<1> QED BY <1>3, <1>4

\* So are all debts together.
LEMMA DebtsAreInt ==
  ASSUME NEW n \in Nat, NEW b, NEW ud, NEW rd \in RewardDataType,
         \A i \in 1..n : b[i] \in Nat /\ ud[i] \in UserDataType
  PROVE  DebtsToAll(b, ud, rd, n) \in Int
<1> DEFINE f == [i \in 1..n |-> DebtTo(b, ud, rd, i)]
<1>1. \A i \in 1..n : f[i] \in Int
  BY DebtIsInt
<1>2. DebtsToAll(b, ud, rd, n) = SumTo(f, n)
  BY DEF DebtsToAll
<1> HIDE DEF f
<1> QED BY <1>1, <1>2, SumToUnfold

\* Settling an account rounds what it is owed down, and frees its balance to change.
LEMMA SettleKeepsDebtTo ==
  ASSUME NEW b, NEW c, NEW ud, NEW vd, NEW rd \in RewardDataType, NEW i,
         b[i] \in Nat, c[i] \in Nat, ud[i] \in UserDataType,
         ud[i].rewardPerTokenPaid <= rd.rewardPerTokenStored,
         vd[i] = Settled(ud[i], b[i], rd.rewardPerTokenStored)
  PROVE  /\ vd[i] \in UserDataType /\ vd[i].rewardPerTokenPaid = rd.rewardPerTokenStored
         /\ vd[i].rewards = Earned(ud[i], b[i], rd.rewardPerTokenStored)
         /\ DebtTo(c, vd, rd, i) = Precision * vd[i].rewards
         /\ DebtTo(c, vd, rd, i) <= DebtTo(b, ud, rd, i)
<1> DEFINE gap == rd.rewardPerTokenStored - ud[i].rewardPerTokenPaid
           x == b[i] * gap
           share == x \div Precision
<1>1. /\ rd.rewardPerTokenStored \in Nat /\ ud[i].rewardPerTokenPaid \in Nat
      /\ ud[i].rewards \in Nat /\ Precision \in Nat /\ Precision > 0
  BY PrecisionAssumption DEF RewardDataType, UserDataType
<1>2. gap \in Nat
  BY <1>1
<1>3. vd[i] \in UserDataType /\ vd[i].rewardPerTokenPaid = rd.rewardPerTokenStored
  BY <1>1, SettledType
<1>4. vd[i].rewards = share + ud[i].rewards
  BY DEF Settled, Earned
<1>5. vd[i].rewards = Earned(ud[i], b[i], rd.rewardPerTokenStored)
  BY DEF Settled
<1>6. DebtTo(b, ud, rd, i) = x + Precision * ud[i].rewards
  BY DEF DebtTo
<1>7. x \in Nat
  <2> HIDE DEF gap
  <2> QED BY <1>2, MulNat
<1> HIDE DEF gap, x
<1>8. share \in Nat /\ Precision * share <= x
  BY <1>1, <1>7, DivRoundsDown
<1> HIDE DEF share
<1>9. DebtTo(c, vd, rd, i) = Precision * vd[i].rewards
  <2>1. c[i] * (rd.rewardPerTokenStored - vd[i].rewardPerTokenPaid) = 0
    BY <1>1, <1>3
  <2>2. vd[i].rewards \in Nat
    BY <1>3 DEF UserDataType
  <2> QED BY <2>1, <2>2, <1>1 DEF DebtTo
<1>10. Precision * (share + ud[i].rewards) = Precision * share + Precision * ud[i].rewards
       /\ Precision * share \in Int /\ Precision * ud[i].rewards \in Int
  BY <1>1, <1>8, Distributes
<1> QED BY <1>3, <1>4, <1>5, <1>6, <1>7, <1>8, <1>9, <1>10

\* Settling some accounts lowers all debts together, if at all.
LEMMA SettleKeepsDebts ==
  ASSUME NEW n \in Nat, NEW b, NEW c, NEW ud, NEW vd, NEW rd \in RewardDataType, NEW users,
         \A i \in 1..n : /\ b[i] \in Nat /\ c[i] \in Nat /\ ud[i] \in UserDataType
                         /\ ud[i].rewardPerTokenPaid <= rd.rewardPerTokenStored,
         \A i \in 1..n : i \in users => vd[i] = Settled(ud[i], b[i], rd.rewardPerTokenStored),
         \A i \in 1..n : i \notin users => vd[i] = ud[i] /\ c[i] = b[i]
  PROVE  /\ \A i \in 1..n : /\ vd[i] \in UserDataType
                            /\ vd[i].rewardPerTokenPaid <= rd.rewardPerTokenStored
         /\ DebtsToAll(b, ud, rd, n) \in Int /\ DebtsToAll(c, vd, rd, n) \in Int
         /\ DebtsToAll(c, vd, rd, n) <= DebtsToAll(b, ud, rd, n)
<1> DEFINE f == [i \in 1..n |-> DebtTo(c, vd, rd, i)]
           g == [i \in 1..n |-> DebtTo(b, ud, rd, i)]
<1>1. ASSUME NEW i \in 1..n
      PROVE  /\ vd[i] \in UserDataType /\ vd[i].rewardPerTokenPaid <= rd.rewardPerTokenStored
             /\ f[i] <= g[i]
  <2>1. CASE i \in users
    <3>1. /\ vd[i] \in UserDataType /\ vd[i].rewardPerTokenPaid = rd.rewardPerTokenStored
          /\ DebtTo(c, vd, rd, i) <= DebtTo(b, ud, rd, i)
      BY <2>1, SettleKeepsDebtTo
    <3>2. rd.rewardPerTokenStored \in Nat
      BY DEF RewardDataType
    <3> QED BY <3>1, <3>2
  <2>2. CASE i \notin users
    <3>1. vd[i] = ud[i] /\ c[i] = b[i] /\ ud[i] \in UserDataType
      BY <2>2
    <3>2. f[i] = g[i]
      BY <3>1 DEF DebtTo
    <3>3. g[i] \in Int
      BY DebtIsInt
    <3> HIDE DEF f, g
    <3> QED BY <3>1, <3>2, <3>3
  <2> QED BY <2>1, <2>2
<1>2. \A i \in 1..n : f[i] \in Int /\ g[i] \in Int
  BY <1>1, DebtIsInt
<1>3. DebtsToAll(c, vd, rd, n) = SumTo(f, n) /\ DebtsToAll(b, ud, rd, n) = SumTo(g, n)
  BY DEF DebtsToAll
<1> HIDE DEF f, g
<1>4. SumTo(f, n) <= SumTo(g, n)
  BY <1>1, <1>2, SumToMonotone
<1>5. SumTo(f, n) \in Int /\ SumTo(g, n) \in Int
  BY <1>2, SumToUnfold
<1> QED BY <1>1, <1>3, <1>4, <1>5

\* Paying an account takes its settled rewards off the debt.
LEMMA PayLowersDebts ==
  ASSUME NEW n \in Nat, NEW b, NEW ud, NEW vd, NEW rd \in RewardDataType, NEW j \in 1..n,
         \A i \in 1..n : b[i] \in Nat /\ ud[i] \in UserDataType,
         \A i \in 1..n : i # j => vd[i] = ud[i],
         vd[j] \in UserDataType, vd[j].rewards = 0,
         vd[j].rewardPerTokenPaid = ud[j].rewardPerTokenPaid
  PROVE  /\ \A i \in 1..n : /\ vd[i] \in UserDataType
                            /\ vd[i].rewardPerTokenPaid = ud[i].rewardPerTokenPaid
         /\ DebtsToAll(b, vd, rd, n) \in Int
         /\ DebtsToAll(b, vd, rd, n) = DebtsToAll(b, ud, rd, n) - Precision * ud[j].rewards
<1> DEFINE f == [i \in 1..n |-> DebtTo(b, ud, rd, i)]
           g == [i \in 1..n |-> DebtTo(b, vd, rd, i)]
<1>1. \A i \in 1..n : vd[i] \in UserDataType /\ vd[i].rewardPerTokenPaid = ud[i].rewardPerTokenPaid
  OBVIOUS
<1>2. \A i \in 1..n : f[i] \in Int /\ g[i] \in Int
  BY <1>1, DebtIsInt
<1>3. \A i \in 1..n : i # j => g[i] = f[i]
  BY DEF DebtTo
<1>4. g[j] = f[j] - Precision * ud[j].rewards
  <2> DEFINE owed == b[j] * (rd.rewardPerTokenStored - ud[j].rewardPerTokenPaid)
             settled == Precision * ud[j].rewards
  <2>1. ud[j].rewards \in Nat /\ Precision \in Nat /\ vd[j].rewards = 0
    <3>1. ud[j] \in UserDataType
      OBVIOUS
    <3> QED BY <3>1, PrecisionAssumption DEF UserDataType
  <2>2. settled \in Int /\ Precision * vd[j].rewards = 0
    BY <2>1
  <2>3. f[j] = owed + settled
    BY DEF DebtTo
  <2>4. g[j] = owed + 0
    BY <1>1, <2>2 DEF DebtTo
  <2>5. owed \in Int
    <3> DEFINE gap == rd.rewardPerTokenStored - ud[j].rewardPerTokenPaid
    <3>1. gap \in Int /\ b[j] \in Int
      <4>1. ud[j] \in UserDataType /\ b[j] \in Nat
        OBVIOUS
      <4> QED BY <4>1 DEF UserDataType, RewardDataType
    <3> HIDE DEF gap
    <3>2. b[j] * gap \in Int
      BY <3>1
    <3> QED BY <3>2 DEF gap
  <2> HIDE DEF owed, settled, f, g
  <2>6. g[j] = f[j] - settled
    BY <2>2, <2>3, <2>4, <2>5
  <2> QED BY <2>6 DEF settled
<1>5. DebtsToAll(b, vd, rd, n) = SumTo(g, n) /\ DebtsToAll(b, ud, rd, n) = SumTo(f, n)
  BY DEF DebtsToAll
<1> HIDE DEF f, g
<1>6. SumTo(g, n) = SumTo(f, n) + g[j] - f[j] /\ SumTo(f, n) \in Int /\ SumTo(g, n) \in Int
  <2>1. SumTo(g, n) = SumTo(f, n) + g[j] - f[j]
    BY ONLY n \in Nat, j \in 1..n, <1>2, <1>3, SumToUpdate
  <2>2. \A i \in 1..n : f[i] \in Int
    BY <1>2
  <2>3. \A i \in 1..n : g[i] \in Int
    BY <1>2
  <2>4. SumTo(f, n) \in Int
    BY <2>2, SumToUnfold
  <2>5. SumTo(g, n) \in Int
    BY <2>3, SumToUnfold
  <2> QED BY <2>1, <2>4, <2>5
<1>7. f[j] \in Int /\ Precision * ud[j].rewards \in Int
  <2>1. ud[j] \in UserDataType
    OBVIOUS
  <2>2. ud[j].rewards \in Int /\ Precision \in Int
    BY <2>1, PrecisionAssumption DEF UserDataType
  <2> QED BY <2>2, <1>2
<1> QED BY <1>1, <1>4, <1>5, <1>6, <1>7

\* What a refreshed stream has to release is its remaining time at its rate.
LEMMA RefreshedReleases ==
  ASSUME NEW rd \in RewardDataType, NEW supply \in Nat, NEW t \in Nat,
         rd.lastUpdateTime <= t, rd.lastUpdateTime <= rd.periodFinish
  PROVE  /\ ToRelease(Refreshed(rd, supply, t)) = Remaining(rd, t) * rd.rewardRate
         /\ Remaining(Refreshed(rd, supply, t), t) = Remaining(rd, t)
         /\ Refreshed(rd, supply, t).rewardRate = rd.rewardRate
         /\ Remaining(rd, t) * rd.rewardRate \in Nat
<1> DEFINE new == Refreshed(rd, supply, t)
<1>1. /\ new.lastUpdateTime = LastTimeRewardApplicable(rd, t)
      /\ new.periodFinish = rd.periodFinish /\ new.rewardRate = rd.rewardRate
  BY DEF Refreshed, RewardDataType
<1>2. rd.periodFinish \in Nat /\ rd.rewardRate \in Nat
  BY DEF RewardDataType
<1>3. rd.periodFinish - LastTimeRewardApplicable(rd, t) = Remaining(rd, t) /\ Remaining(rd, t) \in Nat
  BY <1>2 DEF LastTimeRewardApplicable, AtMost, Remaining
<1>4. Remaining(rd, t) * rd.rewardRate \in Nat
  BY <1>2, <1>3, MulNat
<1>5. Remaining(new, t) = Remaining(rd, t)
  BY <1>1 DEF Remaining
<1> HIDE DEF new
<1>6. ToRelease(new) = Remaining(rd, t) * rd.rewardRate
  BY <1>1, <1>3 DEF ToRelease
<1> QED BY <1>1, <1>4, <1>5, <1>6 DEF new

\* A new stream takes on the rest of the running one and the new reward, and no more.
LEMMA NotifyKeepsDebt ==
  ASSUME NEW n \in Nat, NEW b, NEW ud,
         \A i \in 1..n : b[i] \in Nat /\ ud[i] \in UserDataType,
         NEW rd \in RewardDataType, NEW reward \in Nat, NEW t \in Nat,
         rd.lastUpdateTime <= t, rd.lastUpdateTime <= rd.periodFinish
  PROVE  StreamDebt(b, ud, Notified(Refreshed(rd, SumTo(b, n), t), reward, t), n)
           <= StreamDebt(b, ud, rd, n) + Precision * reward
<1> DEFINE new == Refreshed(rd, SumTo(b, n), t)
           next == Notified(new, reward, t)
           rest == Remaining(rd, t) * rd.rewardRate
           total == reward + rest
           rate == total \div RewardsDuration
<1>0. SumTo(b, n) \in Nat
  <2>1. \A i \in 1..n : b[i] \in Nat
    OBVIOUS
  <2> QED BY <2>1, SumToNat
<1>1. new \in RewardDataType /\ StreamDebt(b, ud, new, n) <= StreamDebt(b, ud, rd, n)
  BY <1>0, RefreshedType, RefreshKeepsDebt
<1>2. /\ ToRelease(new) = rest /\ rest \in Nat
      /\ Remaining(new, t) * new.rewardRate = rest
  BY <1>0, RefreshedReleases
<1>3. total \in Nat /\ RewardsDuration \in Nat /\ RewardsDuration > 0
  BY <1>2, RewardsDurationAssumption
<1>4. rate \in Nat /\ RewardsDuration * rate <= total
  <2> HIDE DEF total
  <2> QED BY <1>3, DivRoundsDown
<1>5. /\ next.rewardRate = rate /\ next.lastUpdateTime = t /\ next.periodFinish = t + RewardsDuration
      /\ next.rewardPerTokenStored = new.rewardPerTokenStored /\ next \in RewardDataType
  <2>1. next = [new EXCEPT !.rewardRate = rate, !.lastUpdateTime = t, !.periodFinish = t + RewardsDuration]
    BY <1>2 DEF Notified
  <2>2. next \in RewardDataType
    BY <1>1, NotifiedType
  <2> HIDE DEF next, new, rate
  <2> QED BY <1>1, <2>1, <2>2 DEF RewardDataType
<1> HIDE DEF next, new, rate
<1>6. ToRelease(next) = RewardsDuration * rate
  BY <1>3, <1>5 DEF ToRelease
<1>7. ToRelease(next) <= reward + ToRelease(new) /\ ToRelease(next) \in Int /\ ToRelease(new) \in Int
  <2>1. RewardsDuration * rate \in Int
    BY <1>3, <1>4
  <2> QED BY <1>2, <1>4, <1>6, <2>1
<1>8. Precision * ToRelease(next) <= Precision * reward + Precision * ToRelease(new)
      /\ Precision * ToRelease(next) \in Int /\ Precision * reward \in Int
      /\ Precision * ToRelease(new) \in Int
  <2>1. Precision \in Nat
    BY PrecisionAssumption
  <2>2. Precision * ToRelease(next) <= Precision * (reward + ToRelease(new))
    BY <1>7, <2>1, MulMonotone
  <2>3. Precision * (reward + ToRelease(new)) = Precision * reward + Precision * ToRelease(new)
    BY <1>7, <2>1, Distributes
  <2> QED BY <1>7, <2>1, <2>2, <2>3
<1>9. DebtsToAll(b, ud, next, n) = DebtsToAll(b, ud, new, n)
  BY <1>5 DEF DebtsToAll, DebtTo
<1>10. DebtsToAll(b, ud, new, n) \in Int /\ DebtsToAll(b, ud, rd, n) \in Int
  BY <1>1, DebtsAreInt
<1>11. Precision * ToRelease(rd) \in Int
  <2>1. rd.periodFinish - rd.lastUpdateTime \in Int /\ rd.rewardRate \in Int /\ Precision \in Int
    BY PrecisionAssumption DEF RewardDataType
  <2>2. ToRelease(rd) \in Int
    BY <2>1 DEF ToRelease
  <2> QED BY <2>1, <2>2
<1>12. StreamDebt(b, ud, next, n) <= StreamDebt(b, ud, rd, n) + Precision * reward
  BY <1>1, <1>8, <1>9, <1>10, <1>11 DEF StreamDebt
<1> QED BY <1>12 DEF next, new

\* A debt that is covered covers, now and with all the roundings, what every account
\* has earned, what waits and what is still to be released.
LEMMA DebtCoversEarned ==
  ASSUME NEW n \in Nat, NEW b, NEW ud, NEW rd \in RewardDataType, NEW t \in Nat,
         \A i \in 1..n : /\ b[i] \in Nat /\ ud[i] \in UserDataType
                         /\ ud[i].rewardPerTokenPaid <= rd.rewardPerTokenStored,
         rd.lastUpdateTime <= t, rd.lastUpdateTime <= rd.periodFinish,
         NEW queued \in Nat, NEW tokens \in Nat,
         StreamDebt(b, ud, rd, n) + Precision * queued <= Precision * tokens
  PROVE  SumTo([i \in 1..n |-> Earned(ud[i], b[i], RewardPerToken(rd, SumTo(b, n), t))], n)
           + queued + Remaining(rd, t) * rd.rewardRate <= tokens
<1> DEFINE perToken == RewardPerToken(rd, SumTo(b, n), t)
           new == Refreshed(rd, SumTo(b, n), t)
           vd == [i \in 1..n |-> Settled(ud[i], b[i], perToken)]
           e == [i \in 1..n |-> Earned(ud[i], b[i], perToken)]
           rest == Remaining(rd, t) * rd.rewardRate
<1>0. SumTo(b, n) \in Nat
  <2>1. \A i \in 1..n : b[i] \in Nat
    OBVIOUS
  <2> QED BY <2>1, SumToNat
<1>1. /\ new \in RewardDataType /\ rd.rewardPerTokenStored <= new.rewardPerTokenStored
      /\ StreamDebt(b, ud, new, n) <= StreamDebt(b, ud, rd, n)
  BY <1>0, RefreshedType, RefreshKeepsDebt
<1>2. new.rewardPerTokenStored = perToken
  BY DEF Refreshed, RewardDataType
<1>3. ASSUME NEW i \in 1..n
      PROVE  /\ ud[i].rewardPerTokenPaid <= new.rewardPerTokenStored
             /\ vd[i] = Settled(ud[i], b[i], new.rewardPerTokenStored)
  <2>1. ud[i] \in UserDataType /\ ud[i].rewardPerTokenPaid <= rd.rewardPerTokenStored
    OBVIOUS
  <2>2. ud[i].rewardPerTokenPaid <= new.rewardPerTokenStored
    <3> HIDE DEF new
    <3> QED BY <2>1, <1>1 DEF UserDataType, RewardDataType
  <2> QED BY <2>2, <1>2
<1> HIDE DEF new, perToken, vd
<1> DEFINE f == [i \in 1..n |-> DebtTo(b, ud, new, i)]
           g == [i \in 1..n |-> DebtTo(b, vd, new, i)]
<1>4. ASSUME NEW i \in 1..n
      PROVE  /\ vd[i] \in UserDataType /\ vd[i].rewards = e[i]
             /\ g[i] = Precision * e[i] /\ e[i] \in Int
             /\ f[i] \in Int /\ g[i] \in Int /\ g[i] <= f[i]
  <2>1. b[i] \in Nat /\ ud[i] \in UserDataType /\ new \in RewardDataType
    BY <1>1
  <2>2. /\ vd[i] \in UserDataType /\ vd[i].rewards = Earned(ud[i], b[i], new.rewardPerTokenStored)
        /\ DebtTo(b, vd, new, i) = Precision * vd[i].rewards
        /\ DebtTo(b, vd, new, i) <= DebtTo(b, ud, new, i)
    BY <1>3, <2>1, SettleKeepsDebtTo
  <2>3. vd[i].rewards = e[i]
    BY <2>2, <1>2
  <2>4. vd[i].rewards \in Int
    BY <2>2 DEF UserDataType
  <2>5. DebtTo(b, ud, new, i) \in Int /\ DebtTo(b, vd, new, i) \in Int
    BY <2>1, <2>2, DebtIsInt
  <2> HIDE DEF e
  <2> QED BY <2>2, <2>3, <2>4, <2>5
<1>5. /\ DebtsToAll(b, ud, new, n) \in Int /\ SumTo(g, n) \in Int
      /\ SumTo(g, n) <= DebtsToAll(b, ud, new, n)
  <2>1. DebtsToAll(b, ud, new, n) = SumTo(f, n)
    BY DEF DebtsToAll
  <2> HIDE DEF f, g, e
  <2>2. SumTo(f, n) \in Int /\ SumTo(g, n) \in Int
    BY <1>4, SumToUnfold
  <2>3. SumTo(g, n) <= SumTo(f, n)
    BY <1>4, SumToMonotone
  <2> QED BY <2>1, <2>2, <2>3
<1>7. SumTo(g, n) = Precision * SumTo(e, n) /\ SumTo(e, n) \in Int
  <2> HIDE DEF g, e
  <2>1. Precision \in Int
    BY PrecisionAssumption
  <2>2. \A i \in 1..n : e[i] \in Int
    BY <1>4
  <2> QED BY <2>1, <2>2, <1>4, SumToScale, SumToUnfold
<1>8. ToRelease(new) = rest /\ rest \in Nat
  BY <1>0, RefreshedReleases DEF new
<1> DEFINE all == SumTo(e, n) + queued + rest
<1> HIDE DEF f, g, e, rest
<1>9. Precision * all = Precision * SumTo(e, n) + Precision * queued + Precision * rest
  <2>1. Precision \in Int /\ SumTo(e, n) + queued \in Int
    BY <1>7, PrecisionAssumption
  <2>2. Precision * all = Precision * (SumTo(e, n) + queued) + Precision * rest
    BY <1>8, <2>1, Distributes
  <2>3. Precision * (SumTo(e, n) + queued) = Precision * SumTo(e, n) + Precision * queued
    BY <1>7, <2>1, Distributes
  <2> QED BY <2>2, <2>3
<1>10. Precision * all <= Precision * tokens
  <2>1. /\ Precision * SumTo(e, n) \in Int /\ Precision * queued \in Int /\ Precision * rest \in Int
        /\ Precision * tokens \in Int
    BY <1>7, <1>8, PrecisionAssumption
  <2>2. StreamDebt(b, ud, new, n) = DebtsToAll(b, ud, new, n) + Precision * rest
    BY <1>8 DEF StreamDebt
  <2>3. StreamDebt(b, ud, rd, n) \in Int
    <3>1. DebtsToAll(b, ud, rd, n) \in Int
      BY DebtsAreInt
    <3>2. rd.periodFinish - rd.lastUpdateTime \in Int /\ rd.rewardRate \in Int /\ Precision \in Int
      BY PrecisionAssumption DEF RewardDataType
    <3>3. ToRelease(rd) \in Int
      BY <3>2 DEF ToRelease
    <3>4. Precision * ToRelease(rd) \in Int
      BY <3>2, <3>3
    <3> QED BY <3>1, <3>4 DEF StreamDebt
  <2> HIDE DEF all
  <2> QED BY <1>1, <1>5, <1>7, <1>9, <2>1, <2>2, <2>3
<1>11. all \in Int /\ Precision \in Nat /\ Precision > 0
  BY <1>7, <1>8, PrecisionAssumption
<1>12. all <= tokens
  <2> HIDE DEF all
  <2> QED BY <1>10, <1>11, MulCancels
<1> QED BY <1>12 DEF all, e, rest, perToken

----------------------------------------------------------------------------------
(* One stream among its accounts: the debt is covered *)

\* A stream rd of n accounts, settled data ud, q waiting and h held, when the balances
\* are b and the time is t.
StreamFine(n, rd, ud, q, h, b, t) ==
  /\ rd \in RewardDataType /\ q \in Nat /\ h \in Nat
  /\ rd.lastUpdateTime <= t /\ rd.lastUpdateTime <= rd.periodFinish
  /\ \A u \in 1..n :
       ud[u] \in UserDataType /\ ud[u].rewardPerTokenPaid <= rd.rewardPerTokenStored
  /\ StreamDebt(b, ud, rd, n) + Precision * q <= Precision * h

\* Settling some accounts, whose balances may then change.
LEMMA SettledFine ==
  ASSUME NEW n \in Nat, NEW rd, NEW ud, NEW vd, NEW q, NEW h, NEW b, NEW c, NEW t \in Nat,
         NEW users,
         StreamFine(n, rd, ud, q, h, b, t),
         \A u \in 1..n : b[u] \in Nat /\ c[u] \in Nat,
         \A u \in 1..n :
           u \in users => vd[u] = Settled(ud[u], b[u], RewardPerToken(rd, SumTo(b, n), t)),
         \A u \in 1..n : u \notin users => vd[u] = ud[u] /\ c[u] = b[u]
  PROVE  StreamFine(n, Refreshed(rd, SumTo(b, n), t), vd, q, h, c, t)
<1> DEFINE S == SumTo(b, n)
           new == Refreshed(rd, S, t)
<1>0. S \in Nat
  <2>1. \A u \in 1..n : b[u] \in Nat
    OBVIOUS
  <2>2. n \in 0..n
    OBVIOUS
  <2>3. \A k \in 0..n : SumTo(b, k) \in Nat
    BY <2>1, SumToNat
  <2> QED BY <2>2, <2>3
<1>1. /\ rd \in RewardDataType /\ q \in Nat /\ h \in Nat
      /\ rd.lastUpdateTime <= t /\ rd.lastUpdateTime <= rd.periodFinish
      /\ \A u \in 1..n : /\ ud[u] \in UserDataType
                                   /\ ud[u].rewardPerTokenPaid <= rd.rewardPerTokenStored
      /\ StreamDebt(b, ud, rd, n) + Precision * q <= Precision * h
  BY DEF StreamFine
<1>2. /\ new \in RewardDataType /\ rd.rewardPerTokenStored <= new.rewardPerTokenStored
      /\ new.lastUpdateTime <= t /\ new.lastUpdateTime <= new.periodFinish
      /\ new.rewardPerTokenStored = RewardPerToken(rd, S, t)
  <2>1. new.rewardPerTokenStored = RewardPerToken(rd, S, t)
    BY <1>1 DEF Refreshed, RewardDataType
  <2> QED BY <1>0, <1>1, <2>1, RefreshedType
<1>3. StreamDebt(b, ud, new, n) <= StreamDebt(b, ud, rd, n)
  BY <1>1, RefreshKeepsDebt
<1> HIDE DEF new, S
<1>4. ASSUME NEW u \in 1..n
      PROVE  /\ b[u] \in Nat /\ c[u] \in Nat /\ ud[u] \in UserDataType
             /\ ud[u].rewardPerTokenPaid <= new.rewardPerTokenStored
  <2>1. /\ ud[u].rewardPerTokenPaid \in Nat /\ ud[u].rewardPerTokenPaid <= rd.rewardPerTokenStored
        /\ rd.rewardPerTokenStored \in Nat /\ new.rewardPerTokenStored \in Nat
    BY <1>1, <1>2 DEF UserDataType, RewardDataType
  <2>2. ud[u].rewardPerTokenPaid <= new.rewardPerTokenStored
    BY <1>2, <2>1
  <2> QED BY <1>1, <2>2
<1>5. /\ \A u \in 1..n : /\ vd[u] \in UserDataType
                                   /\ vd[u].rewardPerTokenPaid <= new.rewardPerTokenStored
      /\ DebtsToAll(b, ud, new, n) \in Int /\ DebtsToAll(c, vd, new, n) \in Int
      /\ DebtsToAll(c, vd, new, n) <= DebtsToAll(b, ud, new, n)
  <2>1. \A u \in 1..n :
          u \in users => vd[u] = Settled(ud[u], b[u], new.rewardPerTokenStored)
    BY <1>2 DEF S
  <2> QED BY <1>2, <1>4, <2>1, SettleKeepsDebts
<1>6. /\ Precision * ToRelease(new) \in Int /\ Precision * q \in Int /\ Precision * h \in Int
      /\ StreamDebt(b, ud, rd, n) \in Int
  <2>1. Precision \in Int
    BY PrecisionAssumption
  <2>2. ToRelease(new) \in Int /\ ToRelease(rd) \in Int
    BY <1>1, <1>2 DEF ToRelease, RewardDataType
  <2>3. DebtsToAll(b, ud, rd, n) \in Int
    BY <1>1, <1>4, DebtsAreInt
  <2> QED BY <2>1, <2>2, <2>3, <1>1 DEF StreamDebt
<1>7. StreamDebt(c, vd, new, n) + Precision * q <= Precision * h
  BY <1>1, <1>3, <1>5, <1>6 DEF StreamDebt
<1> QED BY <1>1, <1>2, <1>5, <1>7 DEF StreamFine, new, S

\* Paying an account its settled rewards.
LEMMA PaidFine ==
  ASSUME NEW n \in Nat, NEW rd, NEW ud, NEW vd, NEW q, NEW h, NEW b, NEW t \in Nat,
         NEW j \in 1..n,
         StreamFine(n, rd, ud, q, h, b, t),
         \A u \in 1..n : b[u] \in Nat,
         \A u \in 1..n : u # j => vd[u] = ud[u],
         vd[j] = [ud[j] EXCEPT !.rewards = 0],
         ud[j].rewards <= h
  PROVE  StreamFine(n, rd, vd, q, h - ud[j].rewards, b, t)
<1>1. /\ rd \in RewardDataType /\ q \in Nat /\ h \in Nat
      /\ rd.lastUpdateTime <= t /\ rd.lastUpdateTime <= rd.periodFinish
      /\ \A u \in 1..n : /\ ud[u] \in UserDataType
                                   /\ ud[u].rewardPerTokenPaid <= rd.rewardPerTokenStored
      /\ StreamDebt(b, ud, rd, n) + Precision * q <= Precision * h
  BY DEF StreamFine
<1>2. \A u \in 1..n : b[u] \in Nat /\ ud[u] \in UserDataType
  BY <1>1
<1>3. /\ \A u \in 1..n : /\ vd[u] \in UserDataType
                                   /\ vd[u].rewardPerTokenPaid = ud[u].rewardPerTokenPaid
      /\ DebtsToAll(b, vd, rd, n) \in Int
      /\ DebtsToAll(b, vd, rd, n)
           = DebtsToAll(b, ud, rd, n) - Precision * ud[j].rewards
  <2>1. /\ rd \in RewardDataType
        /\ \A u \in 1..n : u # j => vd[u] = ud[u]
    BY <1>1
  <2>2. /\ vd[j] \in UserDataType /\ vd[j].rewards = 0
        /\ vd[j].rewardPerTokenPaid = ud[j].rewardPerTokenPaid
    BY <1>1 DEF UserDataType
  <2> QED BY ONLY n \in Nat, j \in 1..n, <2>1, <2>2, <1>2, PayLowersDebts
<1>4. ud[j].rewards \in Nat /\ h - ud[j].rewards \in Nat /\ Precision \in Int
  BY <1>1, PrecisionAssumption DEF UserDataType
<1>5. /\ Precision * (h - ud[j].rewards) = Precision * h - Precision * ud[j].rewards
      /\ Precision * h \in Int /\ Precision * ud[j].rewards \in Int /\ Precision * q \in Int
  BY <1>1, <1>4, Distributes
<1>6. Precision * ToRelease(rd) \in Int /\ DebtsToAll(b, ud, rd, n) \in Int
  <2>1. ToRelease(rd) \in Int
    BY <1>1 DEF ToRelease, RewardDataType
  <2> QED BY <2>1, <1>1, <1>2, <1>4, DebtsAreInt
<1>7. StreamDebt(b, vd, rd, n) + Precision * q <= Precision * (h - ud[j].rewards)
  BY <1>1, <1>3, <1>5, <1>6 DEF StreamDebt
<1> QED BY <1>1, <1>3, <1>4, <1>7 DEF StreamFine

\* A new stream of all that waits and what comes in.
LEMMA NotifiedFine ==
  ASSUME NEW n \in Nat, NEW rd, NEW ud, NEW q, NEW h, NEW b, NEW t \in Nat, NEW amount \in Nat,
         StreamFine(n, rd, ud, q, h, b, t),
         \A u \in 1..n : b[u] \in Nat
  PROVE  StreamFine(n, Notified(Refreshed(rd, SumTo(b, n), t), amount + q, t), ud, 0, h + amount, b, t)
<1> DEFINE new == Refreshed(rd, SumTo(b, n), t)
           next == Notified(new, amount + q, t)
<1>0. SumTo(b, n) \in Nat
  BY SumToNat
<1>1. /\ rd \in RewardDataType /\ q \in Nat /\ h \in Nat
      /\ rd.lastUpdateTime <= t /\ rd.lastUpdateTime <= rd.periodFinish
      /\ \A u \in 1..n : /\ ud[u] \in UserDataType
                                   /\ ud[u].rewardPerTokenPaid <= rd.rewardPerTokenStored
      /\ StreamDebt(b, ud, rd, n) + Precision * q <= Precision * h
  BY DEF StreamFine
<1>2. /\ new \in RewardDataType /\ rd.rewardPerTokenStored <= new.rewardPerTokenStored
  BY <1>0, <1>1, RefreshedType
<1>3. \A u \in 1..n : b[u] \in Nat /\ ud[u] \in UserDataType
  BY <1>1
<1>4. amount + q \in Nat
  BY <1>1
<1>5. StreamDebt(b, ud, next, n)
        <= StreamDebt(b, ud, rd, n) + Precision * (amount + q)
  BY <1>1, <1>3, <1>4, NotifyKeepsDebt
<1>6. /\ next \in RewardDataType /\ next.lastUpdateTime = t /\ t <= next.periodFinish
      /\ next.rewardPerTokenStored = new.rewardPerTokenStored
  BY <1>2, <1>4, NotifiedType
<1> HIDE DEF new, next
<1>7. \A u \in 1..n : ud[u].rewardPerTokenPaid <= next.rewardPerTokenStored
  <2> SUFFICES ASSUME NEW u \in 1..n
               PROVE  ud[u].rewardPerTokenPaid <= next.rewardPerTokenStored
    OBVIOUS
  <2>1. /\ ud[u].rewardPerTokenPaid \in Nat /\ ud[u].rewardPerTokenPaid <= rd.rewardPerTokenStored
        /\ rd.rewardPerTokenStored \in Nat /\ new.rewardPerTokenStored \in Nat
    BY <1>1, <1>2 DEF UserDataType, RewardDataType
  <2> QED BY <2>1, <1>2, <1>6
<1>8. /\ Precision * (amount + q) = Precision * amount + Precision * q
      /\ Precision * (h + amount) = Precision * h + Precision * amount
      /\ Precision * h \in Int /\ Precision * amount \in Int /\ Precision * q \in Int
      /\ Precision * 0 = 0
  <2>1. Precision \in Int /\ amount \in Int /\ q \in Int /\ h \in Int
    BY <1>1, PrecisionAssumption
  <2> QED BY <2>1, Distributes
<1>9. StreamDebt(b, ud, rd, n) \in Int /\ StreamDebt(b, ud, next, n) \in Int
  <2>1. ToRelease(rd) \in Int /\ ToRelease(next) \in Int /\ Precision \in Int
    BY <1>1, <1>6, PrecisionAssumption DEF ToRelease, RewardDataType
  <2>2. DebtsToAll(b, ud, rd, n) \in Int /\ DebtsToAll(b, ud, next, n) \in Int
    BY <1>1, <1>3, <1>6, DebtsAreInt
  <2> QED BY <2>1, <2>2 DEF StreamDebt
<1>10. StreamDebt(b, ud, next, n) + Precision * 0 <= Precision * (h + amount)
  BY <1>1, <1>5, <1>8, <1>9
<1>11. h + amount \in Nat /\ 0 \in Nat /\ next.lastUpdateTime <= t
       /\ next.lastUpdateTime <= next.periodFinish
  BY <1>1, <1>6
<1>12. StreamFine(n, next, ud, 0, h + amount, b, t)
  BY <1>1, <1>6, <1>7, <1>10, <1>11 DEF StreamFine
<1> QED BY <1>12 DEF new, next

\* A reward that waits, or exceeds the cap and does not even that.
LEMMA FundedFine ==
  ASSUME NEW rd, NEW ud, NEW q, NEW h, NEW b, NEW t \in Nat, NEW amount \in Nat,
         NEW n \in Nat, \A u \in 1..n : b[u] \in Nat,
         StreamFine(n, rd, ud, q, h, b, t)
  PROVE  /\ StreamFine(n, rd, ud, amount + q, h + amount, b, t)
         /\ StreamFine(n, rd, ud, q, h + amount, b, t)
<1>1. /\ rd \in RewardDataType /\ q \in Nat /\ h \in Nat
      /\ \A u \in 1..n : ud[u] \in UserDataType
      /\ StreamDebt(b, ud, rd, n) + Precision * q <= Precision * h
  BY DEF StreamFine
<1>2. /\ Precision * (amount + q) = Precision * amount + Precision * q
      /\ Precision * (h + amount) = Precision * h + Precision * amount
      /\ Precision * h \in Int /\ Precision * amount \in Nat /\ Precision * q \in Int
  <2>1. Precision \in Nat /\ Precision \in Int /\ amount \in Int /\ q \in Int /\ h \in Int
    BY <1>1, PrecisionAssumption
  <2>2. Precision * amount \in Nat
    BY <2>1, MulNat
  <2> QED BY <2>1, <2>2, Distributes
<1>3. StreamDebt(b, ud, rd, n) \in Int
  <2>1. ToRelease(rd) \in Int /\ Precision \in Int
    BY <1>1, PrecisionAssumption DEF ToRelease, RewardDataType
  <2>2. DebtsToAll(b, ud, rd, n) \in Int
    BY <1>1, DebtsAreInt
  <2> QED BY <2>1, <2>2 DEF StreamDebt
<1>4. /\ StreamDebt(b, ud, rd, n) + Precision * (amount + q) <= Precision * (h + amount)
      /\ StreamDebt(b, ud, rd, n) + Precision * q <= Precision * (h + amount)
  BY <1>1, <1>2, <1>3
<1>5. h + amount \in Nat /\ amount + q \in Nat
  BY <1>1
<1> QED BY <1>4, <1>5 DEF StreamFine

\* Time passes.
LEMMA LaterFine ==
  ASSUME NEW n, NEW rd, NEW ud, NEW q, NEW h, NEW b, NEW t \in Nat,
         StreamFine(n, rd, ud, q, h, b, t)
  PROVE  StreamFine(n, rd, ud, q, h, b, t + 1)
<1>1. rd.lastUpdateTime <= t /\ rd.lastUpdateTime \in Nat
  BY DEF StreamFine, RewardDataType
<1>2. rd.lastUpdateTime <= t + 1
  BY <1>1
<1> QED BY <1>2 DEF StreamFine

\* An account that leaves gives up what it has not settled.
LEMMA LeftFine ==
  ASSUME NEW n \in Nat, NEW rd, NEW ud, NEW q, NEW h, NEW b, NEW c, NEW t \in Nat,
         StreamFine(n, rd, ud, q, h, b, t),
         \A u \in 1..n : b[u] \in Nat /\ c[u] \in Nat /\ c[u] <= b[u]
  PROVE  StreamFine(n, rd, ud, q, h, c, t)
<1> DEFINE f == [u \in 1..n |-> DebtTo(c, ud, rd, u)]
           g == [u \in 1..n |-> DebtTo(b, ud, rd, u)]
<1>1. /\ rd \in RewardDataType /\ q \in Nat /\ h \in Nat
      /\ rd.lastUpdateTime <= t /\ rd.lastUpdateTime <= rd.periodFinish
      /\ \A u \in 1..n : ud[u] \in UserDataType /\ ud[u].rewardPerTokenPaid <= rd.rewardPerTokenStored
      /\ StreamDebt(b, ud, rd, n) + Precision * q <= Precision * h
  BY DEF StreamFine
<1>2. ASSUME NEW u \in 1..n PROVE f[u] \in Int /\ g[u] \in Int /\ f[u] <= g[u]
  <2> DEFINE gap == rd.rewardPerTokenStored - ud[u].rewardPerTokenPaid
             settled == Precision * ud[u].rewards
  <2>1. gap \in Nat /\ gap \in Int
    BY <1>1 DEF RewardDataType, UserDataType
  <2>2. settled \in Int
    BY <1>1, PrecisionAssumption, MulNat DEF UserDataType
  <2>3. f[u] = c[u] * gap + settled /\ g[u] = b[u] * gap + settled
    BY DEF DebtTo
  <2> HIDE DEF gap, settled, f, g
  <2>4. c[u] * gap <= b[u] * gap /\ c[u] * gap \in Int /\ b[u] * gap \in Int
    <3>1. gap * c[u] <= gap * b[u]
      BY <2>1, MulMonotone
    <3> QED BY <3>1, <2>1
  <2> QED BY <2>2, <2>3, <2>4
<1>3. DebtsToAll(c, ud, rd, n) = SumTo(f, n) /\ DebtsToAll(b, ud, rd, n) = SumTo(g, n)
  BY DEF DebtsToAll
<1> HIDE DEF f, g
<1>4. DebtsToAll(c, ud, rd, n) <= DebtsToAll(b, ud, rd, n)
  BY <1>2, <1>3, SumToMonotone
<1>5. DebtsToAll(b, ud, rd, n) \in Int /\ DebtsToAll(c, ud, rd, n) \in Int
  BY <1>1, DebtsAreInt
<1>6. Precision * ToRelease(rd) \in Int /\ Precision * q \in Int /\ Precision * h \in Int
  BY <1>1, PrecisionAssumption DEF ToRelease, RewardDataType
<1>7. StreamDebt(c, ud, rd, n) + Precision * q <= Precision * h
  BY <1>1, <1>4, <1>5, <1>6 DEF StreamDebt
<1> QED BY <1>1, <1>7 DEF StreamFine

\* A stream that has released nothing and will not, among accounts that have nothing,
\* whatever the balances.
LEMMA EmptyFine ==
  ASSUME NEW n \in Nat, NEW rd \in RewardDataType, NEW ud, NEW h \in Nat, NEW b, NEW t \in Nat,
         rd.lastUpdateTime <= t, rd.lastUpdateTime <= rd.periodFinish,
         rd.rewardRate = 0, rd.rewardPerTokenStored = 0,
         \A u \in 1..n : b[u] \in Nat /\ ud[u] = NoUserData
  PROVE  StreamFine(n, rd, ud, 0, h, b, t)
<1> DEFINE f == [u \in 1..n |-> DebtTo(b, ud, rd, u)]
           z == [u \in 1..n |-> 0]
<1>1. Precision \in Nat
  BY PrecisionAssumption
<1>2. NoUserData \in UserDataType /\ NoUserData.rewardPerTokenPaid = 0
  BY DEF NoUserData, UserDataType
<1>3. \A u \in 1..n : z[u] \in Int /\ f[u] = z[u]
  <2> SUFFICES ASSUME NEW u \in 1..n PROVE f[u] = 0
    OBVIOUS
  <2>1. b[u] \in Nat /\ ud[u].rewardPerTokenPaid = 0 /\ ud[u].rewards = 0
    BY DEF NoUserData
  <2>2. b[u] * (0 - 0) + Precision * 0 = 0
    BY <1>1, <2>1
  <2> QED BY <2>1, <2>2 DEF DebtTo
<1>4. SumTo(z, n) = 0
  BY SumOfZeros
<1>5. DebtsToAll(b, ud, rd, n) = SumTo(f, n)
  BY DEF DebtsToAll
<1> HIDE DEF f, z
<1>6. DebtsToAll(b, ud, rd, n) = 0
  BY <1>3, <1>4, <1>5, SumToCongruence
<1>7. ToRelease(rd) = 0
  BY DEF ToRelease, RewardDataType
<1>8. Precision * 0 = 0 /\ Precision * h \in Nat
  BY <1>1, MulNat
<1>9. StreamDebt(b, ud, rd, n) + Precision * 0 <= Precision * h
  BY <1>6, <1>7, <1>8 DEF StreamDebt
<1> QED BY <1>2, <1>9 DEF StreamFine

\* A pool that never streamed.
LEMMA IdleFine ==
  ASSUME NEW n \in Nat, NEW ud, NEW h \in Nat, NEW b, NEW t \in Nat,
         \A u \in 1..n : b[u] \in Nat /\ ud[u] = NoUserData
  PROVE  StreamFine(n, NoRewardData, ud, 0, h, b, t)
<1>1. /\ NoRewardData \in RewardDataType
      /\ NoRewardData.lastUpdateTime = 0 /\ NoRewardData.periodFinish = 0
      /\ NoRewardData.rewardRate = 0 /\ NoRewardData.rewardPerTokenStored = 0
  BY DEF NoRewardData, RewardDataType
<1> HIDE DEF NoRewardData
<1> QED BY <1>1, EmptyFine

----------------------------------------------------------------------------------
(* Earnings *)

\* What has been released since the last update, in units of 1/Precision.
LEMMA ReleasedType ==
  ASSUME NEW rd \in RewardDataType, NEW t \in Nat,
         rd.lastUpdateTime <= t, rd.lastUpdateTime <= rd.periodFinish
  PROVE  /\ LastTimeRewardApplicable(rd, t) \in Nat
         /\ rd.rewardRate \in Nat /\ rd.rewardPerTokenStored \in Nat /\ Precision \in Nat
         /\ (LastTimeRewardApplicable(rd, t) - rd.lastUpdateTime) * rd.rewardRate * Precision \in Nat
<1> DEFINE elapsed == LastTimeRewardApplicable(rd, t) - rd.lastUpdateTime
<1>1. /\ LastTimeRewardApplicable(rd, t) \in Nat /\ elapsed \in Nat
      /\ rd.rewardRate \in Nat /\ rd.rewardPerTokenStored \in Nat /\ Precision \in Nat
  BY PrecisionAssumption DEF LastTimeRewardApplicable, AtMost, RewardDataType
<1> HIDE DEF elapsed
<1>2. elapsed * rd.rewardRate \in Nat
  BY <1>1, MulNat
<1>3. elapsed * rd.rewardRate * Precision \in Nat
  BY <1>1, <1>2, MulNat
<1> QED BY <1>1, <1>3 DEF elapsed

\* The accumulator, read at once after a stream is settled, is what was stored.
LEMMA RefreshedPerToken ==
  ASSUME NEW rd \in RewardDataType, NEW supply \in Nat, NEW later \in Nat, NEW t \in Nat,
         rd.lastUpdateTime <= t, rd.lastUpdateTime <= rd.periodFinish
  PROVE  /\ RewardPerToken(Refreshed(rd, supply, t), later, t) = RewardPerToken(rd, supply, t)
         /\ RewardPerToken(rd, supply, t) \in Nat
         /\ rd.rewardPerTokenStored <= RewardPerToken(rd, supply, t)
<1> DEFINE new == Refreshed(rd, supply, t)
<1>1. new \in RewardDataType /\ rd.rewardPerTokenStored <= new.rewardPerTokenStored
  BY RefreshedType
<1>2. /\ new.rewardPerTokenStored = RewardPerToken(rd, supply, t)
      /\ new.lastUpdateTime = LastTimeRewardApplicable(rd, t)
      /\ new.periodFinish = rd.periodFinish
  BY DEF Refreshed, RewardDataType
<1>3. LastTimeRewardApplicable(new, t) = LastTimeRewardApplicable(rd, t)
  BY <1>2 DEF LastTimeRewardApplicable
<1>4. LastTimeRewardApplicable(rd, t) \in Nat
  BY ReleasedType
<1>5. new.rewardPerTokenStored \in Nat /\ new.rewardRate \in Nat
  BY <1>1 DEF RewardDataType
<1> HIDE DEF new
<1>6. (LastTimeRewardApplicable(new, t) - new.lastUpdateTime) * new.rewardRate * Precision = 0
  <2>1. LastTimeRewardApplicable(new, t) - new.lastUpdateTime = 0
    BY <1>2, <1>3, <1>4
  <2>2. 0 * new.rewardRate = 0 /\ 0 * Precision = 0
    BY <1>5, PrecisionAssumption
  <2> QED BY <2>1, <2>2
<1>7. RewardPerToken(new, later, t) = new.rewardPerTokenStored
  <2>1. CASE later = 0
    BY <2>1 DEF RewardPerToken
  <2>2. CASE later # 0
    <3>1. 0 \div later = 0
      BY <2>2
    <3>2. RewardPerToken(new, later, t) = new.rewardPerTokenStored + (0 \div later)
      BY <2>2, <1>6 DEF RewardPerToken
    <3> QED BY <3>1, <3>2, <1>5
  <2> QED BY <2>1, <2>2
<1> QED BY <1>1, <1>2, <1>5, <1>7 DEF new

\* A stream that starts has released nothing yet.
LEMMA NotifiedPerToken ==
  ASSUME NEW rd \in RewardDataType, NEW reward \in Nat, NEW supply \in Nat, NEW t \in Nat
  PROVE  RewardPerToken(Notified(rd, reward, t), supply, t) = rd.rewardPerTokenStored
<1> DEFINE new == Notified(rd, reward, t)
<1>1. /\ new \in RewardDataType /\ new.lastUpdateTime = t /\ t <= new.periodFinish
      /\ new.rewardPerTokenStored = rd.rewardPerTokenStored
  BY NotifiedType
<1> HIDE DEF new
<1>2. /\ new.rewardPerTokenStored \in Nat /\ new.rewardRate \in Nat
  BY <1>1 DEF RewardDataType
<1>3. (LastTimeRewardApplicable(new, t) - new.lastUpdateTime) * new.rewardRate * Precision = 0
  <2>1. LastTimeRewardApplicable(new, t) - new.lastUpdateTime = 0
    BY <1>1 DEF LastTimeRewardApplicable, AtMost
  <2>2. 0 * new.rewardRate = 0 /\ 0 * Precision = 0
    BY <1>2, PrecisionAssumption
  <2> QED BY <2>1, <2>2
<1>4. RewardPerToken(new, supply, t) = new.rewardPerTokenStored
  <2>1. CASE supply = 0
    BY <2>1 DEF RewardPerToken
  <2>2. CASE supply # 0
    <3>1. 0 \div supply = 0
      BY <2>2
    <3>2. RewardPerToken(new, supply, t) = new.rewardPerTokenStored + (0 \div supply)
      BY <2>2, <1>3 DEF RewardPerToken
    <3> QED BY <3>1, <3>2, <1>2
  <2> QED BY <2>1, <2>2
<1> QED BY <1>1, <1>4 DEF new

\* As time passes, or as the supply shrinks but does not vanish, the accumulator grows.
LEMMA PerTokenGrows ==
  ASSUME NEW rd \in RewardDataType, NEW supply \in Nat, NEW less \in Nat, NEW t \in Nat,
         NEW later \in Nat, t <= later, less <= supply, less > 0 \/ less = supply,
         rd.lastUpdateTime <= t, rd.lastUpdateTime <= rd.periodFinish
  PROVE  RewardPerToken(rd, supply, t) <= RewardPerToken(rd, less, later)
<1> DEFINE x == (LastTimeRewardApplicable(rd, t) - rd.lastUpdateTime) * rd.rewardRate * Precision
           y == (LastTimeRewardApplicable(rd, later) - rd.lastUpdateTime) * rd.rewardRate * Precision
<1>1. rd.lastUpdateTime <= later /\ rd.lastUpdateTime \in Nat /\ rd.periodFinish \in Nat
  BY DEF RewardDataType
<1>2. x \in Nat /\ y \in Nat /\ rd.rewardRate \in Nat /\ rd.rewardPerTokenStored \in Nat /\ Precision \in Nat
  BY <1>1, ReleasedType
<1>3. x <= y
  <2> DEFINE a == LastTimeRewardApplicable(rd, t) - rd.lastUpdateTime
             b == LastTimeRewardApplicable(rd, later) - rd.lastUpdateTime
  <2>1. a \in Nat /\ b \in Nat /\ a <= b
    BY <1>1 DEF LastTimeRewardApplicable, AtMost
  <2>2. x = a * rd.rewardRate * Precision /\ y = b * rd.rewardRate * Precision
    OBVIOUS
  <2> HIDE DEF a, b, x, y
  <2>3. rd.rewardRate * a <= rd.rewardRate * b
    BY <2>1, <1>2, MulMonotone
  <2>4. Precision * (rd.rewardRate * a) <= Precision * (rd.rewardRate * b)
    <3>1. rd.rewardRate * a \in Int /\ rd.rewardRate * b \in Int
      BY <2>1, <1>2
    <3> QED BY <3>1, <2>3, <1>2, MulMonotone
  <2>5. a * rd.rewardRate * Precision = Precision * (rd.rewardRate * a)
    BY <2>1, <1>2
  <2>6. b * rd.rewardRate * Precision = Precision * (rd.rewardRate * b)
    BY <2>1, <1>2
  <2> QED BY <2>2, <2>4, <2>5, <2>6
<1>4. /\ supply # 0 => RewardPerToken(rd, supply, t) = rd.rewardPerTokenStored + (x \div supply)
      /\ supply = 0 => RewardPerToken(rd, supply, t) = rd.rewardPerTokenStored
      /\ less # 0 => RewardPerToken(rd, less, later) = rd.rewardPerTokenStored + (y \div less)
      /\ less = 0 => RewardPerToken(rd, less, later) = rd.rewardPerTokenStored
  BY DEF RewardPerToken
<1> HIDE DEF x, y
<1>5. CASE less = 0
  BY <1>2, <1>4, <1>5
<1>6. CASE less > 0
  <2>1. x \div supply <= x \div less
    BY <1>2, <1>6, DivAntitone
  <2>2. x \div less <= y \div less
    BY <1>2, <1>3, <1>6, DivMonotone
  <2>3. x \div supply \in Nat /\ x \div less \in Nat /\ y \div less \in Nat
    BY <1>2, <1>6, DivRoundsDown
  <2> QED BY <2>1, <2>2, <2>3, <1>2, <1>4, <1>6
<1> QED BY <1>5, <1>6

\* What an account has earned grows with the accumulator.
LEMMA EarnedGrows ==
  ASSUME NEW ud \in UserDataType, NEW balance \in Nat, NEW p \in Nat, NEW q \in Nat,
         ud.rewardPerTokenPaid <= p, p <= q
  PROVE  /\ Earned(ud, balance, p) \in Nat
         /\ ud.rewards <= Earned(ud, balance, p)
         /\ Earned(ud, balance, p) <= Earned(ud, balance, q)
<1> DEFINE a == p - ud.rewardPerTokenPaid
           b == q - ud.rewardPerTokenPaid
<1>1. a \in Nat /\ b \in Nat /\ a <= b /\ ud.rewards \in Nat /\ Precision \in Nat /\ Precision > 0
  BY PrecisionAssumption DEF UserDataType
<1>2. /\ Earned(ud, balance, p) = ((balance * a) \div Precision) + ud.rewards
      /\ Earned(ud, balance, q) = ((balance * b) \div Precision) + ud.rewards
  BY DEF Earned
<1> HIDE DEF a, b
<1>3. balance * a \in Nat /\ balance * b \in Nat /\ balance * a <= balance * b
  BY <1>1, MulNat, MulMonotone
<1>4. (balance * a) \div Precision <= (balance * b) \div Precision
      /\ (balance * a) \div Precision \in Nat /\ (balance * b) \div Precision \in Nat
  BY <1>1, <1>3, DivMonotone, DivRoundsDown
<1> QED BY <1>1, <1>2, <1>4

\* Settling an account neither adds to nor takes from what it has earned, whatever
\* becomes of its balance.
LEMMA SettledEarns ==
  ASSUME NEW ud \in UserDataType, NEW balance \in Nat, NEW c \in Nat, NEW p \in Nat,
         ud.rewardPerTokenPaid <= p
  PROVE  Earned(Settled(ud, balance, p), c, p) = Earned(ud, balance, p)
<1>1. Earned(ud, balance, p) \in Nat
  BY EarnedGrows
<1>2. Settled(ud, balance, p).rewardPerTokenPaid = p /\ Settled(ud, balance, p).rewards = Earned(ud, balance, p)
  BY DEF Settled
<1>3. c * (p - p) = 0 /\ 0 \div Precision = 0
  BY PrecisionAssumption
<1> QED BY <1>1, <1>2, <1>3 DEF Earned

\* An account that has been paid out has earned nothing since.
LEMMA PaidEarns ==
  ASSUME NEW ud, NEW c \in Nat, NEW p \in Nat,
         ud.rewardPerTokenPaid = p
  PROVE  ud.rewards \in Int => Earned(ud, c, p) = ud.rewards
<1>1. c * (p - p) = 0 /\ 0 \div Precision = 0
  BY PrecisionAssumption
<1> QED BY <1>1 DEF Earned
=================================================================================
