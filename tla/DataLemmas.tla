----------------------------- MODULE DataLemmas ------------------------------
(***************************************************************************)
(* What the proofs need to know of numbers and sequences.  A set of        *)
(* naturals has a least element, a bounded one has a greatest, and the     *)
(* elements of a finite one can be told by how many are not above them.    *)
(* What running sums are, and that a cut which goes as far as it can at    *)
(* every step has the fewest parts.  What it is to join sequences.         *)
(***************************************************************************)
EXTENDS Integers, FiniteSets, SequencesExt, RunningSum, FiniteSetTheorems,
        WellFoundedInduction, TLAPS

\* A set of naturals that is not empty has a least element.
LEMMA LeastElement ==
    ASSUME NEW S \in SUBSET Nat, S # {}
    PROVE  \E x \in S : \A y \in S : x <= y
<1> DEFINE R == OpToRel(<, Nat)
<1>1. IsWellFoundedOn(R, Nat)
  BY NatLessThanWellFounded
<1>2. PICK x \in S : \A y \in S : ~ (<<y, x>> \in R)
  <2> HIDE DEF R
  <2>1. S \subseteq Nat
    OBVIOUS
  <2>2. QED
    BY <1>1, <2>1, WFMin
<1>3. ASSUME NEW y \in S
      PROVE  x <= y
  <2>1. x \in Nat /\ y \in Nat
    OBVIOUS
  <2>2. ~ (y < x)
    BY <1>2, <2>1 DEF OpToRel
  <2>3. QED
    BY <2>1, <2>2
<1>4. QED
  BY <1>3

\* A set of naturals that is not empty and has a bound has a greatest element.
LEMMA GreatestElement ==
    ASSUME NEW S \in SUBSET Nat, S # {},
           NEW n \in Nat, \A y \in S : y <= n
    PROVE  \E x \in S : \A y \in S : y <= x
<1> DEFINE T == {n - y : y \in S}
<1>1. T \in SUBSET Nat /\ T # {}
  <2>1. \A y \in S : n - y \in Nat
    <3>1. \A y \in S : y \in Nat /\ y <= n
      OBVIOUS
    <3>2. QED
      BY <3>1
  <2>2. QED
    BY <2>1
<1>2. PICK t \in T : \A u \in T : t <= u
  <2> HIDE DEF T
  <2>1. QED
    BY <1>1, LeastElement
<1>3. PICK x \in S : t = n - x
  OBVIOUS
<1>4. ASSUME NEW y \in S
      PROVE  y <= x
  <2>1. n - x <= n - y
    BY <1>2, <1>3
  <2>2. x \in Nat /\ y \in Nat
    OBVIOUS
  <2>3. QED
    BY <2>1, <2>2
<1>5. QED
  BY <1>4

\* A property of numbers that holds of zero and passes on to the next number
\* holds of all: the property is given as the set of the numbers that have it.
LEMMA Induction ==
    ASSUME NEW S, 0 \in S, \A n \in Nat : n \in S => n + 1 \in S
    PROVE  Nat \subseteq S
<1> SUFFICES ASSUME Nat \ S # {}
             PROVE  FALSE
  OBVIOUS
<1>1. PICK m \in Nat \ S : \A k \in Nat \ S : m <= k
  BY LeastElement
<1>2. m - 1 \in Nat /\ m - 1 \notin Nat \ S
  BY <1>1
<1>3. QED
  BY <1>1, <1>2

------------------------------------------------------------------------------
\* The number of elements of K that are not above k.
Rank(K, k) == Cardinality({j \in K : j <= k})

\* Ranks are numbers, of elements positive, and grow with the element.
LEMMA RankGrows ==
    ASSUME NEW m \in Nat, NEW K \in SUBSET (1..m)
    PROVE  /\ IsFiniteSet(K) /\ Cardinality(K) \in Nat
           /\ \A k \in K : Rank(K, k) \in 1..Cardinality(K)
           /\ \A j, k \in K : j < k => Rank(K, j) < Rank(K, k)
<1> DEFINE Below(k) == {j \in K : j <= k}
<1>0. \A k \in K : k \in Nat
  OBVIOUS
<1>1. IsFiniteSet(K) /\ Cardinality(K) \in Nat
  <2>1. IsFiniteSet(1..m)
    BY FS_Interval
  <2>2. QED
    BY <2>1, FS_Subset, FS_CardinalityType
<1>2. \A k \in K : /\ IsFiniteSet(Below(k))
                   /\ Cardinality(Below(k)) \in Nat
                   /\ Cardinality(Below(k)) <= Cardinality(K)
  <2> TAKE k \in K
  <2>1. Below(k) \in SUBSET K
    OBVIOUS
  <2>2. QED
    BY <1>1, <2>1, FS_Subset, FS_CardinalityType
<1>3. ASSUME NEW k \in K
      PROVE  Rank(K, k) \in 1..Cardinality(K)
  <2>1. k \in Below(k)
    OBVIOUS
  <2>2. Cardinality(Below(k)) # 0
    BY <1>2, <2>1, FS_EmptySet
  <2>3. QED
    BY <1>1, <1>2, <2>2 DEF Rank
<1>4. ASSUME NEW j \in K, NEW k \in K, j < k
      PROVE  Rank(K, j) < Rank(K, k)
  <2>1. Below(j) \in SUBSET Below(k)
    <3>1. \A l \in K : l <= j => l <= k
      BY <1>0, <1>4
    <3>2. QED
      BY <3>1
  <2>2. k \in Below(k) /\ k \notin Below(j)
    BY <1>0, <1>4
  <2>3. Below(j) # Below(k)
    BY <2>2
  <2>4. Cardinality(Below(j)) <= Cardinality(Below(k))
          /\ Cardinality(Below(j)) # Cardinality(Below(k))
    BY <1>2, <2>1, <2>3, FS_Subset
  <2>5. QED
    BY <1>2, <2>4 DEF Rank
<1>5. QED
  BY <1>1, <1>3, <1>4

\* Every rank up to the number of elements is the rank of one of them.
LEMMA RankTaken ==
    ASSUME NEW m \in Nat, NEW K \in SUBSET (1..m), NEW n \in 1..Cardinality(K)
    PROVE  \E k \in K : Rank(K, k) = n
<1> DEFINE T == {k \in K : Rank(K, k) >= n}
<1>1. K \subseteq Nat /\ \A k \in K : k <= m
  OBVIOUS
<1>a. /\ IsFiniteSet(K) /\ Cardinality(K) \in Nat
      /\ \A k \in K : Rank(K, k) \in 1..Cardinality(K)
  BY RankGrows, Zenon
<1>b. \A k \in K : Rank(K, k) \in Nat
  BY <1>a
<1>2. K # {}
  BY <1>a, FS_EmptySet
<1>3. PICK g \in K : \A k \in K : k <= g
  BY <1>1, <1>2, GreatestElement
<1>4. Rank(K, g) = Cardinality(K)
  <2>1. {j \in K : j <= g} = K
    BY <1>3
  <2>2. QED
    BY <2>1 DEF Rank
<1>5. g \in T /\ T \subseteq Nat /\ T \subseteq K
  <2>1. Cardinality(K) >= n
    BY <1>a
  <2>2. QED
    BY <1>1, <1>3, <1>4, <2>1
<1>6. PICK k \in T : \A j \in T : k <= j
  BY <1>5, LeastElement
<1>7. SUFFICES ASSUME Rank(K, k) # n
               PROVE  FALSE
  BY <1>6
<1>8. Rank(K, k) \in Nat /\ Rank(K, k) > n /\ n >= 1 /\ k \in K
  BY <1>6, <1>7, <1>a, <1>b
<1> DEFINE Under == {j \in K : j < k}
<1>9. IsFiniteSet(Under) /\ Cardinality(Under) = Rank(K, k) - 1
  <2>1. {j \in K : j <= k} = Under \cup {k} /\ k \notin Under
    <3>1. \A j \in K : j <= k <=> (j < k \/ j = k)
      BY <1>1, <1>8
    <3>2. ~ (k < k)
      BY <1>1, <1>8
    <3>3. QED
      BY <1>8, <3>1, <3>2
  <2>2. IsFiniteSet(Under)
    BY <1>a, FS_Subset, Under \in SUBSET K
  <2>3. Cardinality(Under) \in Nat
    BY <2>2, FS_CardinalityType
  <2>4. Cardinality(Under \cup {k}) = Cardinality(Under) + 1
    BY <2>1, <2>2, FS_AddElement
  <2>5. Rank(K, k) = Cardinality(Under) + 1
    BY <2>1, <2>4 DEF Rank
  <2>6. QED
    BY <2>2, <2>3, <2>5
<1>10. Under # {}
  BY <1>8, <1>9, FS_EmptySet
<1>11. PICK h \in Under : \A j \in Under : j <= h
  BY <1>1, <1>10, GreatestElement
<1>12. {j \in K : j <= h} = Under
  <2>1. \A j \in K : j <= h <=> j < k
    BY <1>1, <1>8, <1>11
  <2>2. QED
    BY <2>1
<1>13. Rank(K, h) = Rank(K, k) - 1
  BY <1>9, <1>12 DEF Rank
<1>14. h \in T /\ h < k
  BY <1>8, <1>11, <1>13, <1>a
<1>15. QED
  BY <1>1, <1>6, <1>14

------------------------------------------------------------------------------
\* A running sum begins with zero, grows by one number at a time, and is a number.
LEMMA RunningSumFacts ==
    ASSUME NEW s \in Seq(Nat)
    PROVE  /\ RunningSum(s) \in [0..Len(s) -> Nat]
           /\ RunningSum(s)[0] = 0
           /\ \A n \in 1..Len(s) : RunningSum(s)[n] = RunningSum(s)[n - 1] + s[n]
<1> DEFINE L == Len(s)
           IsSum(f) == f = [n \in 0..L |-> IF n = 0 THEN 0 ELSE f[n - 1] + s[n]]
           SumsTo(m) == \E f \in [0..L -> Nat] :
                           f[0] = 0 /\ \A n \in 1..m : f[n] = f[n - 1] + s[n]
           upTo == {m \in Nat : m <= L => SumsTo(m)}
<1>1. L \in Nat /\ \A n \in 1..L : s[n] \in Nat
  OBVIOUS
<1>2. 0 \in upTo
  <2> DEFINE zero == [n \in 0..L |-> 0]
  <2>1. zero \in [0..L -> Nat] /\ zero[0] = 0 /\ \A n \in 1..0 : FALSE
    BY <1>1
  <2> HIDE DEF zero
  <2>2. QED
    BY <2>1
<1>3. ASSUME NEW m \in Nat, m \in upTo
      PROVE  m + 1 \in upTo
  <2> SUFFICES ASSUME m + 1 <= L
               PROVE  SumsTo(m + 1)
    <3> HIDE DEF SumsTo
    <3>1. QED
      OBVIOUS
  <2>1. m <= L
    BY <1>1
  <2>2. PICK f \in [0..L -> Nat] : f[0] = 0 /\ \A n \in 1..m : f[n] = f[n - 1] + s[n]
    BY <1>3, <2>1
  <2> DEFINE g == [n \in 0..L |-> IF n = m + 1 THEN f[m] + s[m + 1] ELSE f[n]]
  <2>3. f[m] \in Nat /\ s[m + 1] \in Nat /\ \A n \in 0..L : f[n] \in Nat
    <3>1. m \in 0..L /\ m + 1 \in 1..L
      BY <1>1, <2>1
    <3>2. \A n \in 0..L : f[n] \in Nat
      OBVIOUS
    <3>3. QED
      BY <1>1, <3>1, <3>2
  <2>4. g \in [0..L -> Nat]
    BY <2>3
  <2>5. g[0] = 0
    BY <1>1, <2>2
  <2>6. ASSUME NEW n \in 1..(m + 1)
        PROVE  g[n] = g[n - 1] + s[n]
    <3>1. n \in 0..L /\ n - 1 \in 0..L /\ n - 1 # m + 1
      BY <1>1
    <3>2. CASE n = m + 1
      <4>1. g[n] = f[m] + s[m + 1] /\ g[n - 1] = f[n - 1]
        BY <3>1, <3>2
      <4>2. n - 1 = m
        BY <3>2
      <4> HIDE DEF g
      <4>3. QED
        BY <3>2, <4>1, <4>2
    <3>3. CASE n # m + 1
      <4>1. n \in 1..m
        BY <3>3
      <4>2. g[n] = f[n] /\ g[n - 1] = f[n - 1]
        BY <3>1, <3>3
      <4> HIDE DEF g
      <4>3. QED
        BY <2>2, <4>1, <4>2
    <3>4. QED
      BY <3>2, <3>3
  <2> HIDE DEF g
  <2>7. QED
    BY <2>4, <2>5, <2>6
<1>4. L \in upTo
  <2> HIDE DEF upTo
  <2>1. Nat \subseteq upTo
    BY <1>2, <1>3, Induction
  <2>2. QED
    BY <1>1, <2>1
<1>5. PICK f \in [0..L -> Nat] : f[0] = 0 /\ \A n \in 1..L : f[n] = f[n - 1] + s[n]
  BY <1>1, <1>4
<1>6. \E f1 : IsSum(f1)
  <2>1. \A n \in 0..L : f[n] = IF n = 0 THEN 0 ELSE f[n - 1] + s[n]
    BY <1>1, <1>5
  <2>2. IsSum(f)
    BY <2>1
  <2> HIDE DEF IsSum
  <2>3. QED
    BY <2>2
<1>7. IsSum(RunningSum(s))
  <2>1. RunningSum(s) = CHOOSE f1 : IsSum(f1)
    BY DEF RunningSum
  <2> HIDE DEF IsSum
  <2>2. QED
    BY <1>6, <2>1
<1> DEFINE sum == RunningSum(s)
<1>8. DOMAIN sum = 0..L /\ sum = [n \in 0..L |-> sum[n]] /\ sum[0] = 0
        /\ \A n \in 1..L : sum[n] = sum[n - 1] + s[n]
  <2>1. PICK total : total = sum
    OBVIOUS
  <2>2. total = [n \in 0..L |-> IF n = 0 THEN 0 ELSE total[n - 1] + s[n]]
    BY <1>7, <2>1
  <2>3. /\ DOMAIN total = 0..L
        /\ \A n \in 0..L : total[n] = IF n = 0 THEN 0 ELSE total[n - 1] + s[n]
    BY <2>2
  <2>4. total = [n \in 0..L |-> total[n]]
    BY <2>2
  <2>5. 0 \in 0..L /\ \A n \in 1..L : n \in 0..L /\ n # 0
    BY <1>1
  <2> HIDE DEF sum
  <2>6. QED
    BY <2>1, <2>3, <2>4, <2>5
<1> DEFINE numbers == {m \in Nat : m <= L => sum[m] \in Nat}
<1> HIDE DEF sum
<1>9. Nat \subseteq numbers
  <2>1. 0 \in numbers
    BY <1>8
  <2>2. \A m \in Nat : m \in numbers => m + 1 \in numbers
    <3> SUFFICES ASSUME NEW m \in Nat, m \in numbers, m + 1 <= L
                 PROVE  sum[m + 1] \in Nat
      OBVIOUS
    <3>1. sum[m] \in Nat /\ m + 1 \in 1..L /\ (m + 1) - 1 = m
      BY <1>1
    <3>2. sum[m + 1] = sum[m] + s[m + 1]
      BY <1>8, <3>1
    <3>3. QED
      BY <1>1, <3>1, <3>2
  <2> HIDE DEF numbers
  <2>3. QED
    BY <2>1, <2>2, Induction
<1>10. sum \in [0..L -> Nat]
  <2>1. \A m \in 0..L : sum[m] \in Nat
    BY <1>1, <1>9
  <2>2. QED
    BY <1>8, <2>1
<1>11. QED
  BY <1>8, <1>10 DEF sum

\* A running sum never falls.
LEMMA RunningSumGrows ==
    ASSUME NEW s \in Seq(Nat), NEW i \in 0..Len(s), NEW j \in 0..Len(s), i <= j
    PROVE  RunningSum(s)[i] <= RunningSum(s)[j]
<1> DEFINE sum == RunningSum(s)
           later == {d \in Nat : i + d <= Len(s) => sum[i] <= sum[i + d]}
<1>1. /\ sum \in [0..Len(s) -> Nat] /\ Len(s) \in Nat
      /\ \A n \in 1..Len(s) : sum[n] = sum[n - 1] + s[n]
  BY RunningSumFacts
<1> HIDE DEF sum
<1>2. 0 \in later
  <2>1. sum[i] \in Nat
    BY <1>1
  <2>2. sum[i + 0] = sum[i]
    <3>1. i + 0 = i
      OBVIOUS
    <3>2. QED
      BY <3>1
  <2>3. QED
    BY <2>1, <2>2
<1>3. ASSUME NEW d \in Nat, d \in later
      PROVE  d + 1 \in later
  <2> SUFFICES ASSUME i + (d + 1) <= Len(s)
               PROVE  sum[i] <= sum[i + (d + 1)]
    OBVIOUS
  <2>1. i + d \in 0..Len(s) /\ i + (d + 1) \in 1..Len(s) /\ i + (d + 1) - 1 = i + d
    BY <1>1
  <2>2. sum[i] <= sum[i + d]
    BY <1>3, <2>1
  <2>3. sum[i + (d + 1)] = sum[i + d] + s[i + (d + 1)] /\ s[i + (d + 1)] \in Nat
    BY <1>1, <2>1
  <2>4. sum[i] \in Nat /\ sum[i + d] \in Nat
    BY <1>1, <2>1
  <2>5. QED
    BY <2>2, <2>3, <2>4
<1>4. j - i \in later
  <2> HIDE DEF later
  <2>1. Nat \subseteq later
    BY <1>2, <1>3, Induction
  <2>2. j - i \in Nat
    BY <1>1
  <2>3. QED
    BY <2>1, <2>2
<1>5. i + (j - i) = j /\ j <= Len(s)
  BY <1>1
<1>6. QED
  BY <1>4, <1>5 DEF sum

\* A greedy cut is never behind another one.  The cuts are told by where their parts
\* end, and Runs has the pairs of ends between which a part may lie.  If no part that
\* begins where a greedy one does, or before, may end behind it, then every other cut
\* has ended its k-th part by the end of the greedy one's k-th.
LEMMA GreedyIsAhead ==
    ASSUME NEW n \in Nat, NEW p \in Nat, NEW m \in Nat, m < p,
           NEW greedy \in [0..p -> 0..n],
           NEW other \in [0..m -> 0..n], other[0] = 0,
           NEW Runs, \A k \in 1..m : <<other[k - 1], other[k]>> \in Runs,
           \A k \in 1..(p - 1) : \A i \in 0..greedy[k - 1], j \in (greedy[k] + 1)..n :
              <<i, j>> \notin Runs
    PROVE  other[m] <= greedy[m]
<1> DEFINE behind == {k \in Nat : k <= m => other[k] <= greedy[k]}
<1>1. 0 \in behind
  BY 0 \in 0..p
<1>2. ASSUME NEW k \in Nat, k \in behind
      PROVE  k + 1 \in behind
  <2> SUFFICES ASSUME k + 1 <= m, ~ (other[k + 1] <= greedy[k + 1])
               PROVE  FALSE
    OBVIOUS
  <2>1. /\ k \in 0..m /\ k + 1 \in 0..m /\ k \in 0..p /\ k + 1 \in 0..p
        /\ k + 1 \in 1..m /\ k + 1 \in 1..(p - 1) /\ (k + 1) - 1 = k
    OBVIOUS
  <2>2. other[k] <= greedy[k] /\ other[k] \in 0..n /\ other[k + 1] \in 0..n
          /\ greedy[k] \in 0..n /\ greedy[k + 1] \in 0..n
    BY <1>2, <2>1
  <2>3. other[k] \in 0..greedy[k] /\ other[k + 1] \in (greedy[k + 1] + 1)..n
    BY <2>2
  <2>4. <<other[k], other[k + 1]>> \notin Runs
    BY <2>1, <2>3
  <2>5. <<other[k], other[k + 1]>> \in Runs
    BY <2>1
  <2>6. QED
    BY <2>4, <2>5
<1>3. m \in behind
  <2> HIDE DEF behind
  <2>1. Nat \subseteq behind
    BY <1>1, <1>2, Induction
  <2>2. QED
    BY <2>1
<1>4. QED
  BY <1>3

\* A run of consecutive numbers is as long as it is from its first to its last.
LEMMA RunOfNumbers ==
    ASSUME NEW s \in Seq(Nat), s # <<>>, \A j \in 1..(Len(s) - 1) : s[j + 1] = s[j] + 1
    PROVE  s[Len(s)] = s[1] + (Len(s) - 1)
<1>1. Len(s) \in Nat \ {0} /\ \A j \in 1..Len(s) : s[j] \in Nat
  OBVIOUS
<1> DEFINE upTo == {m \in Nat : m < Len(s) => s[m + 1] = s[1] + m}
<1>2. 0 \in upTo
  BY <1>1
<1>3. ASSUME NEW m \in Nat, m \in upTo
      PROVE  m + 1 \in upTo
  <2> SUFFICES ASSUME m + 1 < Len(s) PROVE s[(m + 1) + 1] = s[1] + (m + 1)
    OBVIOUS
  <2>1. m + 1 \in 1..(Len(s) - 1) /\ m < Len(s)
    BY <1>1
  <2>2. s[(m + 1) + 1] = s[m + 1] + 1 /\ s[m + 1] = s[1] + m
    BY <1>3, <2>1
  <2>3. s[1] \in Nat
    BY <1>1
  <2>4. QED
    BY <2>2, <2>3
<1> HIDE DEF upTo
<1>4. Nat \subseteq upTo
  BY <1>2, <1>3, Induction
<1>5. Len(s) - 1 \in upTo /\ Len(s) - 1 < Len(s) /\ (Len(s) - 1) + 1 = Len(s)
  BY <1>1, <1>4
<1>6. QED
  BY <1>5 DEF upTo

\* If all numbers but one are zero, that one is the sum.
LEMMA RunningSumOfOne ==
    ASSUME NEW s \in Seq(Nat), NEW k \in 1..Len(s), NEW v \in Nat,
           \A j \in 1..Len(s) : s[j] = IF j = k THEN v ELSE 0
    PROVE  RunningSum(s)[Len(s)] = v
<1> DEFINE sum == RunningSum(s)
           upTo == {m \in Nat : m <= Len(s) => sum[m] = IF m < k THEN 0 ELSE v}
<1>1. /\ Len(s) \in Nat /\ k \in Nat /\ k <= Len(s) /\ 0 < k
      /\ sum[0] = 0 /\ \A n \in 1..Len(s) : sum[n] = sum[n - 1] + s[n]
  BY RunningSumFacts
<1> HIDE DEF sum
<1>2. 0 \in upTo
  BY <1>1
<1>3. ASSUME NEW m \in Nat, m \in upTo
      PROVE  m + 1 \in upTo
  <2> SUFFICES ASSUME m + 1 <= Len(s)
               PROVE  sum[m + 1] = IF m + 1 < k THEN 0 ELSE v
    OBVIOUS
  <2>1. m + 1 \in 1..Len(s) /\ (m + 1) - 1 = m /\ m <= Len(s)
    BY <1>1
  <2>2. sum[m + 1] = sum[m] + s[m + 1]
    BY <1>1, <2>1
  <2>3. sum[m] = (IF m < k THEN 0 ELSE v) /\ s[m + 1] = IF m + 1 = k THEN v ELSE 0
    BY <1>3, <2>1
  <2>4. QED
    BY <1>1, <2>2, <2>3
<1> HIDE DEF upTo
<1>4. Nat \subseteq upTo
  BY <1>2, <1>3, Induction
<1>5. Len(s) \in upTo
  BY <1>1, <1>4
<1>6. QED
  BY <1>1, <1>5 DEF upTo, sum

\* A number more at the end adds itself to the sum.
LEMMA RunningSumAppend ==
    ASSUME NEW s \in Seq(Nat), NEW x \in Nat, NEW longer, longer = Append(s, x)
    PROVE  RunningSum(longer)[Len(s) + 1] = RunningSum(s)[Len(s)] + x
<1>1. PICK L : L = Len(s)
  OBVIOUS
<1>2. /\ L \in Nat /\ longer \in Seq(Nat) /\ Len(longer) = L + 1
      /\ longer[L + 1] = x /\ \A n \in 1..L : longer[n] = s[n]
  BY <1>1
<1>3. PICK a, b : a = RunningSum(s) /\ b = RunningSum(longer)
  OBVIOUS
<1>4. /\ a[0] = 0 /\ \A n \in 1..L : a[n] = a[n - 1] + s[n]
      /\ b[0] = 0 /\ \A n \in 1..(L + 1) : b[n] = b[n - 1] + longer[n]
  <2>1. /\ a[0] = 0 /\ \A n \in 1..L : a[n] = a[n - 1] + s[n]
    BY <1>1, <1>3, RunningSumFacts
  <2>2. /\ b[0] = 0 /\ \A n \in 1..Len(longer) : b[n] = b[n - 1] + longer[n]
    BY <1>2, <1>3, RunningSumFacts
  <2>3. QED
    BY <1>2, <2>1, <2>2
<1> DEFINE same == {m \in Nat : m <= L => b[m] = a[m]}
<1>5. 0 \in same
  BY <1>4
<1>6. ASSUME NEW m \in Nat, m \in same
      PROVE  m + 1 \in same
  <2> SUFFICES ASSUME m + 1 <= L PROVE b[m + 1] = a[m + 1]
    OBVIOUS
  <2>1. m + 1 \in 1..L /\ m + 1 \in 1..(L + 1) /\ (m + 1) - 1 = m /\ m <= L
    BY <1>2
  <2>2. b[m] = a[m] /\ longer[m + 1] = s[m + 1]
    BY <1>2, <1>6, <2>1
  <2>3. b[m + 1] = b[m] + longer[m + 1] /\ a[m + 1] = a[m] + s[m + 1]
    BY <1>4, <2>1
  <2>4. QED
    BY <2>2, <2>3
<1>7. L \in same
  <2> HIDE DEF same
  <2>1. Nat \subseteq same
    BY <1>5, <1>6, Induction
  <2>2. QED
    BY <1>2, <2>1
<1>8. b[L] = a[L]
  BY <1>2, <1>7
<1>9. L + 1 \in 1..(L + 1) /\ (L + 1) - 1 = L
  BY <1>2
<1>10. b[L + 1] = b[L] + x
  BY <1>2, <1>4, <1>9
<1>11. QED
  BY <1>1, <1>3, <1>8, <1>10

------------------------------------------------------------------------------
\* A function on 1 to t + 1 that agrees with one on 1 to t is that one with a last
\* element appended.
LEMMA LongerByOne ==
    ASSUME NEW t \in Nat, NEW f, NEW g,
           f = [n \in 1..t |-> f[n]], g = [n \in 1..(t + 1) |-> g[n]],
           \A n \in 1..t : g[n] = f[n]
    PROVE  /\ Len(f) = t /\ (f = <<>> <=> t = 0)
           /\ g = Append(f, g[t + 1])
<1> DEFINE S == {g[n] : n \in 1..(t + 1)}
           longer == Append(f, g[t + 1])
<1>1. \A n \in 1..t : f[n] \in S
  <2>1. \A n \in 1..t : n \in 1..(t + 1) /\ f[n] = g[n]
    OBVIOUS
  <2>2. QED
    BY <2>1
<1>2. g[t + 1] \in S
  OBVIOUS
<1> HIDE DEF S
<1>3. f \in Seq(S) /\ Len(f) = t /\ DOMAIN f = 1..t
  BY <1>1
<1>4. f = <<>> <=> t = 0
  BY <1>3
<1>5. /\ longer \in Seq(S) /\ Len(longer) = t + 1
      /\ longer[t + 1] = g[t + 1] /\ \A n \in 1..t : longer[n] = f[n]
  BY <1>2, <1>3
<1>6. DOMAIN longer = 1..(t + 1)
  <2>1. DOMAIN longer = 1..Len(longer)
    BY <1>5
  <2>2. QED
    BY <1>5, <2>1
<1>7. \A n \in 1..(t + 1) : longer[n] = g[n]
  <2>1. \A n \in 1..(t + 1) : n \in 1..t \/ n = t + 1
    OBVIOUS
  <2>2. QED
    BY <1>5, <2>1
<1>8. longer = [n \in 1..(t + 1) |-> longer[n]]
  BY <1>5, <1>6
<1> HIDE DEF longer
<1>9. longer = g
  BY <1>7, <1>8
<1>10. QED
  BY <1>3, <1>4, <1>9 DEF longer

------------------------------------------------------------------------------
\* Sequences of sequences.

\* Appending and joining in either order give the same sequence.
LEMMA ConcatAppend ==
    ASSUME NEW S, NEW a \in Seq(S), NEW b \in Seq(S), NEW x \in S
    PROVE  /\ a \o b \in Seq(S) /\ a \o <<>> = a /\ <<>> \o a = a
           /\ a \o Append(b, x) = Append(a \o b, x)
<1>1. a \o b \in Seq(S) /\ a \o <<>> = a /\ <<>> \o a = a
  OBVIOUS
<1>2. a \o Append(b, x) = Append(a \o b, x)
  OBVIOUS
<1>3. QED
  BY <1>1, <1>2

\* The values of f are the joins of the first sequences of s, up to the m-th.
Joins(f, s, m) == f[0] = <<>> /\ \A n \in 1..m : f[n] = f[n - 1] \o s[n]

\* Sequences can be joined one after the other.
LEMMA JoinsExist ==
    ASSUME NEW S, NEW s \in Seq(Seq(S))
    PROVE  \E f \in [0..Len(s) -> Seq(S)] : Joins(f, s, Len(s))
<1> DEFINE L == Len(s)
           JoinsTo(m) == \E f \in [0..L -> Seq(S)] :
                           f[0] = <<>> /\ \A n \in 1..m : f[n] = f[n - 1] \o s[n]
           upTo == {m \in Nat : m <= L => JoinsTo(m)}
<1>1. L \in Nat /\ \A n \in 1..L : s[n] \in Seq(S)
  OBVIOUS
<1>2. 0 \in upTo
  <2> DEFINE none == [n \in 0..L |-> <<>>]
  <2>1. none \in [0..L -> Seq(S)] /\ none[0] = <<>> /\ \A n \in 1..0 : FALSE
    BY <1>1
  <2> HIDE DEF none
  <2>2. QED
    BY <2>1
<1>3. ASSUME NEW m \in Nat, m \in upTo
      PROVE  m + 1 \in upTo
  <2> SUFFICES ASSUME m + 1 <= L
               PROVE  JoinsTo(m + 1)
    <3> HIDE DEF JoinsTo
    <3>1. QED
      OBVIOUS
  <2>1. m <= L
    BY <1>1
  <2>2. PICK f \in [0..L -> Seq(S)] :
               f[0] = <<>> /\ \A n \in 1..m : f[n] = f[n - 1] \o s[n]
    BY <1>3, <2>1
  <2> DEFINE longer == f[m] \o s[m + 1]
             g == [n \in 0..L |-> IF n = m + 1 THEN longer ELSE f[n]]
  <2>3. \A n \in 0..L : f[n] \in Seq(S)
    OBVIOUS
  <2>4. longer \in Seq(S)
    <3>1. f[m] \in Seq(S) /\ s[m + 1] \in Seq(S)
      BY <1>1, <2>1, <2>3
    <3>2. QED
      BY <3>1
  <2> HIDE DEF longer
  <2>5. g \in [0..L -> Seq(S)]
    BY <2>3, <2>4
  <2>6. g[0] = <<>>
    BY <1>1, <2>2
  <2>7. ASSUME NEW n \in 1..(m + 1)
        PROVE  g[n] = g[n - 1] \o s[n]
    <3>1. n \in 0..L /\ n - 1 \in 0..L /\ n - 1 # m + 1
      BY <1>1
    <3>2. CASE n = m + 1
      <4>1. g[n] = longer /\ g[n - 1] = f[n - 1]
        BY <3>1, <3>2
      <4>2. n - 1 = m
        BY <3>2
      <4> HIDE DEF g
      <4>3. QED
        BY <3>2, <4>1, <4>2 DEF longer
    <3>3. CASE n # m + 1
      <4>1. n \in 1..m
        BY <3>3
      <4>2. g[n] = f[n] /\ g[n - 1] = f[n - 1]
        BY <3>1, <3>3
      <4> HIDE DEF g
      <4>3. QED
        BY <2>2, <4>1, <4>2
    <3>4. QED
      BY <3>2, <3>3
  <2> HIDE DEF g
  <2>8. QED
    BY <2>5, <2>6, <2>7
<1>4. L \in upTo
  <2> HIDE DEF upTo
  <2>1. Nat \subseteq upTo
    BY <1>2, <1>3, Induction
  <2>2. QED
    BY <1>1, <2>1
<1>5. JoinsTo(L)
  <2> HIDE DEF JoinsTo
  <2>1. QED
    BY <1>1, <1>4
<1>6. QED
  BY <1>5 DEF Joins

\* There is one way to join the first m sequences.
LEMMA JoinsAgree ==
    ASSUME NEW m \in Nat, NEW s, NEW f, NEW g, Joins(f, s, m), Joins(g, s, m)
    PROVE  f[m] = g[m]
<1> DEFINE same == {n \in Nat : n <= m => f[n] = g[n]}
<1>1. 0 \in same
  BY DEF Joins
<1>2. ASSUME NEW n \in Nat, n \in same
      PROVE  n + 1 \in same
  <2> SUFFICES ASSUME n + 1 <= m PROVE f[n + 1] = g[n + 1]
    OBVIOUS
  <2>1. n + 1 \in 1..m /\ (n + 1) - 1 = n
    OBVIOUS
  <2>2. f[n] = g[n]
    BY <1>2, <2>1
  <2>3. QED
    BY <2>1, <2>2 DEF Joins
<1>3. Nat \subseteq same
  <2> HIDE DEF same
  <2>1. QED
    BY <1>1, <1>2, Induction
<1>4. QED
  BY <1>3

\* FlattenSeq joins the sequences one after the other.
LEMMA FlattenJoins ==
    ASSUME NEW S, NEW s \in Seq(Seq(S)),
           NEW f \in [0..Len(s) -> Seq(S)], Joins(f, s, Len(s))
    PROVE  FlattenSeq(s) = f[Len(s)]
<1> DEFINE L == Len(s)
           IsFlat(g) == g = [i \in 1..L |-> IF i = 1 THEN s[i] ELSE g[i - 1] \o s[i]]
<1>1. L \in Nat /\ \A n \in 1..L : s[n] \in Seq(S)
  OBVIOUS
<1>2. CASE L = 0
  <2>1. s = <<>>
    BY <1>2
  <2>2. FlattenSeq(s) = s
    BY <1>2 DEF FlattenSeq
  <2>3. f[Len(s)] = <<>>
    BY <1>2 DEF Joins
  <2> HIDE DEF L
  <2>4. QED
    BY <2>1, <2>2, <2>3
<1>3. CASE L # 0
  <2> DEFINE h == [i \in 1..L |-> f[i]]
  <2>1. IsFlat(h)
    <3>1. ASSUME NEW i \in 1..L
          PROVE  h[i] = IF i = 1 THEN s[i] ELSE h[i - 1] \o s[i]
      <4>1. f[0] = <<>> /\ f[i] = f[i - 1] \o s[i] /\ s[i] \in Seq(S)
        BY <1>1 DEF Joins
      <4>2. CASE i = 1
        <5>1. f[i - 1] = <<>>
          BY <4>1, <4>2
        <5>2. <<>> \o s[i] = s[i]
          BY <4>1
        <5>3. QED
          BY <4>1, <4>2, <5>1, <5>2
      <4>3. CASE i # 1
        <5>1. i - 1 \in 1..L
          BY <4>3, <1>1
        <5>2. QED
          BY <4>1, <4>3, <5>1
      <4>4. QED
        BY <4>2, <4>3
    <3>2. QED
      BY <3>1
  <2>2. PICK flat : flat = CHOOSE g : IsFlat(g)
    OBVIOUS
  <2>3. IsFlat(flat)
    <3> HIDE DEF IsFlat, h
    <3>1. QED
      BY <2>1, <2>2
  <2>4. FlattenSeq(s) = flat[L]
    BY <1>3, <2>2 DEF FlattenSeq
  <2> DEFINE same == {n \in Nat : n + 1 <= L => flat[n + 1] = f[n + 1]}
  <2>5. \A i \in 1..L : flat[i] = IF i = 1 THEN s[i] ELSE flat[i - 1] \o s[i]
    BY <2>3
  <2>6. 0 \in same
    <3>0. 1 \in 1..L /\ 1 - 1 = 0
      BY <1>1, <1>3
    <3>1. 1 \in 1..L /\ f[0] = <<>> /\ f[1] = f[0] \o s[1] /\ s[1] \in Seq(S)
      BY <1>1, <3>0 DEF Joins
    <3>2. <<>> \o s[1] = s[1]
      BY <3>1
    <3>3. flat[1] = f[1]
      BY <2>5, <3>1, <3>2
    <3>4. QED
      BY <3>3
  <2>7. ASSUME NEW n \in Nat, n \in same
        PROVE  n + 1 \in same
    <3> SUFFICES ASSUME (n + 1) + 1 <= L PROVE flat[(n + 1) + 1] = f[(n + 1) + 1]
      OBVIOUS
    <3>1. (n + 1) + 1 \in 1..L /\ ((n + 1) + 1) - 1 = n + 1 /\ (n + 1) + 1 # 1 /\ n + 1 <= L
      BY <1>1
    <3>2. flat[n + 1] = f[n + 1]
      BY <2>7, <3>1
    <3> HIDE DEF IsFlat, h, same
    <3>3. flat[(n + 1) + 1] = flat[((n + 1) + 1) - 1] \o s[(n + 1) + 1]
      BY <2>5, <3>1
    <3>4. f[(n + 1) + 1] = f[((n + 1) + 1) - 1] \o s[(n + 1) + 1]
      BY <3>1 DEF Joins
    <3>5. QED
      BY <3>1, <3>2, <3>3, <3>4
  <2>8. Nat \subseteq same
    <3> HIDE DEF same
    <3>1. QED
      BY <2>6, <2>7, Induction
  <2>9. L - 1 \in Nat /\ (L - 1) + 1 = L /\ L <= L
    BY <1>1, <1>3
  <2>10. flat[L] = f[L]
    <3>1. L - 1 \in same
      BY <2>8, <2>9
    <3>2. QED
      BY <2>9, <3>1
  <2>11. QED
    BY <2>4, <2>10
<1>4. QED
  BY <1>2, <1>3

\* FlattenSeq of a longer sequence of sequences.
LEMMA FlattenAppend ==
    ASSUME NEW S, NEW s \in Seq(Seq(S)), NEW x \in Seq(S)
    PROVE  /\ FlattenSeq(s) \in Seq(S)
           /\ FlattenSeq(Append(s, x)) = FlattenSeq(s) \o x
<1> DEFINE t == Append(s, x)
           L == Len(s)
<1>1. /\ t \in Seq(Seq(S)) /\ L \in Nat /\ Len(t) = L + 1 /\ t[L + 1] = x
      /\ \A n \in 1..L : s[n] = t[n]
  OBVIOUS
<1>2. PICK f \in [0..L -> Seq(S)] : Joins(f, s, L)
  BY JoinsExist
<1> HIDE DEF t
<1>3. PICK g \in [0..Len(t) -> Seq(S)] : Joins(g, t, Len(t))
  BY <1>1, JoinsExist
<1>4. FlattenSeq(s) = f[L] /\ FlattenSeq(t) = g[L + 1]
  BY <1>1, <1>2, <1>3, FlattenJoins
<1>5. f[L] = g[L]
  <2>1. \A n \in 1..L : n \in 1..Len(t)
    BY <1>1
  <2>2. Joins(g, s, L)
    BY <1>1, <1>3, <2>1 DEF Joins
  <2>3. QED
    BY <1>1, <1>2, <2>2, JoinsAgree
<1>6. g[L + 1] = g[L] \o x
  <2>1. L + 1 \in 1..Len(t) /\ (L + 1) - 1 = L
    BY <1>1
  <2>2. g[L + 1] = g[(L + 1) - 1] \o t[L + 1]
    BY <1>3, <2>1 DEF Joins
  <2>3. QED
    BY <1>1, <2>1, <2>2
<1>7. QED
  BY <1>1, <1>2, <1>4, <1>5, <1>6 DEF t

\* The sequence s begins with t.
BeginsWith(s, t) == Len(t) <= Len(s) /\ \A i \in 1..Len(t) : s[i] = t[i]

\* A join of sequences begins with each join of the first of them.
LEMMA JoinsBegin ==
    ASSUME NEW S, NEW s \in Seq(Seq(S)), NEW L, L = Len(s),
           NEW f \in [0..L -> Seq(S)], Joins(f, s, L), NEW k \in 0..L
    PROVE  BeginsWith(f[L], f[k])
<1> DEFINE Begins(m) == Len(f[k]) <= Len(f[m]) /\ \A i \in 1..Len(f[k]) : f[m][i] = f[k][i]
           upTo == {m \in Nat : k + m <= L => Begins(k + m)}
<1>1. L \in Nat /\ k \in Nat /\ \A n \in 1..L : s[n] \in Seq(S)
  OBVIOUS
<1>2. \A n \in 0..L : f[n] \in Seq(S) /\ Len(f[n]) \in Nat
  OBVIOUS
<1>3. 0 \in upTo
  <2>1. k + 0 = k
    BY <1>1
  <2>2. Begins(k)
    BY <1>2
  <2> HIDE DEF Begins
  <2>3. QED
    BY <2>1, <2>2
<1>4. ASSUME NEW m \in Nat, m \in upTo
      PROVE  m + 1 \in upTo
  <2> SUFFICES ASSUME k + (m + 1) <= L PROVE Begins(k + (m + 1))
    <3> HIDE DEF Begins
    <3>1. QED
      OBVIOUS
  <2>1. PICK n : n = k + m
    OBVIOUS
  <2>2. /\ n \in Nat /\ n \in 0..L /\ n + 1 \in 1..L /\ n + 1 \in 0..L
        /\ (n + 1) - 1 = n /\ k + (m + 1) = n + 1 /\ n <= L
    BY <1>1, <2>1
  <2>3. Begins(n)
    <3> HIDE DEF Begins
    <3>1. QED
      BY <1>4, <2>1, <2>2
  <2>4. f[n + 1] = f[n] \o s[n + 1]
    BY <2>2 DEF Joins
  <2>5. PICK a, b : a = f[n] /\ b = s[n + 1]
    OBVIOUS
  <2>6. a \in Seq(S) /\ b \in Seq(S)
    BY <1>1, <1>2, <2>2, <2>5
  <2>7. /\ Len(a \o b) = Len(a) + Len(b) /\ Len(a) \in Nat /\ Len(b) \in Nat
        /\ \A i \in 1..Len(a) : (a \o b)[i] = a[i]
    BY <2>6
  <2>8. Len(f[k]) \in Nat
    BY <1>2
  <2>9. Begins(n + 1)
    <3>1. Len(f[k]) <= Len(a) /\ \A i \in 1..Len(f[k]) : a[i] = f[k][i]
      BY <2>3, <2>5
    <3>2. \A i \in 1..Len(f[k]) : i \in 1..Len(a)
      BY <2>7, <2>8, <3>1
    <3>3. f[n + 1] = a \o b
      BY <2>4, <2>5
    <3>4. Len(f[k]) <= Len(a \o b) /\ \A i \in 1..Len(f[k]) : (a \o b)[i] = f[k][i]
      BY <2>7, <2>8, <3>1, <3>2
    <3>5. QED
      BY <3>3, <3>4
  <2> HIDE DEF Begins
  <2>10. QED
    BY <2>2, <2>9
<1>5. L - k \in upTo
  <2> HIDE DEF upTo
  <2>1. Nat \subseteq upTo
    BY <1>3, <1>4, Induction
  <2>2. L - k \in Nat
    BY <1>1
  <2>3. QED
    BY <2>1, <2>2
<1>6. k + (L - k) = L /\ L <= L
  BY <1>1
<1>7. Begins(L)
  <2> HIDE DEF Begins
  <2>1. QED
    BY <1>5, <1>6
<1>8. QED
  BY <1>7 DEF BeginsWith

\* In whole, the elements of part come after those of before.
ComesAfter(whole, before, part) ==
    \A t \in 1..Len(part) : /\ Len(before) + t <= Len(whole)
                           /\ whole[Len(before) + t] = part[t]

\* In a flattened sequence of sequences the elements of each come after those of
\* the sequences before it, in their order.
LEMMA FlattenPart ==
    ASSUME NEW S, NEW s \in Seq(Seq(S)), NEW k \in 0..Len(s),
           NEW before, before = FlattenSeq([n \in 1..k |-> s[n]])
    PROVE  /\ before \in Seq(S) /\ FlattenSeq(s) \in Seq(S)
           /\ Len(before) <= Len(FlattenSeq(s))
           /\ k = Len(s) => before = FlattenSeq(s)
           /\ k < Len(s) => ComesAfter(FlattenSeq(s), before, s[k + 1])
<1>1. PICK L : L = Len(s)
  OBVIOUS
<1>2. L \in Nat /\ k \in Nat /\ k <= L /\ \A n \in 1..L : s[n] \in Seq(S)
  BY <1>1
<1>3. PICK f \in [0..L -> Seq(S)] : Joins(f, s, L)
  BY <1>1, JoinsExist
<1>4. \A n \in 0..L : f[n] \in Seq(S)
  OBVIOUS
<1>5. FlattenSeq(s) = f[L]
  BY <1>1, <1>3, FlattenJoins
<1>6. before = f[k]
  <2>1. PICK first : first = [n \in 1..k |-> s[n]]
    OBVIOUS
  <2>2. PICK g : g = [n \in 0..k |-> f[n]]
    OBVIOUS
  <2>3. first \in Seq(Seq(S)) /\ Len(first) = k
    <3> DEFINE T == Seq(S)
    <3>1. \A n \in 1..k : s[n] \in T
      BY <1>2
    <3> HIDE DEF T
    <3>2. first \in Seq(T) /\ Len(first) = k
      BY <1>2, <2>1, <3>1
    <3>3. QED
      BY <3>2 DEF T
  <2>4. g \in [0..k -> Seq(S)]
    BY <1>2, <1>4, <2>2
  <2>5. Joins(g, first, k)
    <3>1. g[0] = <<>>
      BY <1>2, <1>3, <2>2 DEF Joins
    <3>2. ASSUME NEW n \in 1..k PROVE g[n] = g[n - 1] \o first[n]
      <4>1. n \in 0..k /\ n - 1 \in 0..k /\ n \in 1..L
        BY <1>2
      <4>2. g[n] = f[n] /\ g[n - 1] = f[n - 1] /\ first[n] = s[n]
        BY <2>1, <2>2, <4>1
      <4>3. f[n] = f[n - 1] \o s[n]
        BY <1>3, <4>1 DEF Joins
      <4>4. QED
        BY <4>2, <4>3
    <3>3. QED
      BY <3>1, <3>2 DEF Joins
  <2>6. FlattenSeq(first) = g[k]
    BY <2>3, <2>4, <2>5, FlattenJoins
  <2>7. g[k] = f[k]
    BY <1>2, <2>2
  <2>8. QED
    BY <2>1, <2>6, <2>7
<1>7. Len(f[k]) <= Len(f[L])
  BY <1>1, <1>3, JoinsBegin DEF BeginsWith
<1>8. ASSUME k < L, NEW t \in 1..Len(s[k + 1])
      PROVE  Len(f[k]) + t <= Len(f[L]) /\ f[L][Len(f[k]) + t] = s[k + 1][t]
  <2>1. k + 1 \in 1..L /\ k + 1 \in 0..L /\ (k + 1) - 1 = k /\ k \in 0..L
    BY <1>2, <1>8
  <2>2. PICK a, b, c : a = f[k] /\ b = s[k + 1] /\ c = f[k + 1]
    OBVIOUS
  <2>3. a \in Seq(S) /\ b \in Seq(S)
    BY <1>2, <1>4, <2>1, <2>2
  <2>4. c = a \o b
    BY <1>3, <2>1, <2>2 DEF Joins
  <2>5. Len(c) <= Len(f[L]) /\ \A i \in 1..Len(c) : f[L][i] = c[i]
    <3>1. PICK next : next = k + 1
      OBVIOUS
    <3>2. next \in 0..L
      BY <2>1, <3>1
    <3>3. BeginsWith(f[L], f[next])
      BY <1>1, <1>3, <3>2, JoinsBegin
    <3>4. QED
      BY <2>2, <3>1, <3>3 DEF BeginsWith
  <2>6. Len(a) \in Nat /\ Len(b) \in Nat /\ Len(c) = Len(a) + Len(b)
    BY <2>3, <2>4
  <2>7. t \in 1..Len(b)
    BY <2>2
  <2>8. c[Len(a) + t] = b[t]
    BY <2>3, <2>4, <2>7
  <2>9. Len(a) + t \in 1..Len(c) /\ Len(a) + t <= Len(c)
    BY <2>6, <2>7
  <2>10. Len(f[L]) \in Nat
    <3>1. L \in 0..L
      BY <1>2
    <3>2. f[L] \in Seq(S)
      BY <1>4, <3>1
    <3>3. QED
      BY <3>2
  <2>11. Len(a) + t <= Len(f[L]) /\ f[L][Len(a) + t] = b[t]
    BY <2>5, <2>6, <2>7, <2>8, <2>9, <2>10
  <2>12. QED
    BY <2>2, <2>11
<1>9. k = L => f[k] = f[L]
  OBVIOUS
<1>10. f[k] \in Seq(S) /\ f[L] \in Seq(S)
  BY <1>2, <1>4
<1> HIDE DEF Joins
<1>11. QED
  BY <1>1, <1>5, <1>6, <1>7, <1>8, <1>9, <1>10 DEF ComesAfter

\* The sequences s and r have as many elements, and so have their elements.
Alike(s, r) == Len(s) = Len(r) /\ \A n \in 1..Len(s) : Len(s[n]) = Len(r[n])

\* Flattened sequences of sequences are of one length if these are.
LEMMA FlattenLengths ==
    ASSUME NEW S, NEW T, NEW s \in Seq(Seq(S)), NEW r \in Seq(Seq(T)),
           Alike(s, r)
    PROVE  Len(FlattenSeq(s)) = Len(FlattenSeq(r))
<1>1. PICK L : L = Len(s)
  OBVIOUS
<1>2. /\ L \in Nat /\ \A n \in 1..L : s[n] \in Seq(S) /\ r[n] \in Seq(T)
      /\ \A n \in 1..L : Len(s[n]) = Len(r[n])
  BY <1>1 DEF Alike
<1>3. PICK f \in [0..L -> Seq(S)] : Joins(f, s, L)
  BY <1>1, JoinsExist
<1>4. PICK g \in [0..L -> Seq(T)] : Joins(g, r, L)
  BY <1>1, JoinsExist DEF Alike
<1>5. FlattenSeq(s) = f[L] /\ FlattenSeq(r) = g[L]
  BY <1>1, <1>3, <1>4, FlattenJoins DEF Alike
<1> DEFINE same == {m \in Nat : m <= L => Len(f[m]) = Len(g[m])}
<1>6. 0 \in same
  BY <1>3, <1>4 DEF Joins
<1>7. ASSUME NEW m \in Nat, m \in same
      PROVE  m + 1 \in same
  <2> SUFFICES ASSUME m + 1 <= L PROVE Len(f[m + 1]) = Len(g[m + 1])
    OBVIOUS
  <2>1. m + 1 \in 1..L /\ (m + 1) - 1 = m /\ m \in 0..L /\ m <= L
    BY <1>2
  <2>2. f[m + 1] = f[m] \o s[m + 1] /\ g[m + 1] = g[m] \o r[m + 1]
    BY <1>3, <1>4, <2>1 DEF Joins
  <2>3. /\ f[m] \in Seq(S) /\ s[m + 1] \in Seq(S)
        /\ g[m] \in Seq(T) /\ r[m + 1] \in Seq(T)
    BY <1>2, <2>1
  <2>4. /\ Len(f[m] \o s[m + 1]) = Len(f[m]) + Len(s[m + 1])
        /\ Len(g[m] \o r[m + 1]) = Len(g[m]) + Len(r[m + 1])
    BY <2>3
  <2>5. Len(f[m]) = Len(g[m]) /\ Len(s[m + 1]) = Len(r[m + 1])
    BY <1>2, <1>7, <2>1
  <2>6. QED
    BY <2>2, <2>4, <2>5
<1>8. L \in same
  <2> HIDE DEF same
  <2>1. Nat \subseteq same
    BY <1>6, <1>7, Induction
  <2>2. QED
    BY <1>2, <2>1
<1>9. QED
  BY <1>2, <1>5, <1>8

\* What longer joins is what f joins, and x.
JoinsOn(f, x, longer) == FlattenSeq(longer) = FlattenSeq(f) \o x

\* The same, of sequences that are given by their elements.
LEMMA FlattenLonger ==
    ASSUME NEW S, NEW t \in Nat, NEW f, NEW g,
           f = [n \in 1..t |-> f[n]], g = [n \in 1..(t + 1) |-> g[n]],
           \A n \in 1..t : g[n] = f[n],
           \A n \in 1..(t + 1) : g[n] \in Seq(S)
    PROVE  FlattenSeq(f) \in Seq(S) /\ JoinsOn(f, g[t + 1], g)
<1>1. g = Append(f, g[t + 1])
  BY LongerByOne
<1>2. \A n \in 1..t : f[n] \in Seq(S)
  <2>1. \A n \in 1..t : n \in 1..(t + 1)
    OBVIOUS
  <2>2. QED
    BY <2>1
<1>3. f \in Seq(Seq(S)) /\ g[t + 1] \in Seq(S)
  <2> DEFINE T == Seq(S)
  <2>1. \A n \in 1..t : f[n] \in T
    BY <1>2
  <2>2. g[t + 1] \in T
    OBVIOUS
  <2> HIDE DEF T
  <2>3. f \in Seq(T)
    BY <2>1
  <2>4. QED
    BY <2>2, <2>3 DEF T
<1>4. PICK x : x = g[t + 1]
  OBVIOUS
<1>5. FlattenSeq(f) \in Seq(S) /\ FlattenSeq(Append(f, x)) = FlattenSeq(f) \o x
  BY <1>3, <1>4, FlattenAppend
<1>6. QED
  BY <1>1, <1>4, <1>5 DEF JoinsOn

\* What two sequences in a row have.
LEMMA ConcatFacts ==
    ASSUME NEW S, NEW a \in Seq(S), NEW b \in Seq(S), NEW c, c = a \o b
    PROVE  /\ c \in Seq(S) /\ Len(c) = Len(a) + Len(b)
           /\ DOMAIN c = 1..(Len(a) + Len(b))
           /\ \A k \in 1..Len(a) : c[k] = a[k]
           /\ \A k \in 1..Len(b) : c[Len(a) + k] = b[k]
           /\ \A k \in DOMAIN c : \/ k \in 1..Len(a)
                                  \/ k - Len(a) \in 1..Len(b) /\ c[k] = b[k - Len(a)]
<1>1. PICK L, M : L = Len(a) /\ M = Len(b)
  OBVIOUS
<1>2. L \in Nat /\ M \in Nat /\ c \in Seq(S) /\ Len(c) = L + M
  BY <1>1
<1>3. DOMAIN c = 1..(L + M)
  <2>1. DOMAIN c = 1..Len(c)
    BY <1>2
  <2>2. QED
    BY <1>2, <2>1
<1>4. \A k \in 1..(L + M) : c[k] = IF k <= L THEN a[k] ELSE b[k - L]
  BY <1>1, <1>2
<1>5. \A k \in 1..L : c[k] = a[k]
  <2>1. \A k \in 1..L : k \in 1..(L + M) /\ k <= L
    BY <1>2
  <2>2. QED
    BY <1>4, <2>1
<1>6. \A k \in 1..M : c[L + k] = b[k]
  <2>1. \A k \in 1..M : L + k \in 1..(L + M) /\ ~(L + k <= L) /\ (L + k) - L = k
    BY <1>2
  <2>2. QED
    BY <1>4, <2>1
<1>7. \A k \in 1..(L + M) : k \in 1..L \/ (k - L \in 1..M /\ c[k] = b[k - L])
  <2>1. \A k \in 1..(L + M) : k \in 1..L \/ (k - L \in 1..M /\ ~(k <= L))
    BY <1>2
  <2>2. QED
    BY <1>4, <2>1
<1>8. QED
  BY <1>1, <1>2, <1>3, <1>5, <1>6, <1>7

\* A sequence is two in a row if its elements are those of the one and the other.
LEMMA SameAsConcat ==
    ASSUME NEW S, NEW p \in Seq(S), NEW q \in Seq(S), NEW r \in Seq(S),
           NEW L, NEW M, L = Len(p), M = Len(q), Len(r) = L + M,
           \A k \in 1..(L + M) : r[k] = IF k <= L THEN p[k] ELSE q[k - L]
    PROVE  r = p \o q
<1>1. PICK c : c = p \o q
  OBVIOUS
<1>2. /\ c \in Seq(S) /\ Len(c) = L + M
      /\ \A k \in 1..(L + M) : c[k] = IF k <= L THEN p[k] ELSE q[k - L]
  BY <1>1
<1>3. DOMAIN c = 1..(L + M) /\ DOMAIN r = 1..(L + M)
  <2>1. DOMAIN c = 1..Len(c) /\ DOMAIN r = 1..Len(r)
    BY <1>2
  <2>2. QED
    BY <1>2, <2>1
<1>4. c = [k \in 1..(L + M) |-> c[k]] /\ r = [k \in 1..(L + M) |-> r[k]]
  BY <1>2, <1>3
<1>5. QED
  BY <1>1, <1>2, <1>4

InRow(x, y, z) == (x \o y) \o z = x \o (y \o z)

\* Three sequences in a row may be joined from either end.
LEMMA ThreeInRow ==
    ASSUME NEW S, NEW x \in Seq(S), NEW y \in Seq(S), NEW z \in Seq(S)
    PROVE  InRow(x, y, z)
<1>1. PICK a, b : a = x \o y /\ b = y \o z
  OBVIOUS
<1>2. PICK l, r : l = a \o z /\ r = x \o b
  OBVIOUS
<1>3. PICK X, Y, Z : X = Len(x) /\ Y = Len(y) /\ Z = Len(z)
  OBVIOUS
<1>4. X \in Nat /\ Y \in Nat /\ Z \in Nat
  BY <1>3
<1>5. /\ a \in Seq(S) /\ Len(a) = X + Y
      /\ \A k \in 1..(X + Y) : a[k] = IF k <= X THEN x[k] ELSE y[k - X]
  BY <1>1, <1>3
<1>6. /\ b \in Seq(S) /\ Len(b) = Y + Z
      /\ \A k \in 1..(Y + Z) : b[k] = IF k <= Y THEN y[k] ELSE z[k - Y]
  BY <1>1, <1>3
<1>7. /\ l \in Seq(S) /\ Len(l) = X + Y + Z
      /\ \A k \in 1..(X + Y + Z) : l[k] = IF k <= X + Y THEN a[k] ELSE z[k - (X + Y)]
  <2>1. PICK A : A = Len(a)
    OBVIOUS
  <2>2. a \in Seq(S) /\ A = X + Y
    BY <1>5, <2>1
  <2>3. /\ l \in Seq(S) /\ Len(l) = A + Z
        /\ \A k \in 1..(A + Z) : l[k] = IF k <= A THEN a[k] ELSE z[k - A]
    <3>1. a \in Seq(S)
      BY <2>2
    <3>2. QED
      BY <1>2, <1>3, <2>1, <3>1
  <2>4. A + Z = X + Y + Z
    BY <2>2
  <2>5. QED
    BY <2>2, <2>3, <2>4
<1>8. /\ r \in Seq(S) /\ Len(r) = X + Y + Z
      /\ \A k \in 1..(X + Y + Z) : r[k] = IF k <= X THEN x[k] ELSE b[k - X]
  <2>1. PICK B : B = Len(b)
    OBVIOUS
  <2>2. /\ r \in Seq(S) /\ Len(r) = X + B
        /\ \A k \in 1..(X + B) : r[k] = IF k <= X THEN x[k] ELSE b[k - X]
    <3>1. b \in Seq(S)
      BY <1>6
    <3>2. QED
      BY <1>2, <1>3, <2>1, <3>1
  <2>3. X + B = X + Y + Z
    BY <1>4, <1>6, <2>1
  <2>4. QED
    BY <2>2, <2>3
<1>9. ASSUME NEW k \in 1..(X + Y + Z)
      PROVE  l[k] = r[k]
  <2>1. CASE k <= X
    <3>1. k \in 1..(X + Y) /\ k <= X + Y
      BY <1>4, <2>1
    <3>2. QED
      BY <1>5, <1>7, <1>8, <2>1, <3>1
  <2>2. CASE k > X /\ k <= X + Y
    <3>1. k \in 1..(X + Y) /\ k - X \in 1..(Y + Z) /\ k - X <= Y /\ ~(k <= X)
      BY <1>4, <2>2
    <3>2. QED
      BY <1>5, <1>6, <1>7, <1>8, <2>2, <3>1
  <2>3. CASE k > X + Y
    <3>1. /\ k - X \in 1..(Y + Z) /\ ~(k - X <= Y) /\ ~(k <= X) /\ ~(k <= X + Y)
          /\ (k - X) - Y = k - (X + Y)
      BY <1>4, <2>3
    <3>2. QED
      BY <1>6, <1>7, <1>8, <3>1
  <2>4. QED
    BY <1>4, <2>1, <2>2, <2>3
<1>10. l = r
  <2>1. DOMAIN l = 1..(X + Y + Z) /\ DOMAIN r = 1..(X + Y + Z)
    <3>1. DOMAIN l = 1..Len(l) /\ DOMAIN r = 1..Len(r)
      BY <1>7, <1>8
    <3>2. QED
      BY <1>7, <1>8, <3>1
  <2>2. l = [k \in 1..(X + Y + Z) |-> l[k]] /\ r = [k \in 1..(X + Y + Z) |-> r[k]]
    BY <1>7, <1>8, <2>1
  <2>3. QED
    BY <1>9, <2>2
<1>11. QED
  BY <1>1, <1>2, <1>10 DEF InRow

\* What c joins is what s joins, and then what t joins.
JoinsBoth(s, t, c) == FlattenSeq(c) = FlattenSeq(s) \o FlattenSeq(t)

\* Sequences in a row join to what they join in a row.
LEMMA FlattenConcat ==
    ASSUME NEW S, NEW s \in Seq(Seq(S)), NEW t \in Seq(Seq(S)), NEW c, c = s \o t
    PROVE  FlattenSeq(s) \in Seq(S) /\ FlattenSeq(t) \in Seq(S) /\ JoinsBoth(s, t, c)
<1>1. PICK L, M : L = Len(s) /\ M = Len(t)
  OBVIOUS
<1>2. /\ L \in Nat /\ M \in Nat /\ c \in Seq(Seq(S)) /\ Len(c) = L + M
      /\ \A n \in 1..L : c[n] = s[n]
      /\ \A n \in 1..M : c[L + n] = t[n]
  <2> DEFINE T == Seq(S)
  <2>1. s \in Seq(T) /\ t \in Seq(T)
    OBVIOUS
  <2> HIDE DEF T
  <2>2. /\ c \in Seq(T) /\ Len(c) = L + M
        /\ \A n \in 1..L : c[n] = s[n]
        /\ \A n \in 1..M : c[L + n] = t[n]
    BY <1>1, <2>1, ConcatFacts
  <2>3. QED
    BY <1>1, <2>1, <2>2 DEF T
<1>3. PICK f \in [0..L -> Seq(S)] : Joins(f, s, L)
  BY <1>1, JoinsExist
<1>4. PICK g \in [0..M -> Seq(S)] : Joins(g, t, M)
  BY <1>1, JoinsExist
<1>5. PICK h \in [0..(L + M) -> Seq(S)] : Joins(h, c, L + M)
  <2>1. PICK N : N = Len(c)
    OBVIOUS
  <2>2. c \in Seq(Seq(S)) /\ N = L + M
    BY <1>2, <2>1
  <2>3. \E h \in [0..N -> Seq(S)] : Joins(h, c, N)
    <3>1. c \in Seq(Seq(S))
      BY <2>2
    <3>2. \E h \in [0..Len(c) -> Seq(S)] : Joins(h, c, Len(c))
      BY <3>1, JoinsExist
    <3>3. QED
      BY <2>1, <3>2
  <2>4. QED
    BY <2>2, <2>3
<1>6. FlattenSeq(s) = f[L] /\ FlattenSeq(t) = g[M] /\ FlattenSeq(c) = h[L + M]
  <2>1. FlattenSeq(s) = f[L]
    BY <1>1, <1>3, FlattenJoins
  <2>2. FlattenSeq(t) = g[M]
    BY <1>1, <1>4, FlattenJoins
  <2>3. FlattenSeq(c) = h[L + M]
    <3>1. PICK N : N = L + M
      OBVIOUS
    <3>2. FlattenSeq(c) = h[N]
      <4>1. c \in Seq(Seq(S)) /\ Len(c) = N
        BY <1>2, <3>1
      <4>2. h \in [0..N -> Seq(S)] /\ Joins(h, c, N)
        BY <1>5, <3>1
      <4>3. QED
        BY <4>1, <4>2, FlattenJoins
    <3>3. QED
      BY <3>1, <3>2
  <2>4. QED
    BY <2>1, <2>2, <2>3
<1>7. f[L] = h[L]
  <2>1. \A n \in 1..L : n \in 1..(L + M)
    BY <1>2
  <2>2. Joins(h, s, L)
    BY <1>2, <1>5, <2>1 DEF Joins
  <2>3. QED
    <3>1. L \in Nat /\ Joins(f, s, L) /\ Joins(h, s, L)
      BY <1>2, <1>3, <2>2
    <3>2. QED
      BY <3>1, JoinsAgree
<1> DEFINE Follows(m) == h[L + m] = f[L] \o g[m]
           done == {m \in Nat : m <= M => Follows(m)}
<1>8. 0 \in done
  <2>1. L \in 0..L /\ f[L] \in Seq(S)
    BY <1>2
  <2>2. f[L] \o <<>> = f[L] /\ L + 0 = L /\ g[0] = <<>>
    BY <1>2, <1>4, <2>1 DEF Joins
  <2>3. QED
    BY <1>7, <2>2
<1>9. ASSUME NEW m \in Nat, m \in done
      PROVE  m + 1 \in done
  <2> SUFFICES ASSUME m + 1 <= M PROVE Follows(m + 1)
    <3> HIDE DEF Follows
    <3>1. QED
      OBVIOUS
  <2>1. /\ m <= M /\ m \in 0..M /\ m + 1 \in 1..M /\ (m + 1) - 1 = m
        /\ L + (m + 1) \in 1..(L + M) /\ (L + (m + 1)) - 1 = L + m /\ L \in 0..L
    BY <1>2
  <2>2. h[L + m] = f[L] \o g[m]
    BY <1>9, <2>1
  <2>3. h[L + (m + 1)] = h[L + m] \o c[L + (m + 1)] /\ c[L + (m + 1)] = t[m + 1]
    <3>1. PICK k : k = L + (m + 1)
      OBVIOUS
    <3>2. h[k] = h[k - 1] \o c[k]
      BY <1>5, <2>1, <3>1 DEF Joins
    <3>3. c[L + (m + 1)] = t[m + 1]
      BY <1>2, <2>1
    <3>4. QED
      BY <2>1, <3>1, <3>2, <3>3
  <2>4. g[m + 1] = g[m] \o t[m + 1]
    <3>1. PICK k : k = m + 1
      OBVIOUS
    <3>2. g[k] = g[k - 1] \o t[k]
      BY <1>4, <2>1, <3>1 DEF Joins
    <3>3. QED
      BY <2>1, <3>1, <3>2
  <2>5. f[L] \in Seq(S) /\ g[m] \in Seq(S) /\ t[m + 1] \in Seq(S)
    <3> DEFINE T == Seq(S)
    <3>1. f \in [0..L -> T] /\ g \in [0..M -> T] /\ t \in Seq(T)
      BY <1>3, <1>4
    <3> HIDE DEF T
    <3>2. t[m + 1] \in T
      BY <1>1, <2>1, <3>1
    <3>3. f[L] \in T /\ g[m] \in T
      BY <2>1, <3>1
    <3>4. QED
      BY <3>2, <3>3 DEF T
  <2>6. (f[L] \o g[m]) \o t[m + 1] = f[L] \o (g[m] \o t[m + 1])
    <3>1. PICK x, y, z : x = f[L] /\ y = g[m] /\ z = t[m + 1]
      OBVIOUS
    <3>2. x \in Seq(S) /\ y \in Seq(S) /\ z \in Seq(S)
      BY <2>5, <3>1
    <3>3. InRow(x, y, z)
      BY <3>2, ThreeInRow
    <3>4. QED
      BY <3>1, <3>3 DEF InRow
  <2>7. QED
    BY <2>2, <2>3, <2>4, <2>6
<1>10. Follows(M)
  <2> HIDE DEF Follows
  <2>1. Nat \subseteq done
    <3> HIDE DEF done
    <3>1. QED
      BY <1>8, <1>9, Induction
  <2>2. QED
    BY <1>2, <2>1
<1>11. f[L] \in Seq(S) /\ g[M] \in Seq(S)
  BY <1>2
<1>12. QED
  BY <1>6, <1>10, <1>11 DEF JoinsBoth

\* Empty sequences join to the empty one.
LEMMA FlattenNothing ==
    ASSUME NEW S, NEW s \in Seq(Seq(S)), \A n \in 1..Len(s) : s[n] = <<>>
    PROVE  FlattenSeq(s) = <<>>
<1>1. PICK L : L = Len(s)
  OBVIOUS
<1>2. PICK f \in [0..L -> Seq(S)] : Joins(f, s, L)
  BY <1>1, JoinsExist
<1>3. L \in Nat /\ FlattenSeq(s) = f[L]
  BY <1>1, <1>2, FlattenJoins
<1> DEFINE none == {m \in Nat : m <= L => f[m] = <<>>}
<1>4. 0 \in none
  BY <1>2 DEF Joins
<1>5. ASSUME NEW m \in Nat, m \in none
      PROVE  m + 1 \in none
  <2> SUFFICES ASSUME m + 1 <= L PROVE f[m + 1] = <<>>
    OBVIOUS
  <2>1. m <= L /\ m + 1 \in 1..L /\ (m + 1) - 1 = m
    BY <1>3
  <2>2. f[m + 1] = f[m] \o s[m + 1]
    BY <1>2, <2>1 DEF Joins
  <2>3. f[m] = <<>> /\ s[m + 1] = <<>>
    BY <1>1, <1>5, <2>1
  <2>4. QED
    BY <2>2, <2>3
<1>6. L \in none
  <2> HIDE DEF none
  <2>1. Nat \subseteq none
    BY <1>4, <1>5, Induction
  <2>2. QED
    BY <1>3, <2>1
<1>7. QED
  BY <1>3, <1>6

\* One sequence joins to itself, and none to the empty one.
LEMMA FlattenSingle ==
    ASSUME NEW S, NEW x \in Seq(S)
    PROVE  FlattenSeq(<<>>) = <<>> /\ FlattenSeq(<<x>>) = x
<1>1. FlattenSeq(<<>>) = <<>>
  BY DEF FlattenSeq
<1>2. <<>> \in Seq(Seq(S)) /\ Append(<<>>, x) = <<x>> /\ <<>> \o x = x
  OBVIOUS
<1>3. FlattenSeq(Append(<<>>, x)) = FlattenSeq(<<>>) \o x
  BY <1>2, FlattenAppend
<1>4. QED
  BY <1>1, <1>2, <1>3

\* Sequences of one element join to the sequence of these.
LEMMA FlattenOnes ==
    ASSUME NEW S, NEW s \in Seq(S), NEW ones,
           ones = [n \in DOMAIN s |-> <<s[n]>>]
    PROVE  FlattenSeq(ones) = s
<1>1. PICK L : L = Len(s)
  OBVIOUS
<1>2. L \in Nat /\ DOMAIN s = 1..L /\ \A n \in 1..L : s[n] \in S
  BY <1>1
<1>3. ones \in Seq(Seq(S)) /\ Len(ones) = L /\ \A n \in 1..L : ones[n] = <<s[n]>>
  <2> DEFINE T == Seq(S)
  <2>1. \A n \in 1..L : <<s[n]>> \in T
    BY <1>2
  <2>2. ones = [n \in 1..L |-> <<s[n]>>]
    BY <1>2
  <2> HIDE DEF T
  <2>3. ones \in Seq(T) /\ Len(ones) = L
    BY <1>2, <2>1, <2>2
  <2>4. QED
    BY <2>2, <2>3 DEF T
<1>4. PICK f \in [0..L -> Seq(S)] : Joins(f, ones, L)
  BY <1>3, JoinsExist
<1>5. FlattenSeq(ones) = f[L]
  BY <1>3, <1>4, FlattenJoins
<1> DEFINE SameTo(m) == Len(f[m]) = m /\ \A n \in 1..m : f[m][n] = s[n]
           same == {m \in Nat : m <= L => SameTo(m)}
<1>6. 0 \in same
  BY <1>4 DEF Joins
<1>7. ASSUME NEW m \in Nat, m \in same
      PROVE  m + 1 \in same
  <2> SUFFICES ASSUME m + 1 <= L PROVE SameTo(m + 1)
    <3> HIDE DEF SameTo
    <3>1. QED
      OBVIOUS
  <2>1. m <= L /\ m \in 0..L /\ m + 1 \in 0..L /\ m + 1 \in 1..L /\ (m + 1) - 1 = m
    BY <1>2
  <2>2. Len(f[m]) = m /\ \A n \in 1..m : f[m][n] = s[n]
    BY <1>7, <2>1
  <2>3. f[m + 1] = f[m] \o <<s[m + 1]>>
    BY <1>3, <1>4, <2>1 DEF Joins
  <2>4. PICK x, y, e : x = f[m] /\ y = f[m + 1] /\ e = s[m + 1]
    OBVIOUS
  <2>5. x \in Seq(S) /\ e \in S /\ y = x \o <<e>>
    BY <1>2, <2>1, <2>3, <2>4
  <2>6. Len(y) = m + 1 /\ y[m + 1] = e /\ \A n \in 1..m : y[n] = x[n]
    <3>1. Len(x) = m
      BY <2>2, <2>4
    <3>2. QED
      BY <2>5, <3>1
  <2>7. \A n \in 1..(m + 1) : n \in 1..m \/ n = m + 1
    OBVIOUS
  <2>8. QED
    BY <2>2, <2>4, <2>6, <2>7
<1>8. SameTo(L)
  <2> HIDE DEF SameTo
  <2>1. Nat \subseteq same
    <3> HIDE DEF same
    <3>1. QED
      BY <1>6, <1>7, Induction
  <2>2. QED
    BY <1>2, <2>1
<1>9. PICK j : j = f[L]
  OBVIOUS
<1>10. j \in Seq(S) /\ Len(j) = L /\ \A n \in 1..L : j[n] = s[n]
  <2>1. L \in 0..L
    BY <1>2
  <2>2. QED
    BY <1>8, <1>9, <2>1
<1>11. j = s
  <2>1. DOMAIN j = 1..L
    BY <1>10
  <2>2. j = [n \in 1..L |-> j[n]] /\ s = [n \in 1..L |-> s[n]]
    BY <1>2, <1>10, <2>1
  <2>3. QED
    BY <1>10, <2>2
<1>12. QED
  BY <1>5, <1>9, <1>11

\* What it is to number the elements of s that are not zero.
NumbersOf(s, m, numbers) ==
    /\ numbers \in Seq(1..m)
    /\ \A i, j \in DOMAIN numbers : i < j => numbers[i] < numbers[j]
    /\ {numbers[n] : n \in DOMAIN numbers} = {k \in 1..m : s[k] > 0}

\* The numbers of the elements that are not zero, joined in order, are these numbers.
LEMMA FlattenNumbers ==
    ASSUME NEW s \in Seq(Nat), NEW numbers,
           numbers = FlattenSeq([k \in DOMAIN s |-> IF s[k] = 0 THEN <<>> ELSE <<k>>])
    PROVE  NumbersOf(s, Len(s), numbers)
<1>1. PICK L : L = Len(s)
  OBVIOUS
<1>2. L \in Nat /\ DOMAIN s = 1..L /\ \A k \in 1..L : s[k] \in Nat
  BY <1>1
<1>3. PICK parts : parts = [k \in 1..L |-> IF s[k] = 0 THEN <<>> ELSE <<k>>]
  OBVIOUS
<1>4. /\ parts \in Seq(Seq(Nat)) /\ Len(parts) = L
      /\ \A k \in 1..L : parts[k] = IF s[k] = 0 THEN <<>> ELSE <<k>>
  <2> DEFINE T == Seq(Nat)
  <2>1. \A k \in 1..L : (IF s[k] = 0 THEN <<>> ELSE <<k>>) \in T
    <3>1. <<>> \in T /\ \A k \in 1..L : <<k>> \in T
      OBVIOUS
    <3> HIDE DEF T
    <3>2. QED
      BY <3>1
  <2> HIDE DEF T
  <2>2. parts \in Seq(T) /\ Len(parts) = L
    BY <1>2, <1>3, <2>1
  <2>3. QED
    BY <1>3, <2>2 DEF T
<1>5. PICK f \in [0..L -> Seq(Nat)] : Joins(f, parts, L)
  BY <1>4, JoinsExist
<1>6. numbers = f[L]
  <2>1. numbers = FlattenSeq(parts)
    BY <1>2, <1>3
  <2>2. QED
    BY <1>4, <1>5, <2>1, FlattenJoins
<1> DEFINE done == {m \in Nat : m <= L => NumbersOf(s, m, f[m])}
<1>7. 0 \in done
  <2>1. f[0] = <<>>
    BY <1>5 DEF Joins
  <2>2. <<>> \in Seq(1..0) /\ DOMAIN <<>> = {} /\ {k \in 1..0 : s[k] > 0} = {}
    OBVIOUS
  <2>3. QED
    BY <2>1, <2>2 DEF NumbersOf
<1>8. ASSUME NEW m \in Nat, m \in done
      PROVE  m + 1 \in done
  <2> SUFFICES ASSUME m + 1 <= L PROVE NumbersOf(s, m + 1, f[m + 1])
    OBVIOUS
  <2>1. m <= L /\ m + 1 \in 1..L /\ (m + 1) - 1 = m
    BY <1>2
  <2>2. PICK x, y : x = f[m] /\ y = f[m + 1]
    OBVIOUS
  <2>3. NumbersOf(s, m, x)
    BY <1>8, <2>1, <2>2
  <2>4. y = x \o parts[m + 1]
    BY <1>5, <2>1, <2>2 DEF Joins
  <2>5. x \in Seq(1..(m + 1)) /\ x \in Seq(1..m)
    <3>1. x \in Seq(1..m) /\ 1..m \subseteq 1..(m + 1)
      BY <2>3 DEF NumbersOf
    <3>2. QED
      BY <3>1
  <2>6. \A k : k \in 1..(m + 1) <=> k \in 1..m \/ k = m + 1
    OBVIOUS
  <2>7. PICK M : M = Len(x)
    OBVIOUS
  <2>8. M \in Nat /\ DOMAIN x = 1..M /\ \A n \in 1..M : x[n] \in 1..m
    BY <2>5, <2>7
  <2>9. CASE s[m + 1] = 0
    <3>1. y = x
      <4>1. parts[m + 1] = <<>>
        BY <1>4, <2>1, <2>9
      <4>2. QED
        BY <2>4, <2>5, <4>1
    <3>2. {k \in 1..(m + 1) : s[k] > 0} = {k \in 1..m : s[k] > 0}
      BY <2>6, <2>9
    <3>3. QED
      BY <2>2, <2>3, <2>5, <3>1, <3>2 DEF NumbersOf
  <2>10. CASE s[m + 1] # 0
    <3>1. y = x \o <<m + 1>>
      BY <1>4, <2>1, <2>4, <2>10
    <3>2. s[m + 1] > 0
      BY <1>2, <2>1, <2>10
    <3>3. /\ y \in Seq(1..(m + 1)) /\ Len(y) = M + 1
          /\ y[M + 1] = m + 1 /\ \A n \in 1..M : y[n] = x[n]
      <4>1. m + 1 \in 1..(m + 1)
        OBVIOUS
      <4>2. PICK T, e : T = 1..(m + 1) /\ e = m + 1
        OBVIOUS
      <4>3. x \in Seq(T) /\ e \in T /\ y = x \o <<e>>
        BY <2>5, <3>1, <4>1, <4>2
      <4>4. /\ y \in Seq(T) /\ Len(y) = M + 1
            /\ y[M + 1] = e /\ \A n \in 1..M : y[n] = x[n]
        BY <2>7, <4>3
      <4>5. QED
        BY <4>2, <4>4
    <3>4. DOMAIN y = 1..(M + 1)
      BY <3>3
    <3>5. \A n : n \in 1..(M + 1) <=> n \in 1..M \/ n = M + 1
      BY <2>8
    <3>6. \A i, j \in 1..(M + 1) : i < j => y[i] < y[j]
      <4>1. ASSUME NEW i \in 1..(M + 1), NEW j \in 1..(M + 1), i < j
            PROVE  y[i] < y[j]
        <5>1. i \in 1..M
          BY <2>8, <4>1
        <5>2. CASE j \in 1..M
          BY <2>3, <2>8, <3>3, <4>1, <5>1, <5>2 DEF NumbersOf
        <5>3. CASE j = M + 1
          <6>1. y[i] \in 1..m /\ y[j] = m + 1
            BY <2>8, <3>3, <5>1, <5>3
          <6>2. QED
            BY <6>1
        <5>4. QED
          BY <3>5, <5>2, <5>3
      <4>2. QED
        BY <4>1
    <3>7. {y[n] : n \in 1..(M + 1)} = {x[n] : n \in 1..M} \cup {m + 1}
      BY <3>3, <3>5
    <3>8. {k \in 1..(m + 1) : s[k] > 0} = {k \in 1..m : s[k] > 0} \cup {m + 1}
      BY <2>6, <3>2
    <3>9. {x[n] : n \in 1..M} = {k \in 1..m : s[k] > 0}
      BY <2>3, <2>8 DEF NumbersOf
    <3>10. {y[n] : n \in DOMAIN y} = {k \in 1..(m + 1) : s[k] > 0}
      BY <3>4, <3>7, <3>8, <3>9
    <3>11. \A i, j \in DOMAIN y : i < j => y[i] < y[j]
      BY <3>4, <3>6
    <3>12. NumbersOf(s, m + 1, y)
      BY <3>3, <3>10, <3>11 DEF NumbersOf
    <3>13. QED
      BY <2>2, <3>12
  <2>11. QED
    BY <2>9, <2>10
<1>9. NumbersOf(s, L, f[L])
  <2>1. Nat \subseteq done
    <3> HIDE DEF done
    <3>1. QED
      BY <1>7, <1>8, Induction
  <2>2. QED
    BY <1>2, <2>1
<1>10. QED
  BY <1>1, <1>6, <1>9

\* What lines spell: the words of the first line, then those of the second, and so on.
Spelt(q) == FlattenSeq([k \in DOMAIN q |-> q[k].words])

\* The words of line come after those that the lines q spell.
SpelledOn(q, line, longer) == Spelt(longer) = Spelt(q) \o line.words

\* Lines spell a sequence of words, and the words of a line that is added come last.
LEMMA SpeltLonger ==
    ASSUME NEW S, NEW T, \A one \in T : one.words \in Seq(S),
           NEW q \in Seq(T), NEW line \in T, NEW longer, longer = Append(q, line)
    PROVE  Spelt(q) \in Seq(S) /\ SpelledOn(q, line, longer)
<1>1. PICK t : t = Len(q)
  OBVIOUS
<1>2. /\ t \in Nat /\ longer \in Seq(T) /\ DOMAIN q = 1..t
      /\ longer[t + 1] = line /\ \A k \in 1..t : longer[k] = q[k] /\ q[k] \in T
  BY <1>1
<1>3. DOMAIN longer = 1..(t + 1)
  <2>1. Len(longer) = t + 1 /\ DOMAIN longer = 1..Len(longer)
    BY <1>1, <1>2
  <2>2. QED
    BY <2>1
<1>4. PICK f : f = [k \in 1..t |-> q[k].words]
  OBVIOUS
<1>5. PICK g : g = [k \in 1..(t + 1) |-> longer[k].words]
  OBVIOUS
<1>6. /\ f = [k \in 1..t |-> f[k]] /\ \A k \in 1..t : f[k] = q[k].words
      /\ g = [k \in 1..(t + 1) |-> g[k]]
      /\ \A k \in 1..(t + 1) : g[k] = longer[k].words
  BY <1>4, <1>5
<1>7. \A k \in 1..t : g[k] = f[k]
  <2>1. \A k \in 1..t : k \in 1..(t + 1)
    BY <1>2
  <2>2. QED
    BY <1>2, <1>6, <2>1
<1>8. t + 1 \in 1..(t + 1) /\ g[t + 1] = line.words
  BY <1>2, <1>6
<1>9. \A k \in 1..(t + 1) : g[k] \in Seq(S)
  <2>1. \A k \in 1..(t + 1) : k \in 1..t \/ k = t + 1
    BY <1>2
  <2>2. \A k \in 1..(t + 1) : longer[k] \in T
    BY <1>2, <2>1
  <2>3. QED
    BY <1>6, <2>2
<1>10. FlattenSeq(f) \in Seq(S) /\ JoinsOn(f, g[t + 1], g)
  BY <1>2, <1>6, <1>7, <1>9, FlattenLonger
<1>11. Spelt(q) = FlattenSeq(f) /\ Spelt(longer) = FlattenSeq(g)
  BY <1>2, <1>3, <1>4, <1>5 DEF Spelt
<1>12. QED
  BY <1>8, <1>10, <1>11 DEF JoinsOn, SpelledOn

\* Lines spell a sequence of words.
LEMMA SpeltType ==
    ASSUME NEW S, NEW T, \A one \in T : one.words \in Seq(S), NEW q \in Seq(T)
    PROVE  Spelt(q) \in Seq(S)
<1>1. PICK none : none = [words |-> <<>>]
  OBVIOUS
<1>2. none.words = <<>> /\ <<>> \in Seq(S)
  BY <1>1
<1>3. PICK U : U = T \cup {none}
  OBVIOUS
<1>4. /\ none \in U /\ \A one \in U : one.words \in Seq(S)
  BY <1>2, <1>3
<1>5. q \in Seq(U)
  <2>1. T \subseteq U
    BY <1>3
  <2>2. QED
    BY <2>1
<1>6. PICK longer : longer = Append(q, none)
  OBVIOUS
<1>7. QED
  BY <1>4, <1>5, <1>6, SpeltLonger

=============================================================================
