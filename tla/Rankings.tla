------------------------------- MODULE Rankings -------------------------------
(***************************************************************************)
(* Facts about finite sets of naturals that the proofs about numbered       *)
(* events and messages share: a least element, the rank of an element, the  *)
(* elements of highest rank, and the enumeration of a set in its order.     *)
(***************************************************************************)
EXTENDS Integers, FiniteSets, FiniteSetTheorems, NaturalsInduction, TLAPS

Below == {ss \in Nat \X Nat : ss[1] < ss[2]}

(* A nonempty set of naturals has a least element. *)
LEMMA Least ==
  ASSUME NEW T \in SUBSET Nat, T # {}
  PROVE  \E x \in T : \A y \in T : x <= y
<1>1. IsWellFoundedOn(Below, Nat)
  BY NatLessThanWellFounded DEF OpToRel, Below
<1>2. PICK x \in T : \A y \in T : ~(<<y, x>> \in Below)
  BY <1>1, WFMin
<1>3. ASSUME NEW y \in T
      PROVE  x <= y
  <2>1. y \in Nat /\ x \in Nat
    OBVIOUS
  <2>2. (y < x) => <<y, x>> \in Below
    BY <2>1 DEF Below
  <2>3. ~(y < x)
    BY <1>2, <2>2
  <2> QED BY <2>1, <2>3
<1> QED BY <1>3

(* How many elements of S are up to i. *)
Rank(S, i) == Cardinality({j \in S : j <= i})

LEMMA RankOrder ==
  ASSUME NEW S \in SUBSET Nat, IsFiniteSet(S)
  PROVE  /\ Cardinality(S) \in Nat
         /\ \A i \in S : Rank(S, i) \in 1..Cardinality(S)
         /\ \A i, j \in S : i < j => Rank(S, i) < Rank(S, j)
         /\ \A i \in S : Cardinality({j \in S : j > i}) = Cardinality(S) - Rank(S, i)
<1> DEFINE n == Cardinality(S)
           upTo(i) == {j \in S : j <= i}
           above(i) == {j \in S : j > i}
<1>1. n \in Nat
  BY FS_CardinalityType
<1>2. ASSUME NEW T \in SUBSET S
      PROVE  IsFiniteSet(T) /\ Cardinality(T) \in Nat /\ Cardinality(T) <= n
  BY FS_Subset, FS_CardinalityType
<1>3. \A i \in S : upTo(i) \in SUBSET S /\ above(i) \in SUBSET S
  OBVIOUS
<1>4. ASSUME NEW i \in S
      PROVE  Rank(S, i) \in 1..n
  <2>1. Rank(S, i) \in Nat /\ Rank(S, i) <= n
    BY <1>2, <1>3 DEF Rank
  <2>2. Rank(S, i) # 0
    <3>1. i \in upTo(i) /\ IsFiniteSet(upTo(i))
      BY <1>2, <1>3
    <3> QED BY <3>1, FS_EmptySet DEF Rank
  <2> QED BY <1>1, <2>1, <2>2
<1>5. ASSUME NEW i \in S, NEW j \in S, i < j
      PROVE  Rank(S, i) < Rank(S, j)
  <2>1. upTo(i) \in SUBSET (upTo(j) \ {j}) /\ j \in upTo(j)
    <3>1. i \in Nat /\ j \in Nat /\ \A k \in S : k \in Nat
      OBVIOUS
    <3>2. \A k \in S : k <= i => k <= j /\ k # j
      BY <1>5, <3>1
    <3>3. j <= j
      BY <3>1
    <3> QED BY <3>2, <3>3
  <2>2. IsFiniteSet(upTo(j)) /\ Cardinality(upTo(j)) \in Nat
    BY <1>2, <1>3
  <2>3. IsFiniteSet(upTo(j) \ {j}) /\ Cardinality(upTo(j) \ {j}) = Cardinality(upTo(j)) - 1
    BY <2>1, <2>2, FS_RemoveElement
  <2>4. Cardinality(upTo(i)) <= Cardinality(upTo(j) \ {j})
    BY <2>1, <2>3, FS_Subset
  <2>5. Cardinality(upTo(i)) \in Nat
    BY <1>2, <1>3
  <2> QED BY <2>2, <2>3, <2>4, <2>5 DEF Rank
<1>6. ASSUME NEW i \in S
      PROVE  Cardinality(above(i)) = n - Rank(S, i)
  <2>1. above(i) = S \ upTo(i) /\ S \cap upTo(i) = upTo(i)
    <3>1. i \in Nat /\ \A k \in S : k \in Nat
      OBVIOUS
    <3>2. \A k \in S : k > i <=> ~(k <= i)
      BY <3>1
    <3> QED BY <3>2
  <2>2. Cardinality(S \ upTo(i)) = n - Cardinality(S \cap upTo(i))
    BY FS_Difference
  <2> QED BY <2>1, <2>2 DEF Rank
<1> QED BY <1>1, <1>4, <1>5, <1>6

(* Every number up to the size of S is the rank of one element. *)
LEMMA EveryRank ==
  ASSUME NEW S \in SUBSET Nat, IsFiniteSet(S)
  PROVE  /\ \A k \in 1..Cardinality(S) : \E i \in S : Rank(S, i) = k
         /\ \A i, j \in S : Rank(S, i) = Rank(S, j) => i = j
         /\ \A i, j \in S : Rank(S, i) < Rank(S, j) => i < j
<1> DEFINE n == Cardinality(S)
           f == [i \in S |-> Rank(S, i)]
<1>1. n \in Nat /\ Cardinality(1..n) = n /\ IsFiniteSet(1..n)
  <2>1. n \in Nat
    BY RankOrder
  <2> HIDE DEF n
  <2> QED BY <2>1, FS_Interval
<1>2. \A i, j \in S : Rank(S, i) = Rank(S, j) => i = j
  <2> SUFFICES ASSUME NEW i \in S, NEW j \in S, i < j
               PROVE  Rank(S, i) # Rank(S, j)
    OBVIOUS
  <2>1. Rank(S, i) < Rank(S, j) /\ Rank(S, i) \in Int /\ Rank(S, j) \in Int
    BY RankOrder
  <2> QED BY <2>1
<1>3. f \in Injection(S, 1..n)
  BY <1>2, RankOrder DEF Injection, IsInjective
<1>4. f \in Surjection(S, 1..n)
  BY <1>1, <1>3, FS_Injection
<1>5. \A k \in 1..n : \E i \in S : Rank(S, i) = k
  BY <1>4 DEF Surjection
<1>6. ASSUME NEW i \in S, NEW j \in S, Rank(S, i) < Rank(S, j)
      PROVE  i < j
  <2>1. CASE j < i
    <3>1. Rank(S, j) < Rank(S, i) /\ Rank(S, i) \in Int /\ Rank(S, j) \in Int
      BY <2>1, RankOrder
    <3> QED BY <1>6, <3>1
  <2>2. CASE i = j
    <3>1. Rank(S, j) \in Int
      BY RankOrder
    <3> QED BY <1>6, <2>2, <3>1
  <2> QED BY <2>1, <2>2
<1> QED BY <1>2, <1>5, <1>6

(* The K last elements of S: as many as there are, and later than the rest. *)
LEMMA LastOnes ==
  ASSUME NEW S \in SUBSET Nat, IsFiniteSet(S), NEW K \in Nat
  PROVE  LET T == {i \in S : Cardinality({j \in S : j > i}) < K} IN
         /\ Cardinality(T) = IF Cardinality(S) < K THEN Cardinality(S) ELSE K
         /\ \A i \in T, j \in S \ T : j < i
<1> DEFINE n == Cardinality(S)
           T == {i \in S : Cardinality({j \in S : j > i}) < K}
           m == IF n < K THEN n ELSE K
           f == [i \in T |-> Rank(S, i)]
<1>1. n \in Nat /\ m \in Nat
  BY RankOrder
<1>2. \A i \in S : i \in T <=> n - Rank(S, i) < K
  BY RankOrder
<1>3. \A i \in S : Rank(S, i) \in 1..n
  BY RankOrder
<1> HIDE DEF T
<1>4. T \in SUBSET S
  BY DEF T
<1>5. \A i \in T : Rank(S, i) \in (n - m + 1)..n
  <2> SUFFICES ASSUME NEW i \in T
               PROVE  Rank(S, i) \in (n - m + 1)..n
    OBVIOUS
  <2> DEFINE k == Rank(S, i)
  <2>1. k \in 1..n /\ n - k < K
    BY <1>2, <1>3, <1>4
  <2> HIDE DEF n, k
  <2> QED BY <1>1, <2>1 DEF k
<1>6. \A k \in (n - m + 1)..n : k \in 1..n /\ n - k < K
  <2> HIDE DEF n
  <2> QED BY <1>1
<1>7. f \in Bijection(T, (n - m + 1)..n)
  <2>1. f \in Injection(T, (n - m + 1)..n)
    BY <1>4, <1>5, EveryRank DEF Injection, IsInjective
  <2>2. \A k \in (n - m + 1)..n : \E i \in T : f[i] = k
    BY <1>2, <1>6, EveryRank
  <2> QED BY <2>1, <2>2 DEF Bijection, Injection, Surjection
<1>8. IsFiniteSet(T)
  BY <1>4, FS_Subset
<1>9. Cardinality((n - m + 1)..n) = Cardinality(T)
  BY <1>7, <1>8, FS_Bijection DEF ExistsBijection
<1>10. Cardinality(T) = m
  <2>1. n \in Int /\ n - m + 1 \in Int
    BY <1>1
  <2>2. Cardinality((n - m + 1)..n) = IF n - m + 1 > n THEN 0 ELSE n - (n - m + 1) + 1
    BY <2>1, FS_Interval
  <2> HIDE DEF n, m
  <2> QED BY <1>1, <1>9, <2>2
<1>11. ASSUME NEW i \in T, NEW j \in S \ T
       PROVE  j < i
  <2> DEFINE k == Rank(S, i)
             l == Rank(S, j)
  <2>1. k \in 1..n /\ l \in 1..n /\ n - k < K /\ ~(n - l < K)
    BY <1>2, <1>3, <1>4
  <2> HIDE DEF n, k, l
  <2>2. l < k
    BY <1>1, <2>1
  <2> QED BY <1>4, <2>2, EveryRank DEF k, l
<1> QED BY <1>10, <1>11 DEF T

(* The elements of S in order. *)
LEMMA Enumeration ==
  ASSUME NEW S \in SUBSET Nat, IsFiniteSet(S)
  PROVE  \E s \in [1..Cardinality(S) -> S] :
           /\ \A i, j \in 1..Cardinality(S) : i < j => s[i] < s[j]
<1> DEFINE n == Cardinality(S)
           s == [k \in 1..n |-> CHOOSE i \in S : Rank(S, i) = k]
<1>1. \A k \in 1..n : s[k] \in S /\ Rank(S, s[k]) = k
  BY EveryRank
<1>2. \A i, j \in 1..n : i < j => s[i] < s[j]
  <2> SUFFICES ASSUME NEW i \in 1..n, NEW j \in 1..n, i < j
               PROVE  s[i] < s[j]
    OBVIOUS
  <2>1. s[i] \in S /\ s[j] \in S /\ Rank(S, s[i]) < Rank(S, s[j])
    BY <1>1
  <2> HIDE DEF s
  <2> QED BY <2>1, EveryRank
<1>3. s \in [1..n -> S]
  BY <1>1
<1> QED BY <1>2, <1>3

(* An enumeration in order misses nothing. *)
LEMMA EnumeratesAll ==
  ASSUME NEW S \in SUBSET Nat, IsFiniteSet(S), NEW s \in [1..Cardinality(S) -> S],
         \A i, j \in 1..Cardinality(S) : i < j => s[i] < s[j]
  PROVE  \A x \in S : \E i \in 1..Cardinality(S) : s[i] = x
<1> DEFINE n == Cardinality(S)
<1>1. n \in Nat
  BY FS_CardinalityType
<1>2. Cardinality(1..n) = n /\ IsFiniteSet(1..n)
  <2> HIDE DEF n
  <2> QED BY <1>1, FS_Interval
<1>3. s \in Injection(1..n, S)
  <2> SUFFICES ASSUME NEW i \in 1..n, NEW j \in 1..n, i < j
               PROVE  s[i] # s[j]
    BY <1>1 DEF Injection, IsInjective
  <2>1. s[i] < s[j] /\ s[i] \in Nat /\ s[j] \in Nat
    OBVIOUS
  <2> QED BY <2>1
<1>4. s \in Surjection(1..n, S)
  BY <1>2, <1>3, FS_Injection
<1> QED BY <1>4 DEF Surjection
===============================================================================
