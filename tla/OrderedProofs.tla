---------------------------- MODULE OrderedProofs ----------------------------
(***************************************************************************)
(* The lists of module Ordered hold every number of the set, once, in      *)
(* order; and every set of numbers has a least one, which is how the other *)
(* proofs argue by induction.                                              *)
(***************************************************************************)
EXTENDS Ordered, FiniteSetTheorems, WellFoundedInduction, TLAPS

\* Every non-empty set of natural numbers has a least number.
LEMMA LeastNumber ==
  ASSUME NEW T \in SUBSET Nat, T # {}
  PROVE  \E n \in T : \A m \in T : n <= m
<1>1. IsWellFoundedOn(OpToRel(<, Nat), Nat)
  BY NatLessThanWellFounded
<1>2. PICK n \in T : \A m \in T : ~ (<<m, n>> \in OpToRel(<, Nat))
  BY <1>1, WFMin
<1>3. \A m \in T : ~ (m < n)
  BY <1>2 DEF OpToRel
<1> QED BY <1>3

\* A bounded one has a greatest.
LEMMA GreatestNumber ==
  ASSUME NEW b \in Nat, NEW T \in SUBSET (0..b), T # {}
  PROVE  \E n \in T : \A m \in T : m <= n
<1> DEFINE D == {b - p : p \in T}
<1>1. \A p \in T : p \in Nat /\ p <= b
  OBVIOUS
<1>2. D \in SUBSET Nat /\ D # {}
  <2>1. \A p \in T : b - p \in Nat
    BY <1>1
  <2>2. PICK p \in T : TRUE
    OBVIOUS
  <2>3. b - p \in D
    OBVIOUS
  <2> QED BY <2>1, <2>3
<1>3. PICK n \in D : \A m \in D : n <= m
  BY <1>2, LeastNumber
<1>4. PICK p \in T : n = b - p
  BY <1>3
<1>5. \A q \in T : q <= p
  <2> SUFFICES ASSUME NEW q \in T PROVE q <= p
    OBVIOUS
  <2>1. b - p <= b - q
    BY <1>3, <1>4
  <2> QED BY <1>1, <2>1
<1> QED BY <1>5

Rank(S, n) == Cardinality({m \in S : m <= n})

LEMMA RankType ==
  ASSUME NEW S \in SUBSET Nat, IsFiniteSet(S), NEW n \in S
  PROVE  Rank(S, n) \in 1..Cardinality(S)
<1> DEFINE L == {m \in S : m <= n}
<1>1. L \in SUBSET S /\ n \in L
  OBVIOUS
<1>2. IsFiniteSet(L) /\ Cardinality(L) <= Cardinality(S) /\ Cardinality(L) \in Nat /\ Cardinality(S) \in Nat
  BY <1>1, FS_Subset, FS_CardinalityType
<1>3. Cardinality(L) # 0
  BY <1>1, <1>2, FS_EmptySet
<1> QED BY <1>2, <1>3 DEF Rank

LEMMA RankMonotonic ==
  ASSUME NEW S \in SUBSET Nat, IsFiniteSet(S), NEW m \in S, NEW n \in S, m < n
  PROVE  Rank(S, m) < Rank(S, n)
<1> DEFINE L == {k \in S : k <= m}
           U == {k \in S : k <= n}
<1>0. /\ m \in Nat /\ n \in Nat /\ ~ (n <= m)
      /\ \A k \in S : k \in Nat /\ (k <= m => k <= n)
  OBVIOUS
<1>1. L \in SUBSET U /\ U \in SUBSET S /\ n \in U /\ n \notin L
  <2>1. n \notin L /\ n \in U
    BY <1>0
  <2>2. \A k \in L : k \in U
    BY <1>0
  <2>3. U \in SUBSET S
    OBVIOUS
  <2> HIDE DEF L, U
  <2> QED BY <2>1, <2>2, <2>3
<1>2. IsFiniteSet(U)
  BY <1>1, FS_Subset
<1>3. /\ IsFiniteSet(L) /\ Cardinality(L) <= Cardinality(U) /\ Cardinality(L) # Cardinality(U)
      /\ Cardinality(L) \in Nat /\ Cardinality(U) \in Nat
  BY <1>1, <1>2, FS_Subset, FS_CardinalityType
<1> QED BY <1>3 DEF Rank

\* Every rank is taken by one number.
LEMMA KthExists ==
  ASSUME NEW S \in SUBSET Nat, IsFiniteSet(S), NEW k \in 1..Cardinality(S)
  PROVE  Kth(S, k) \in S /\ Rank(S, Kth(S, k)) = k
<1> DEFINE rank == [n \in S |-> Rank(S, n)]
           c == Cardinality(S)
<1>1. c \in Nat
  BY FS_CardinalityType
<1>2. IsFiniteSet(1..c) /\ Cardinality(1..c) = c
  BY <1>1, FS_Interval
<1>3. rank \in [S -> 1..c]
  BY RankType
<1>4. ASSUME NEW m \in S, NEW n \in S, m # n PROVE Rank(S, m) # Rank(S, n)
  <2>1. m < n \/ n < m
    BY <1>4
  <2> QED BY <2>1, RankMonotonic, RankType
<1>5. rank \in Injection(S, 1..c)
  BY <1>3, <1>4 DEF Injection, IsInjective
<1>6. rank \in Surjection(S, 1..c)
  BY <1>2, <1>5, FS_Injection
<1>7. \E n \in S : Rank(S, n) = k
  BY <1>6 DEF Surjection
<1> QED BY <1>7 DEF Kth, Rank

LEMMA KthOfRank ==
  ASSUME NEW S \in SUBSET Nat, IsFiniteSet(S), NEW n \in S
  PROVE  Kth(S, Rank(S, n)) = n
<1>1. Rank(S, n) \in 1..Cardinality(S)
  BY RankType
<1>2. Kth(S, Rank(S, n)) \in S /\ Rank(S, Kth(S, Rank(S, n))) = Rank(S, n)
  BY <1>1, KthExists
<1>3. ASSUME NEW m \in S, m # n PROVE Rank(S, m) # Rank(S, n)
  <2>1. m < n \/ n < m
    BY <1>3
  <2>2. Rank(S, m) \in Nat /\ Rank(S, n) \in Nat
    BY RankType
  <2> QED BY <2>1, <2>2, RankMonotonic
<1> QED BY <1>2, <1>3

\* The ascending list of a finite set holds each of its numbers once, each
\* less than the next.
LEMMA AscendingLists ==
  ASSUME NEW S \in SUBSET Nat, IsFiniteSet(S)
  PROVE  /\ Cardinality(S) \in Nat /\ Ascending(S) \in [1..Cardinality(S) -> S]
         /\ \A m, n \in 1..Cardinality(S) : m < n => Ascending(S)[m] < Ascending(S)[n]
         /\ \A x \in S : \E n \in 1..Cardinality(S) : Ascending(S)[n] = x
<1>1. Cardinality(S) \in Nat
  BY FS_CardinalityType
<1>2. \A n \in 1..Cardinality(S) : Ascending(S)[n] \in S /\ Rank(S, Ascending(S)[n]) = n
  BY KthExists DEF Ascending
<1>3. ASSUME NEW m \in 1..Cardinality(S), NEW n \in 1..Cardinality(S), m < n
      PROVE  Ascending(S)[m] < Ascending(S)[n]
  <2> DEFINE a == Ascending(S)[m]
             b == Ascending(S)[n]
  <2>1. a \in S /\ b \in S /\ Rank(S, a) = m /\ Rank(S, b) = n
    BY <1>2
  <2> HIDE DEF a, b
  <2>2. b < a => n < m
    BY <2>1, RankMonotonic
  <2>3. a \in Nat /\ b \in Nat /\ a # b
    BY <1>3, <2>1
  <2>4. a < b
    BY <1>1, <1>3, <2>2, <2>3
  <2> QED BY <2>4 DEF a, b
<1>4. \A x \in S : \E n \in 1..Cardinality(S) : Ascending(S)[n] = x
  BY RankType, KthOfRank DEF Ascending
<1> QED BY <1>1, <1>2, <1>3, <1>4 DEF Ascending

\* The descending list is the ascending one from its end.
LEMMA DescendingLists ==
  ASSUME NEW S \in SUBSET Nat, IsFiniteSet(S)
  PROVE  /\ Descending(S) \in [1..Cardinality(S) -> S]
         /\ \A m, n \in 1..Cardinality(S) : m < n => Descending(S)[n] < Descending(S)[m]
         /\ \A x \in S : \E n \in 1..Cardinality(S) : Descending(S)[n] = x
<1> DEFINE c == Cardinality(S)
<1>1. c \in Nat /\ \A n \in 1..c : c + 1 - n \in 1..c
  BY FS_CardinalityType
<1>2. \A n \in 1..c : Descending(S)[n] = Ascending(S)[c + 1 - n]
  BY <1>1 DEF Ascending, Descending
<1>3. \A n \in 1..c : Ascending(S)[n] = Descending(S)[c + 1 - n]
  BY <1>1, <1>2
<1>4. Descending(S) = [n \in 1..c |-> Ascending(S)[c + 1 - n]]
  BY <1>1 DEF Ascending, Descending
<1> HIDE DEF c
<1>5. /\ Ascending(S) \in [1..c -> S]
      /\ \A m, n \in 1..c : m < n => Ascending(S)[m] < Ascending(S)[n]
      /\ \A x \in S : \E n \in 1..c : Ascending(S)[n] = x
  BY AscendingLists DEF c
<1>6. Descending(S) \in [1..c -> S]
  BY <1>1, <1>4, <1>5
<1>7. ASSUME NEW m \in 1..c, NEW n \in 1..c, m < n PROVE Descending(S)[n] < Descending(S)[m]
  <2>1. c + 1 - n < c + 1 - m
    BY <1>1, <1>7
  <2> QED BY <1>1, <1>2, <1>5, <2>1
<1>8. \A x \in S : \E n \in 1..c : Descending(S)[n] = x
  BY <1>1, <1>3, <1>5
<1> QED BY <1>6, <1>7, <1>8 DEF c
=============================================================================
