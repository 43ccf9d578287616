--------------------------- MODULE OrderedProofs ---------------------------
(***************************************************************************)
(* What Ascending gives, for any finite set of positive numbers: all of    *)
(* its members, once each, in their order; and that such a set has a       *)
(* greatest member.                                                        *)
(*                                                                         *)
(* A member's place is how many members are not above it.  Places grow     *)
(* with the members, so they are as many as the members, and all of them   *)
(* are taken.                                                              *)
(***************************************************************************)
EXTENDS Ordered, Sequences, FiniteSetTheorems, TLAPS

LEMMA FiniteBelow ==
  ASSUME NEW L \in Nat, NEW S \in SUBSET (1 .. L)
  PROVE  IsFiniteSet(S) /\ Cardinality(S) \in Nat
<1>1. IsFiniteSet(1 .. L)
  BY FS_Interval
<1> QED
  BY <1>1, FS_Subset, FS_CardinalityType

\* Places are numbers up to that of the members, and grow with them.
LEMMA PlaceType ==
  ASSUME NEW L \in Nat, NEW S \in SUBSET (1 .. L)
  PROVE  /\ \A k \in S : Place(k, S) \in 1 .. Cardinality(S)
         /\ \A i, k \in S : i < k => Place(i, S) < Place(k, S)
         /\ \A k \in S : Place(k, S) = Cardinality(S) => \A i \in S : i <= k
<1> DEFINE Upto(k) == {j \in S : j <= k}
           N == Cardinality(S)
<1>1. IsFiniteSet(S) /\ N \in Nat
  BY FiniteBelow
<1>2. \A k \in S : k \in Nat
  OBVIOUS
<1>3. ASSUME NEW k \in S
      PROVE  /\ IsFiniteSet(Upto(k)) /\ Cardinality(Upto(k)) \in 1 .. N
             /\ Cardinality(Upto(k)) = N => Upto(k) = S
  <2>1. Upto(k) \in SUBSET S /\ k \in Upto(k)
    BY <1>2
  <2> HIDE DEF Upto
  <2>2. /\ IsFiniteSet(Upto(k)) /\ Cardinality(Upto(k)) <= N
        /\ Cardinality(Upto(k)) = N => Upto(k) = S
    BY <1>1, <2>1, FS_Subset
  <2>3. Cardinality(Upto(k)) \in Nat /\ Cardinality(Upto(k)) # 0
    BY <2>1, <2>2, FS_CardinalityType, FS_EmptySet
  <2> HIDE DEF N
  <2> QED
    BY <1>1, <2>2, <2>3
<1>4. ASSUME NEW i \in S, NEW k \in S, i < k
      PROVE  Cardinality(Upto(i)) < Cardinality(Upto(k))
  <2>1. Upto(i) \in SUBSET Upto(k) /\ k \in Upto(k) /\ k \notin Upto(i)
    <3>1. \A j \in S : j <= i => j <= k
      BY <1>2, <1>4
    <3>2. k <= k /\ ~ (k <= i)
      BY <1>2, <1>4
    <3> QED
      BY <3>1, <3>2
  <2> HIDE DEF Upto
  <2>2. Cardinality(Upto(i)) <= Cardinality(Upto(k)) /\ Cardinality(Upto(i)) # Cardinality(Upto(k))
    BY <1>3, <2>1, FS_Subset
  <2>3. Cardinality(Upto(i)) \in Nat /\ Cardinality(Upto(k)) \in Nat
    BY <1>3, FS_CardinalityType
  <2> QED
    BY <2>2, <2>3
<1>5. ASSUME NEW k \in S, Upto(k) = S, NEW i \in S PROVE i <= k
  BY <1>5
<1>6. \A k : Place(k, S) = Cardinality(Upto(k))
  BY DEF Place
<1> HIDE DEF Upto
<1> QED
  BY <1>3, <1>4, <1>5, <1>6

LEMMA PlaceExists ==
  ASSUME NEW L \in Nat, NEW S \in SUBSET (1 .. L), NEW n \in 1 .. Cardinality(S)
  PROVE  \E k \in S : Place(k, S) = n
<1> DEFINE f == [k \in S |-> Place(k, S)]
           N == Cardinality(S)
<1>1. IsFiniteSet(S) /\ N \in Nat /\ IsFiniteSet(1 .. N) /\ Cardinality(1 .. N) = N
  <2>1. IsFiniteSet(S) /\ N \in Nat
    BY FiniteBelow
  <2> HIDE DEF N
  <2> QED
    BY <2>1, FS_Interval
<1>2. f \in [S -> 1 .. N]
  BY PlaceType
<1>3. ASSUME NEW i \in S, NEW k \in S, i # k PROVE f[i] # f[k]
  <2>1. i \in Nat /\ k \in Nat /\ (i < k \/ k < i)
    BY <1>3
  <2>2. Place(i, S) < Place(k, S) \/ Place(k, S) < Place(i, S)
    BY <2>1, PlaceType
  <2>3. Place(i, S) \in 1 .. N /\ Place(k, S) \in 1 .. N
    BY PlaceType
  <2>4. Place(i, S) # Place(k, S)
    <3> HIDE DEF N
    <3> QED
      BY <1>1, <2>2, <2>3
  <2> QED
    BY <2>4
<1>4. f \in Injection(S, 1 .. N)
  BY <1>2, <1>3 DEF Injection, IsInjective
<1>5. f \in Surjection(S, 1 .. N)
  <2> HIDE DEF f, N
  <2> QED
    BY <1>1, <1>4, FS_Injection DEF N
<1> QED
  BY <1>5 DEF Surjection

\* The greatest member.
LEMMA GreatestExists ==
  ASSUME NEW L \in Nat, NEW S \in SUBSET (1 .. L), S # {}
  PROVE  \E k \in S : \A i \in S : i <= k
<1>1. IsFiniteSet(S) /\ Cardinality(S) \in Nat /\ Cardinality(S) # 0
  BY FiniteBelow, FS_EmptySet
<1>2. Cardinality(S) \in 1 .. Cardinality(S)
  BY <1>1
<1> QED
  BY <1>2, PlaceExists, PlaceType

\* Ascending lists the members, all of them, in their order.
LEMMA AscendingLists ==
  ASSUME NEW L \in Nat, NEW S \in SUBSET (1 .. L)
  PROVE  /\ Ascending(S) \in Seq(S) /\ Len(Ascending(S)) = Cardinality(S)
         /\ \A n \in 1 .. Cardinality(S) : Ascending(S)[n] \in S
         /\ \A k \in S : \E n \in 1 .. Cardinality(S) : Ascending(S)[n] = k
         /\ \A m, n \in 1 .. Cardinality(S) : m < n => Ascending(S)[m] < Ascending(S)[n]
<1> DEFINE N == Cardinality(S)
           at(n) == CHOOSE k \in S : Place(k, S) = n
<1>1. N \in Nat /\ \A k \in S : k \in Nat
  BY FiniteBelow
<1>2. ASSUME NEW n \in 1 .. N PROVE at(n) \in S /\ Place(at(n), S) = n
  BY PlaceExists
<1>3. Ascending(S) = [n \in 1 .. N |-> at(n)]
  BY DEF Ascending
<1> HIDE DEF at
<1>4. Ascending(S) \in Seq(S) /\ Len(Ascending(S)) = N
  BY <1>1, <1>2, <1>3
<1>5. ASSUME NEW k \in S PROVE Place(k, S) \in 1 .. N /\ at(Place(k, S)) = k
  <2>1. Place(k, S) \in 1 .. N
    BY PlaceType
  <2> PICK i \in S : i = at(Place(k, S)) /\ Place(i, S) = Place(k, S)
    BY <1>2, <2>1
  <2>2. ~ (i < k) /\ ~ (k < i)
    <3>1. i < k => Place(i, S) < Place(k, S)
      BY PlaceType
    <3>2. k < i => Place(k, S) < Place(i, S)
      BY PlaceType
    <3> QED
      BY <1>1, <2>1, <3>1, <3>2
  <2> QED
    BY <1>1, <2>1, <2>2
<1>6. ASSUME NEW m \in 1 .. N, NEW n \in 1 .. N, m < n PROVE at(m) < at(n)
  <2>1. ~ (at(n) < at(m)) /\ at(m) # at(n)
    <3>1. at(n) < at(m) => Place(at(n), S) < Place(at(m), S)
      BY <1>2, PlaceType
    <3> QED
      BY <1>2, <1>6, <3>1
  <2>2. at(m) \in Nat /\ at(n) \in Nat
    BY <1>1, <1>2
  <2> QED
    BY <2>1, <2>2
<1> QED
  BY <1>2, <1>3, <1>4, <1>5, <1>6
=============================================================================
