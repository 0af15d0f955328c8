----------------------------- MODULE ArraysProofs -----------------------------
(***************************************************************************)
(* What filter leaves of an array: the entries at the places that are      *)
(* kept, each of them once.                                                *)
(***************************************************************************)
EXTENDS Naturals, Sequences, FiniteSets, Arrays, FiniteSetTheorems, FunctionTheorems, TLAPS

\* The rank of a place among those that are kept is a bijection: it is injective, and both
\* sets have as many elements.
LEMMA RanksAreAll ==
  ASSUME NEW S, IsFiniteSet(S), S \subseteq Nat
  PROVE  /\ \A j \in S : Cardinality({m \in S : m <= j}) \in 1 .. Cardinality(S)
         /\ \A j, l \in S : Cardinality({m \in S : m <= j}) = Cardinality({m \in S : m <= l}) => j = l
         /\ \A k \in 1 .. Cardinality(S) : \E j \in S : Cardinality({m \in S : m <= j}) = k
  <1> DEFINE below(j) == {m \in S : m <= j}
             n == Cardinality(S)
             rank == [j \in S |-> Cardinality(below(j))]
  <1>1. n \in Nat
    BY FS_CardinalityType
  <1>2. ASSUME NEW j \in S
        PROVE  /\ below(j) \in SUBSET S /\ j \in below(j) /\ IsFiniteSet(below(j))
               /\ Cardinality(below(j)) \in 1 .. n
    <2>1. below(j) \in SUBSET S /\ j \in below(j)
      OBVIOUS
    <2>2. IsFiniteSet(below(j)) /\ Cardinality(below(j)) <= n
      BY <2>1, FS_Subset
    <2>3. Cardinality(below(j)) \in Nat /\ Cardinality(below(j)) # 0
      BY <2>1, <2>2, FS_CardinalityType, FS_EmptySet
    <2> QED
      BY <1>1, <2>1, <2>2, <2>3
  <1>3. ASSUME NEW j \in S, NEW l \in S, Cardinality(below(j)) = Cardinality(below(l)), j < l
        PROVE  FALSE
    <2>1. below(j) \in SUBSET below(l) /\ l \in below(l) /\ l \notin below(j)
      <3>1. j \in Nat /\ l \in Nat /\ j < l /\ \A m \in S : m \in Nat
        BY <1>3
      <3>2. \A m \in S : m <= j => m <= l
        BY <3>1
      <3>3. l <= l /\ ~(l <= j)
        BY <3>1
      <3> QED
        BY <3>2, <3>3
    <2>2. below(l) = below(j)
      BY <1>2, <1>3, <2>1, FS_Subset
    <2> QED
      BY <2>1, <2>2
  <1>4. \A j, l \in S : Cardinality(below(j)) = Cardinality(below(l)) => j = l
    BY <1>3
  <1>5. rank \in [S -> 1 .. n] /\ \A j, l \in S : rank[j] = rank[l] => j = l
    BY <1>2, <1>4
  <1>6. rank \in Injection(S, 1 .. n)
    BY <1>5, Fun_IsInj
  <1>7. IsFiniteSet(1 .. n) /\ Cardinality(1 .. n) = n
    BY <1>1, FS_Interval
  <1>8. rank \in Surjection(S, 1 .. n)
    BY <1>6, <1>7, FS_Injection
  <1>9. \A k \in 1 .. n : \E j \in S : Cardinality(below(j)) = k
    <2> DEFINE T == 1 .. n
    <2> HIDE DEF rank, below, T
    <2>1. \A k \in T : \E j \in S : rank[j] = k
      BY <1>8, Fun_SurjectionProperties DEF T
    <2> QED
      BY <2>1 DEF rank, T
  <1> QED
    BY <1>2, <1>4, <1>9

\* What filter leaves are the entries at the places that are kept, each once.
LEMMA PickedIs ==
  ASSUME NEW T, NEW s \in Seq(T), NEW S \in SUBSET DOMAIN s
  PROVE  \E place \in [1 .. Cardinality(S) -> S] :
           /\ Cardinality(S) \in Nat
           /\ Picked(s, S) = [k \in 1 .. Cardinality(S) |-> s[place[k]]]
           /\ \A k, l \in 1 .. Cardinality(S) : place[k] = place[l] => k = l
           /\ \A j \in S : \E k \in 1 .. Cardinality(S) : place[k] = j
  <1> DEFINE n == Cardinality(S)
             rank(j) == Cardinality({m \in S : m <= j})
             at(k) == CHOOSE j \in S : rank(j) = k
             place == [k \in 1 .. n |-> at(k)]
  <1>1. IsFiniteSet(S) /\ S \subseteq Nat
    <2>1. DOMAIN s = 1 .. Len(s) /\ Len(s) \in Nat
      OBVIOUS
    <2>2. IsFiniteSet(1 .. Len(s))
      BY <2>1, FS_Interval
    <2> QED
      BY <2>1, <2>2, FS_Subset
  <1>2. n \in Nat
    BY <1>1, FS_CardinalityType
  <1>3. /\ \A j \in S : rank(j) \in 1 .. n
        /\ \A j, l \in S : rank(j) = rank(l) => j = l
        /\ \A k \in 1 .. n : \E j \in S : rank(j) = k
    BY <1>1, RanksAreAll
  <1>4. Picked(s, S) = [k \in 1 .. n |-> s[at(k)]]
    BY DEF Picked
  <1> HIDE DEF rank, n
  <1>5. \A k \in 1 .. n : at(k) \in S /\ rank(at(k)) = k
    BY <1>3
  <1> HIDE DEF at
  <1>6. place \in [1 .. n -> S]
    BY <1>5
  <1>7. \A k, l \in 1 .. n : place[k] = place[l] => k = l
    BY <1>5
  <1>8. ASSUME NEW j \in S PROVE \E k \in 1 .. n : place[k] = j
    <2>1. rank(j) \in 1 .. n
      BY <1>3
    <2>2. at(rank(j)) \in S /\ rank(at(rank(j))) = rank(j)
      BY <1>5, <2>1
    <2>3. at(rank(j)) = j
      BY <1>3, <2>2
    <2> QED
      BY <2>1, <2>3
  <1>9. Picked(s, S) = [k \in 1 .. n |-> s[place[k]]]
    BY <1>4
  <1> HIDE DEF place
  <1> USE DEF n
  <1> QED
    BY <1>2, <1>6, <1>7, <1>8, <1>9

LEMMA PickedIsSeq ==
  ASSUME NEW T, NEW s \in Seq(T), NEW S \in SUBSET DOMAIN s
  PROVE  /\ Picked(s, S) \in Seq(T)
         /\ \A k \in DOMAIN Picked(s, S) : \E j \in S : Picked(s, S)[k] = s[j]
         /\ \A j \in S : \E k \in DOMAIN Picked(s, S) : Picked(s, S)[k] = s[j]
  <1>1. PICK place \in [1 .. Cardinality(S) -> S] :
           /\ Cardinality(S) \in Nat
           /\ Picked(s, S) = [k \in 1 .. Cardinality(S) |-> s[place[k]]]
           /\ \A j \in S : \E k \in 1 .. Cardinality(S) : place[k] = j
    BY PickedIs, SMTT(30)
  <1> DEFINE n == Cardinality(S)
  <1> HIDE DEF n
  <1>2. /\ n \in Nat /\ place \in [1 .. n -> S]
        /\ Picked(s, S) = [k \in 1 .. n |-> s[place[k]]]
        /\ \A j \in S : \E k \in 1 .. n : place[k] = j
    BY <1>1 DEF n
  <1> DEFINE p == Picked(s, S)
  <1> HIDE DEF p
  <1>3. \A j \in S : j \in DOMAIN s /\ s[j] \in T
    OBVIOUS
  <1>4. \A k \in 1 .. n : place[k] \in S
    BY <1>2
  <1>5. p = [k \in 1 .. n |-> s[place[k]]] /\ \A k \in 1 .. n : s[place[k]] \in T
    BY <1>2, <1>3, <1>4 DEF p
  <1>6. DOMAIN p = 1 .. n /\ \A k \in 1 .. n : p[k] = s[place[k]]
    BY <1>5
  <1>7. p \in Seq(T)
    BY <1>2, <1>5
  <1>8. ASSUME NEW j \in S PROVE \E k \in DOMAIN p : p[k] = s[j]
    <2>1. PICK k \in 1 .. n : place[k] = j
      BY <1>2
    <2>2. k \in DOMAIN p /\ p[k] = s[place[k]]
      BY <1>6
    <2> QED
      BY <2>1, <2>2
  <1>9. \A k \in DOMAIN p : \E j \in S : p[k] = s[j]
    BY <1>4, <1>6
  <1> QED
    BY <1>7, <1>8, <1>9 DEF p

\* The entries are different when those that are kept are.
LEMMA PickedOnce ==
  ASSUME NEW T, NEW s \in Seq(T), NEW S \in SUBSET DOMAIN s, \A j, l \in S : s[j] = s[l] => j = l
  PROVE  \A k, l \in DOMAIN Picked(s, S) : Picked(s, S)[k] = Picked(s, S)[l] => k = l
  <1>1. PICK place \in [1 .. Cardinality(S) -> S] :
           /\ Picked(s, S) = [k \in 1 .. Cardinality(S) |-> s[place[k]]]
           /\ \A k, l \in 1 .. Cardinality(S) : place[k] = place[l] => k = l
    BY PickedIs
  <1> DEFINE D == 1 .. Cardinality(S)
  <1> HIDE DEF D
  <1>2. /\ place \in [D -> S] /\ Picked(s, S) = [k \in D |-> s[place[k]]]
        /\ \A k, l \in D : place[k] = place[l] => k = l
    BY <1>1 DEF D
  <1> DEFINE p == Picked(s, S)
  <1> HIDE DEF p
  <1>3. DOMAIN p = D /\ \A k \in D : p[k] = s[place[k]] /\ place[k] \in S
    BY <1>2 DEF p
  <1> QED
    BY <1>2, <1>3 DEF p
==============================================================================
