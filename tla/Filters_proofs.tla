--------------------------- MODULE Filters_proofs ---------------------------
(***************************************************************************)
(* What a filter keeps: elements of the list, each of those at the given   *)
(* positions, once if the list has it once.                                *)
(***************************************************************************)
EXTENDS Filters, FiniteSetTheorems, SequenceTheorems, WellFoundedInduction, TLAPS

LEMMA LargestExists ==
  ASSUME NEW n \in Nat, NEW at \in SUBSET (1..n), at # {}
  PROVE  \E m \in at : \A j \in at : j <= m
<1> DEFINE less == {ss \in Nat \X Nat : ss[1] < ss[2]}
           gaps == {n - i : i \in at}
<1>1. IsWellFoundedOn(less, Nat)
  BY NatLessThanWellFounded DEF OpToRel
<1>2. gaps \subseteq Nat /\ gaps # {}
  <2>1. \A i \in at : i \in Nat /\ i <= n
    OBVIOUS
  <2>2. \A i \in at : n - i \in Nat
    BY <2>1
  <2> QED BY <2>2
<1>3. PICK g \in gaps : \A h \in gaps : ~ (<<h, g>> \in less)
  <2> HIDE DEF less, gaps
  <2> QED BY <1>1, <1>2, WFMin
<1>4. PICK m \in at : g = n - m
  BY <1>3
<1>5. ASSUME NEW j \in at PROVE j <= m
  <2>1. n - j \in gaps /\ n - j \in Nat /\ n - m \in Nat
    OBVIOUS
  <2>2. ~ (<<n - j, n - m>> \in less)
    BY <1>3, <1>4, <2>1
  <2>3. ~ (n - j < n - m)
    BY <2>1, <2>2
  <2>4. j \in 1..n /\ m \in 1..n
    OBVIOUS
  <2> QED BY <2>3, <2>4
<1> QED BY <1>4, <1>5
(* A set of numbers that is not empty has a smallest. *)
LEMMA SmallestExists ==
  ASSUME NEW at \in SUBSET Nat, at # {}
  PROVE  \E m \in at : \A j \in at : m <= j
<1> DEFINE less == {ss \in Nat \X Nat : ss[1] < ss[2]}
<1>1. IsWellFoundedOn(less, Nat)
  BY NatLessThanWellFounded DEF OpToRel
<1>2. PICK m \in at : \A j \in at : ~ (<<j, m>> \in less)
  <2> HIDE DEF less
  <2> QED BY <1>1, WFMin
<1>3. \A j \in at : ~ (j < m)
  BY <1>2
<1> QED BY <1>3

(* What holds of 0 and goes on holds up to n. *)
LEMMA UpTo ==
  ASSUME NEW n \in Nat, NEW good \in SUBSET (0..n), 0 \in good,
         \A i \in good : i < n => i + 1 \in good
  PROVE  n \in good
<1> SUFFICES ASSUME n \notin good PROVE FALSE
  OBVIOUS
<1>1. PICK m \in 0..n \ good : \A j \in 0..n \ good : m <= j
  <2>1. 0..n \ good # {} /\ 0..n \ good \in SUBSET Nat
    OBVIOUS
  <2> QED  BY ONLY <2>1, SmallestExists, Zenon
<1>2. m # 0 /\ m - 1 \in 0..n /\ ~(m <= m - 1)
  OBVIOUS
<1>3. m - 1 \in good
  BY <1>1, <1>2
<1> QED  BY <1>2, <1>3

Rank(at, i) == Cardinality({j \in at : j <= i})

(* The positions of a set are numbered from 1 to its size. *)
LEMMA RanksCover ==
  ASSUME NEW n \in Nat, NEW at \in SUBSET (1..n)
  PROVE  /\ Cardinality(at) \in 0..n
         /\ \A k \in 1..Cardinality(at) : \E i \in at : Rank(at, i) = k
         /\ \A i \in at : Rank(at, i) \in 1..Cardinality(at)
         /\ \A i, j \in at : Rank(at, i) = Rank(at, j) => i = j
<1> DEFINE size == Cardinality(at)
           below(i) == {j \in at : j <= i}
           rank == [i \in at |-> Cardinality(below(i))]
<1>1. IsFiniteSet(1..n) /\ Cardinality(1..n) = n
  BY FS_Interval
<1>2. IsFiniteSet(at) /\ size <= n
  BY <1>1, FS_Subset, Zenon
<1>3. size \in Nat
  BY <1>2, FS_CardinalityType, Zenon
<1>4. ASSUME NEW i \in at
      PROVE  /\ IsFiniteSet(below(i)) /\ Cardinality(below(i)) <= size
             /\ Cardinality(below(i)) \in 1..size
  <2>1. below(i) \in SUBSET at /\ i \in below(i)
    OBVIOUS
  <2>2. IsFiniteSet(below(i)) /\ Cardinality(below(i)) <= size
    <3> HIDE DEF below
    <3> QED BY <1>2, <2>1, FS_Subset, Zenon
  <2>3. Cardinality(below(i)) \in Nat
    BY <2>2, FS_CardinalityType, Zenon
  <2>4. Cardinality(below(i)) # 0
    BY <2>1, <2>2, FS_EmptySet, Zenon
  <2> HIDE DEF below, size
  <2> QED BY <1>3, <2>2, <2>3, <2>4
<1>5. ASSUME NEW i \in at, NEW j \in at, i < j
      PROVE  Cardinality(below(i)) # Cardinality(below(j))
  <2>1. below(i) \in SUBSET below(j) /\ j \in below(j) /\ j \notin below(i)
    <3>1. i \in Nat /\ j \in Nat /\ \A x \in at : x \in Nat
      OBVIOUS
    <3>2. ~ (j <= i) /\ \A x \in Nat : x <= i => x <= j
      BY <3>1, <1>5
    <3>3. below(i) \in SUBSET below(j)
      BY <3>1, <3>2
    <3>4. j \in below(j) /\ j \notin below(i)
      BY <3>1, <3>2
    <3> QED BY <3>3, <3>4
  <2>2. below(i) # below(j)
    BY <2>1
  <2>3. IsFiniteSet(below(j))
    BY <1>4
  <2> HIDE DEF below
  <2> QED BY <2>1, <2>2, <2>3, FS_Subset, Zenon
<1>6. rank \in [at -> 1..size]
  BY <1>4
<1>7. ASSUME NEW i \in at, NEW j \in at, rank[i] = rank[j] PROVE i = j
  <2>1. i \in Nat /\ j \in Nat
    OBVIOUS
  <2>2. Cardinality(below(i)) = Cardinality(below(j))
    BY <1>7
  <2>3. ~ (i < j) /\ ~ (j < i)
    <3> HIDE DEF below
    <3> QED BY <1>5, <2>2
  <2> QED BY <2>1, <2>3
<1>8. rank \in Injection(at, 1..size)
  <2> HIDE DEF rank, size
  <2> QED BY <1>6, <1>7 DEF Injection, IsInjective
<1>9. IsFiniteSet(1..size) /\ Cardinality(1..size) = size
  BY <1>3, FS_Interval
<1>10. rank \in Surjection(at, 1..size)
  BY <1>8, <1>9, FS_Injection
<1>11. ASSUME NEW k \in 1..size PROVE \E i \in at : Rank(at, i) = k
  <2>1. PICK i \in at : rank[i] = k
    <3> HIDE DEF rank, size
    <3> QED BY <1>10 DEF Surjection
  <2>2. Rank(at, i) = k
    BY <2>1 DEF Rank
  <2> QED BY <2>2
<1>12. \A i \in at : Rank(at, i) = rank[i]
  BY DEF Rank
<1>13. /\ \A i \in at : Rank(at, i) \in 1..size
       /\ \A i, j \in at : Rank(at, i) = Rank(at, j) => i = j
  <2> HIDE DEF rank, size
  <2> QED BY <1>6, <1>7, <1>12
<1> QED BY <1>2, <1>3, <1>11, <1>13

(* A filter keeps events of the sequence, at most as many. *)
LEMMA FilteredKeeps ==
  ASSUME NEW S, NEW events \in Seq(S), NEW at \in SUBSET DOMAIN events
  PROVE  /\ Filtered(events, at) \in Seq(S)
         /\ Len(Filtered(events, at)) \in 0..Len(events)
         /\ DOMAIN Filtered(events, at) = 1..Len(Filtered(events, at))
         /\ \A k \in DOMAIN Filtered(events, at) :
              \E i \in at : Filtered(events, at)[k] = events[i]
<1> DEFINE size == Cardinality(at)
           kept == Filtered(events, at)
<1>1. Len(events) \in Nat /\ DOMAIN events = 1..Len(events)
  OBVIOUS
<1>2. /\ size \in 0..Len(events)
      /\ \A k \in 1..size : \E i \in at : Rank(at, i) = k
  BY <1>1, RanksCover
<1>3. kept = [k \in 1..size |-> events[CHOOSE i \in at : Rank(at, i) = k]]
  BY DEF Filtered, Rank
<1>4. ASSUME NEW k \in 1..size PROVE \E i \in at : kept[k] = events[i]
  BY <1>2, <1>3
<1>5. ASSUME NEW k \in 1..size PROVE kept[k] \in S
  BY <1>1, <1>4
<1>6. kept \in [1..size -> S] /\ DOMAIN kept = 1..size
  <2> HIDE DEF size, kept
  <2> QED BY <1>3, <1>5
<1>7. kept \in Seq(S) /\ Len(kept) = size
  <2> HIDE DEF size, kept
  <2> QED BY <1>2, <1>6
<1> HIDE DEF size, kept
<1>8. /\ kept \in Seq(S) /\ Len(kept) \in 0..Len(events) /\ DOMAIN kept = 1..Len(kept)
      /\ \A k \in DOMAIN kept : \E i \in at : kept[k] = events[i]
  BY <1>2, <1>4, <1>6, <1>7
<1> QED BY <1>8 DEF kept

(* A filter keeps exactly the elements at its positions, and those of a *)
(* list without repetitions without repetitions.                        *)
LEMMA FilteredSelects ==
  ASSUME NEW S, NEW events \in Seq(S), NEW at \in SUBSET DOMAIN events
  PROVE  LET kept == Filtered(events, at) IN
         /\ {kept[k] : k \in DOMAIN kept} = {events[i] : i \in at}
         /\ IsInjective(events) => IsInjective(kept)
<1> DEFINE size == Cardinality(at)
           kept == Filtered(events, at)
           source(k) == CHOOSE i \in at : Rank(at, i) = k
<1>1. Len(events) \in Nat /\ DOMAIN events = 1..Len(events)
  OBVIOUS
<1>2. /\ \A k \in 1..size : \E i \in at : Rank(at, i) = k
      /\ \A i \in at : Rank(at, i) \in 1..size
      /\ \A i, j \in at : Rank(at, i) = Rank(at, j) => i = j
  BY <1>1, RanksCover
<1>3. kept = [k \in 1..size |-> events[source(k)]]
  BY DEF Filtered, Rank
<1>4. \A k \in 1..size : source(k) \in at /\ Rank(at, source(k)) = k
  BY <1>2
<1>5. \A i \in at : source(Rank(at, i)) = i
  <2> HIDE DEF size, source
  <2>1. ASSUME NEW i \in at PROVE source(Rank(at, i)) = i
    BY <1>2, <1>4
  <2> QED BY <2>1
<1> HIDE DEF size, source, kept
<1>6. DOMAIN kept = 1..size /\ \A k \in 1..size : kept[k] = events[source(k)]
  BY <1>3
<1>7. {kept[k] : k \in DOMAIN kept} = {events[i] : i \in at}
  <2>1. \A k \in 1..size : \E i \in at : kept[k] = events[i]
    BY <1>4, <1>6
  <2>2. \A i \in at : \E k \in 1..size : kept[k] = events[i]
    BY <1>2, <1>5, <1>6
  <2>3. {kept[k] : k \in DOMAIN kept} = {kept[k] : k \in 1..size}
    BY <1>6
  <2>4. {kept[k] : k \in 1..size} = {events[i] : i \in at}
    BY ONLY <2>1, <2>2
  <2> QED BY <2>3, <2>4
<1>8. ASSUME IsInjective(events) PROVE IsInjective(kept)
  <2>1. ASSUME NEW k \in 1..size, NEW l \in 1..size, kept[k] = kept[l] PROVE k = l
    BY <1>4, <1>6, <1>8, <2>1 DEF IsInjective
  <2> QED BY <1>6, <2>1 DEF IsInjective
<1> QED BY <1>7, <1>8 DEF kept
=============================================================================
