---------------------------- MODULE TrailsProofs ----------------------------
(***************************************************************************)
(* What Picked returns, for sequences and places of any number, and how it *)
(* changes when a sequence grows by one element.                           *)
(***************************************************************************)
EXTENDS Trails, SequencesExt, FiniteSetTheorems, TLAPS

(* A sequence, of whatever its elements are.                               *)
IsSequence(s) == s \in Seq(ToSet(s))

(* The elements of a sequence are those at its places.                     *)
LEMMA Elements ==
  ASSUME NEW s, IsSequence(s)
  PROVE  /\ Len(s) \in Nat /\ DOMAIN s = 1 .. Len(s)
         /\ \A x : x \in ToSet(s) <=> \E i \in 1 .. Len(s) : x = s[i]
         /\ \A x : Contains(s, x) <=> x \in ToSet(s)
BY DEF IsSequence, ToSet, Contains

(* What appending does to a sequence and to the set of its elements.       *)
LEMMA Appended ==
  ASSUME NEW s, IsSequence(s), NEW x
  PROVE  /\ IsSequence(Append(s, x))
         /\ Len(Append(s, x)) = Len(s) + 1
         /\ DOMAIN Append(s, x) = 1 .. Len(s) + 1
         /\ \A i \in 1 .. Len(s) : Append(s, x)[i] = s[i]
         /\ Append(s, x)[Len(s) + 1] = x
         /\ ToSet(Append(s, x)) = ToSet(s) \cup {x}
<1> DEFINE t == Append(s, x)
           n == Len(s)
<1>1. /\ n \in Nat /\ DOMAIN s = 1 .. n
      /\ Len(t) = n + 1 /\ DOMAIN t = 1 .. n + 1
      /\ t[n + 1] = x /\ \A i \in 1 .. n : t[i] = s[i]
  BY DEF IsSequence
<1>2. t \in Seq(ToSet(s) \cup {x})
  <2>1. s \in Seq(ToSet(s) \cup {x})
    BY DEF IsSequence
  <2> HIDE DEF IsSequence
  <2> QED
    BY <2>1
<1> HIDE DEF t, n
<1>3. ToSet(t) = ToSet(s) \cup {x}
  <2>1. \A i : i \in 1 .. n + 1 <=> i \in 1 .. n \/ i = n + 1
    BY <1>1
  <2> QED
    BY <1>1, <2>1 DEF ToSet
<1> QED
  BY <1>1, <1>2, <1>3 DEF t, n, IsSequence

-----------------------------------------------------------------------------
(* A strict order of a finite set numbers its members: each has a rank of  *)
(* its own, the number of members below it, and the ranks follow the order.*)
Below(R, S, i) == {j \in S : <<j, i>> \in R}
StrictOrder(R, S) ==
  /\ \A i \in S : <<i, i>> \notin R
  /\ \A i, j \in S : i = j \/ <<i, j>> \in R \/ <<j, i>> \in R
  /\ \A i, j, k \in S : <<i, j>> \in R /\ <<j, k>> \in R => <<i, k>> \in R

Ranked(R, S) ==
  /\ \A i \in S : Cardinality(Below(R, S, i)) \in 0 .. Cardinality(S) - 1
  /\ \A i, j \in S :
       <<i, j>> \in R <=> Cardinality(Below(R, S, i)) < Cardinality(Below(R, S, j))
  /\ \A k \in 0 .. Cardinality(S) - 1 : \E i \in S : Cardinality(Below(R, S, i)) = k

(* In a finite set that is strictly ordered the number of elements below   *)
(* one is its rank.                                                        *)
LEMMA Ranks ==
  ASSUME NEW S, IsFiniteSet(S), NEW R, StrictOrder(R, S)
  PROVE  Ranked(R, S)
<1> DEFINE c == Cardinality(S)
           rank == [i \in S |-> Cardinality(Below(R, S, i))]
<1>1. c \in Nat
  BY FS_CardinalityType
<1>2. ASSUME NEW i \in S
      PROVE  /\ IsFiniteSet(Below(R, S, i)) /\ Cardinality(Below(R, S, i)) \in Nat
             /\ Cardinality(Below(R, S, i)) \in 0 .. c - 1
  <2>1. Below(R, S, i) \in SUBSET S /\ Below(R, S, i) # S
    BY DEF Below, StrictOrder
  <2> QED
    BY <1>1, <2>1, FS_Subset, FS_CardinalityType
<1>3. ASSUME NEW i \in S, NEW j \in S, <<i, j>> \in R
      PROVE  Cardinality(Below(R, S, i)) < Cardinality(Below(R, S, j))
  <2>1. /\ Below(R, S, i) \in SUBSET Below(R, S, j)
        /\ i \in Below(R, S, j) /\ i \notin Below(R, S, i)
    BY <1>3 DEF Below, StrictOrder
  <2>2. Below(R, S, i) # Below(R, S, j)
    BY <2>1
  <2>3. /\ Cardinality(Below(R, S, i)) <= Cardinality(Below(R, S, j))
        /\ Cardinality(Below(R, S, i)) # Cardinality(Below(R, S, j))
    BY <1>2, <2>1, <2>2, FS_Subset
  <2> QED
    BY <1>2, <2>3
<1>4. ASSUME NEW i \in S, NEW j \in S
      PROVE  <<i, j>> \in R <=> Cardinality(Below(R, S, i)) < Cardinality(Below(R, S, j))
  <2>1. i = j \/ <<i, j>> \in R \/ <<j, i>> \in R
    BY DEF StrictOrder
  <2>2. CASE i = j
    BY <1>2, <2>2 DEF StrictOrder
  <2>3. CASE <<i, j>> \in R
    BY <1>3, <2>3
  <2>4. CASE <<j, i>> \in R
    <3>1. Cardinality(Below(R, S, j)) < Cardinality(Below(R, S, i))
      BY <1>3, <2>4
    <3> QED
      BY <1>2, <1>3, <3>1
  <2> QED
    BY <2>1, <2>2, <2>3, <2>4
<1>5. rank \in Injection(S, 0 .. c - 1)
  <2>1. rank \in [S -> 0 .. c - 1]
    BY <1>2
  <2>2. ASSUME NEW i \in S, NEW j \in S, rank[i] = rank[j]
        PROVE  i = j
    <3>1. Cardinality(Below(R, S, i)) = Cardinality(Below(R, S, j))
      BY <2>2
    <3> HIDE DEF rank
    <3>2. <<i, j>> \notin R /\ <<j, i>> \notin R
      BY <1>2, <1>3, <3>1
    <3> QED
      BY <3>2 DEF StrictOrder
  <2> QED
    BY <2>1, <2>2 DEF Injection, IsInjective
<1>6. IsFiniteSet(0 .. c - 1) /\ Cardinality(0 .. c - 1) = c
  <2>1. 0 \in Int /\ c - 1 \in Int /\ (IF 0 > c - 1 THEN 0 ELSE (c - 1) - 0 + 1) = c
    BY <1>1
  <2> HIDE DEF c
  <2> QED
    BY <2>1, FS_Interval
<1>7. rank \in Surjection(S, 0 .. c - 1)
  BY <1>5, <1>6, FS_Injection
<1>8. \A k \in 0 .. c - 1 : \E i \in S : rank[i] = k
  BY <1>7, Zenon DEF Surjection
<1> QED
  BY <1>2, <1>4, <1>8 DEF Ranked

(* The same of the order of a set of integers.                             *)
Before(places, i) == {j \in places : j < i}

(* Places in a sequence are so ordered.                                    *)
LEMMA PlacesHaveRanks ==
  ASSUME NEW places \in SUBSET Int, IsFiniteSet(places)
  PROVE  /\ \A i \in places : Cardinality(Before(places, i)) \in 0 .. Cardinality(places) - 1
         /\ \A i, j \in places :
              i < j <=> Cardinality(Before(places, i)) < Cardinality(Before(places, j))
         /\ \A k \in 0 .. Cardinality(places) - 1 :
              \E i \in places : Cardinality(Before(places, i)) = k
<1> DEFINE R == {pair \in places \X places : pair[1] < pair[2]}
<1>1. \A i, j \in places : i \in Int /\ j \in Int /\ (<<i, j>> \in R <=> i < j)
  OBVIOUS
<1> HIDE DEF R
<1>2. StrictOrder(R, places)
  BY <1>1 DEF StrictOrder
<1>3. \A i \in places : Below(R, places, i) = Before(places, i)
  BY <1>1 DEF Below, Before
<1>4. Ranked(R, places)
  BY <1>2, Ranks
<1> QED
  BY <1>1, <1>3, <1>4 DEF Ranked

(* And every rank is that of some place.                                   *)
LEMMA EveryRankIsTaken ==
  ASSUME NEW places \in SUBSET Int, IsFiniteSet(places),
         NEW k \in 1 .. Cardinality(places)
  PROVE  \E i \in places : Cardinality(Before(places, i)) = k - 1
<1>1. Cardinality(places) \in Nat
  BY FS_CardinalityType
<1>2. k - 1 \in 0 .. Cardinality(places) - 1
  BY <1>1
<1> QED
  BY <1>2, PlacesHaveRanks

(* The place an element was picked from.                                   *)
PlaceOf(places, k) ==
  CHOOSE i \in places : Cardinality({j \in places : j < i}) = k - 1

(* The elements picked come from those places, earlier ones from earlier.  *)
LEMMA PickedElements ==
  ASSUME NEW s, NEW places \in SUBSET Int, IsFiniteSet(places)
  PROVE  /\ Cardinality(places) \in Nat
         /\ DOMAIN Picked(s, places) = 1 .. Cardinality(places)
         /\ \A k \in 1 .. Cardinality(places) :
              /\ PlaceOf(places, k) \in places
              /\ Cardinality(Before(places, PlaceOf(places, k))) = k - 1
              /\ Picked(s, places)[k] = s[PlaceOf(places, k)]
<1>1. Cardinality(places) \in Nat
  BY FS_CardinalityType
<1>2. ASSUME NEW k \in 1 .. Cardinality(places)
      PROVE  /\ PlaceOf(places, k) \in places
             /\ Cardinality(Before(places, PlaceOf(places, k))) = k - 1
  BY EveryRankIsTaken DEF PlaceOf, Before
<1> QED
  BY <1>1, <1>2 DEF Picked, PlaceOf

(* Every place is picked from, and they are picked from in their order.    *)
LEMMA PlacesInOrder ==
  ASSUME NEW s, NEW places \in SUBSET Int, IsFiniteSet(places)
  PROVE  /\ \A k, l \in 1 .. Cardinality(places) :
              k < l => PlaceOf(places, k) < PlaceOf(places, l)
         /\ \A i \in places : \E k \in 1 .. Cardinality(places) : PlaceOf(places, k) = i
         /\ ToSet(Picked(s, places)) = {s[i] : i \in places}
<1> DEFINE c == Cardinality(places)
<1>1. c \in Nat
  BY FS_CardinalityType
<1>2. \A k \in 1 .. c : /\ PlaceOf(places, k) \in places /\ PlaceOf(places, k) \in Int
                        /\ Cardinality(Before(places, PlaceOf(places, k))) = k - 1
  <2>1. \A i \in places : i \in Int
    OBVIOUS
  <2> QED
    BY <2>1, PickedElements
<1>3. /\ \A i \in places : Cardinality(Before(places, i)) \in 0 .. c - 1
      /\ \A i, j \in places :
           i < j <=> Cardinality(Before(places, i)) < Cardinality(Before(places, j))
  BY PlacesHaveRanks
<1> HIDE DEF c
<1>4. \A k, l \in 1 .. c : k < l => PlaceOf(places, k) < PlaceOf(places, l)
  <2>1. ASSUME NEW k \in 1 .. c, NEW l \in 1 .. c, k < l
        PROVE  PlaceOf(places, k) < PlaceOf(places, l)
    <3>1. k - 1 < l - 1
      BY <1>1, <2>1
    <3> QED
      BY <1>2, <1>3, <3>1
  <2> QED
    BY <2>1
<1>5. ASSUME NEW i \in places
      PROVE  \E k \in 1 .. c : PlaceOf(places, k) = i
  <2>1. PICK k \in 1 .. c : k - 1 = Cardinality(Before(places, i))
    <3>1. Cardinality(Before(places, i)) + 1 \in 1 .. c
      BY <1>1, <1>3
    <3>2. (Cardinality(Before(places, i)) + 1) - 1 = Cardinality(Before(places, i))
      BY <1>3
    <3> QED
      BY <3>1, <3>2
  <2>2. PICK x \in places : /\ x = PlaceOf(places, k)
                            /\ Cardinality(Before(places, x)) = Cardinality(Before(places, i))
    BY <1>2, <2>1
  <2>3. Cardinality(Before(places, x)) \in Int /\ i \in Int /\ x \in Int
    BY <1>3, <2>1, <2>2
  <2>4. ~(x < i) /\ ~(i < x)
    BY <1>3, <2>2, <2>3
  <2> QED
    BY <2>2, <2>3, <2>4
<1>6. ToSet(Picked(s, places)) = {s[i] : i \in places}
  <2>1. /\ DOMAIN Picked(s, places) = 1 .. c
        /\ \A k \in 1 .. c : Picked(s, places)[k] = s[PlaceOf(places, k)]
    BY PickedElements DEF c
  <2> QED
    BY <1>2, <1>5, <2>1 DEF ToSet
<1> QED
  BY <1>4, <1>5, <1>6 DEF c

(* Of no place, nothing.                                                   *)
LEMMA NothingIsPicked ==
  ASSUME NEW s
  PROVE  Picked(s, {}) = <<>>
<1>1. Picked(s, {}) = [k \in 1 .. 0 |-> s[PlaceOf({}, k)]]
  BY FS_EmptySet DEF Picked, PlaceOf
<1>2. [k \in 1 .. 0 |-> s[PlaceOf({}, k)]] = <<>>
  OBVIOUS
<1> QED
  BY <1>1, <1>2

(* A sequence that grows by an element picked adds it at the end of what   *)
(* is picked; one that grows by any other leaves it as it is.              *)
LEMMA PickedGrows ==
  ASSUME NEW S, NEW s \in Seq(S), NEW x, NEW places \in SUBSET (1 .. Len(s))
  PROVE  /\ Picked(Append(s, x), places) = Picked(s, places)
         /\ Picked(Append(s, x), places \cup {Len(s) + 1}) = Append(Picked(s, places), x)
<1> DEFINE n == Len(s)
           t == Append(s, x)
           more == places \cup {n + 1}
           c == Cardinality(places)
<1>0. /\ n \in Nat /\ \A i \in places : i \in 1 .. n
      /\ t[n + 1] = x /\ \A i \in 1 .. n : t[i] = s[i]
  <2>1. n \in Nat /\ \A i \in places : i \in 1 .. n
    OBVIOUS
  <2>2. t[n + 1] = x
    OBVIOUS
  <2>3. \A i \in 1 .. n : t[i] = s[i]
    OBVIOUS
  <2> HIDE DEF n, t
  <2> QED
    BY <2>1, <2>2, <2>3
<1>1. places \in SUBSET Int /\ IsFiniteSet(places) /\ c \in Nat
  <2>1. places \in SUBSET (1 .. n) /\ 1 \in Int /\ n \in Int
    BY <1>0
  <2>2. IsFiniteSet(1 .. n)
    BY <2>1, FS_Interval
  <2> HIDE DEF n
  <2>3. IsFiniteSet(places)
    BY <2>1, <2>2, FS_Subset
  <2> QED
    BY <2>1, <2>3, FS_CardinalityType
<1>2. more \in SUBSET Int /\ IsFiniteSet(more) /\ Cardinality(more) = c + 1
  <2>1. n + 1 \notin places /\ n + 1 \in Int
    BY <1>0
  <2> HIDE DEF n
  <2> QED
    BY <1>1, <2>1, FS_AddElement
<1> HIDE DEF n, t, c
<1>3. /\ \A k \in 1 .. c : PlaceOf(places, k) \in places
      /\ Picked(s, places) = [k \in 1 .. c |-> s[PlaceOf(places, k)]]
      /\ Picked(t, places) = [k \in 1 .. c |-> t[PlaceOf(places, k)]]
      /\ Picked(t, more) = [k \in 1 .. c + 1 |-> t[PlaceOf(more, k)]]
  BY <1>1, <1>2, PickedElements DEF Picked, PlaceOf, c
<1>4. \A k \in 1 .. c : t[PlaceOf(places, k)] = s[PlaceOf(places, k)]
  BY <1>0, <1>3
<1>5. /\ \A i \in places : Before(more, i) = Before(places, i)
      /\ Before(more, n + 1) = places
  <2>1. \A i \in places : i < n + 1 /\ ~(n + 1 < i)
    BY <1>0
  <2>2. ~(n + 1 < n + 1)
    BY <1>0
  <2>3. ASSUME NEW i \in places, NEW j
        PROVE  j \in Before(more, i) <=> j \in Before(places, i)
    BY <2>1 DEF Before
  <2>4. ASSUME NEW j
        PROVE  j \in Before(more, n + 1) <=> j \in places
    BY <2>1, <2>2 DEF Before
  <2> QED
    BY <2>3, <2>4
<1>6. ASSUME NEW k \in 1 .. c
      PROVE  PlaceOf(more, k) = PlaceOf(places, k)
  <2>1. \A i : i \in more /\ Cardinality(Before(more, i)) = k - 1
                <=> i \in places /\ Cardinality(Before(places, i)) = k - 1
    <3>1. c # k - 1
      BY <1>1
    <3> QED
      BY <1>5, <3>1 DEF c
  <2> QED
    BY <2>1, Zenon DEF PlaceOf, Before
<1>7. PlaceOf(more, c + 1) = n + 1
  <2>1. PlaceOf(more, c + 1) \in more /\ Cardinality(Before(more, PlaceOf(more, c + 1))) = c
    <3>1. c + 1 \in 1 .. c + 1 /\ (c + 1) - 1 = c
      BY <1>1
    <3> QED
      BY <1>2, <3>1, PickedElements
  <2>2. ASSUME NEW i \in places
        PROVE  Cardinality(Before(places, i)) # c
    <3>1. /\ Before(places, i) \in SUBSET places
          /\ Before(places, i) # places
      BY <1>1 DEF Before
    <3> QED
      BY <1>1, <3>1, FS_Subset DEF c
  <2> QED
    BY <1>5, <2>1, <2>2
<1>8. Picked(t, places) = Picked(s, places)
  BY <1>3, <1>4
<1>9. Picked(t, more) = Append(Picked(s, places), x)
  <2>1. /\ Picked(s, places) \in Seq({s[i] : i \in places})
        /\ Len(Picked(s, places)) = c
    BY <1>1, <1>3
  <2>2. Append(Picked(s, places), x) =
          [k \in 1 .. c + 1 |-> IF k = c + 1 THEN x ELSE s[PlaceOf(places, k)]]
    BY <1>1, <1>3, <2>1
  <2>3. \A k \in 1 .. c + 1 : t[PlaceOf(more, k)] =
          IF k = c + 1 THEN x ELSE s[PlaceOf(places, k)]
    <3>1. \A k \in 1 .. c + 1 : k = c + 1 \/ (k \in 1 .. c /\ k # c + 1)
      BY <1>1
    <3>2. \A k \in 1 .. c : t[PlaceOf(more, k)] = s[PlaceOf(places, k)]
      BY <1>4, <1>6
    <3>3. t[PlaceOf(more, c + 1)] = x
      BY <1>0, <1>7
    <3> QED
      BY <3>1, <3>2, <3>3
  <2> QED
    BY <1>3, <2>2, <2>3
<1> QED
  BY <1>8, <1>9 DEF t, n
=============================================================================
