---------------------------- MODULE SublistsProofs ----------------------------
(***************************************************************************)
(* What Picked keeps: every chosen entry, once, in order.                  *)
(***************************************************************************)
EXTENDS Sublists, Integers, FiniteSetTheorems, WellFoundedInduction, TLAPS

-----------------------------------------------------------------------------
\* Induction over the naturals, as facts about sets of numbers.

\* A set of numbers has a least one.
LEMMA LeastNumber ==
  ASSUME NEW T \in SUBSET Nat, T # {}
  PROVE  \E n \in T : \A m \in T : n <= m
<1> DEFINE R == OpToRel(<, Nat)
<1>1. IsWellFoundedOn(R, Nat)
  BY NatLessThanWellFounded
<1>2. \A x, y \in Nat : <<x, y>> \in R <=> x < y
  BY DEF OpToRel
<1> HIDE DEF R
<1>3. PICK n \in T : \A m \in T : ~(<<m, n>> \in R)
  BY <1>1, WFMin
<1>4. \A m \in T : m \in Nat /\ n \in Nat /\ ~(m < n)
  BY <1>2, <1>3
<1>5. \A m \in T : n <= m
  BY <1>4
<1>. QED BY <1>5

\* A set that holds 0, and with each number up to b the next one, holds them all.
LEMMA NumbersUpTo ==
  ASSUME NEW b \in Nat, NEW T, 0 \in T, \A n \in 0..(b - 1) : n \in T => n + 1 \in T
  PROVE  0..b \subseteq T
<1> DEFINE Out == {n \in 0..b : n \notin T}
<1>1. CASE Out # {}
  <2>0. Out \in SUBSET Nat
    OBVIOUS
  <2>1. PICK m \in Out : \A n \in Out : m <= n
    <3> HIDE DEF Out
    <3>. QED BY <1>1, <2>0, LeastNumber
  <2>2. m \in Nat /\ m # 0 /\ m <= b /\ m \notin T
    BY <2>1
  <2>3. m - 1 \in 0..(b - 1) /\ m - 1 \notin Out
    BY <2>1, <2>2
  <2>4. m - 1 \in T /\ (m - 1) + 1 = m
    BY <2>2, <2>3
  <2>. QED BY <2>2, <2>3, <2>4
<1>. QED BY <1>1

-----------------------------------------------------------------------------
\* Counting places.

LEMMA CountInterval ==
  ASSUME NEW n \in Nat
  PROVE  IsFiniteSet(1..n) /\ Cardinality(1..n) = n
<1>1. n \in Int /\ 1 \in Int
  OBVIOUS
<1>2. /\ IsFiniteSet(1..n)
      /\ Cardinality(1..n) = IF 1 > n THEN 0 ELSE n - 1 + 1
  BY <1>1, FS_Interval, Zenon
<1>. QED BY <1>2

\* Places are finitely many numbers, and so are those up to any number.
LEMMA PlacesFinite ==
  ASSUME NEW n \in Nat, NEW P \in SUBSET (1..n)
  PROVE  /\ IsFiniteSet(P) /\ Cardinality(P) \in Nat
         /\ \A j \in P : j \in Nat /\ j >= 1 /\ j <= n
         /\ \A m \in Nat : /\ IsFiniteSet({j \in P : j <= m})
                           /\ UpTo(P, m) \in Nat /\ UpTo(P, m) <= Cardinality(P)
<1>1. IsFiniteSet(1..n)
  BY CountInterval
<1>2. IsFiniteSet(P) /\ Cardinality(P) \in Nat
  BY <1>1, FS_Subset, FS_CardinalityType
<1>3. ASSUME NEW m \in Nat
      PROVE  /\ IsFiniteSet({j \in P : j <= m})
             /\ UpTo(P, m) \in Nat /\ UpTo(P, m) <= Cardinality(P)
  <2> DEFINE Q == {j \in P : j <= m}
  <2>1. Q \in SUBSET P
    OBVIOUS
  <2> HIDE DEF Q
  <2>2. IsFiniteSet(Q) /\ Cardinality(Q) <= Cardinality(P)
    BY <1>2, <2>1, FS_Subset
  <2>3. Cardinality(Q) \in Nat
    BY <2>2, FS_CardinalityType
  <2>. QED BY <2>2, <2>3 DEF Q, UpTo
<1>4. \A j \in P : j \in Nat /\ j >= 1 /\ j <= n
  <2>1. \A j \in P : j \in 1..n
    OBVIOUS
  <2>. QED BY <2>1
<1>. QED BY <1>2, <1>3, <1>4

\* No place is 0, and all are at most n.
LEMMA UpToEnds ==
  ASSUME NEW n \in Nat, NEW P \in SUBSET (1..n)
  PROVE  UpTo(P, 0) = 0 /\ UpTo(P, n) = Cardinality(P)
<1>0. \A j \in P : j \in Nat /\ j >= 1 /\ j <= n
  BY PlacesFinite
<1>1. {j \in P : j <= 0} = {}
  <2>1. \A j \in P : ~(j <= 0)
    BY <1>0
  <2>. QED BY <2>1
<1>2. {j \in P : j <= n} = P
  BY <1>0
<1>. QED BY <1>1, <1>2, FS_EmptySet DEF UpTo

\* Each place counts one more than the places before it.
LEMMA UpToStep ==
  ASSUME NEW n \in Nat, NEW P \in SUBSET (1..n), NEW i \in Nat
  PROVE  /\ i + 1 \in P => UpTo(P, i + 1) = UpTo(P, i) + 1
         /\ i + 1 \notin P => UpTo(P, i + 1) = UpTo(P, i)
<1> DEFINE Q(m) == {j \in P : j <= m}
<1>1. /\ \A j \in P : j \in Nat
      /\ IsFiniteSet(Q(i))
  BY PlacesFinite
<1>2. CASE i + 1 \in P
  <2>1. Q(i + 1) = Q(i) \union {i + 1} /\ i + 1 \notin Q(i)
    <3>1. \A j \in P : j <= i + 1 <=> j <= i \/ j = i + 1
      BY <1>1
    <3>2. ~(i + 1 <= i)
      OBVIOUS
    <3>3. Q(i + 1) = Q(i) \union {i + 1}
      BY <1>2, <3>1, Zenon
    <3>. QED BY <3>2, <3>3
  <2> HIDE DEF Q
  <2>2. Cardinality(Q(i + 1)) = Cardinality(Q(i)) + 1
    BY <1>1, <2>1, FS_AddElement
  <2>. QED BY <1>2, <2>2 DEF UpTo, Q
<1>3. CASE i + 1 \notin P
  <2>1. Q(i + 1) = Q(i)
    <3>1. \A j \in P : j <= i + 1 <=> j <= i
      BY <1>1, <1>3
    <3>. QED BY <3>1
  <2>. QED BY <1>3, <2>1 DEF UpTo
<1>. QED BY <1>2, <1>3

\* The count grows from place to place.
LEMMA UpToGrows ==
  ASSUME NEW n \in Nat, NEW P \in SUBSET (1..n), NEW i \in P, NEW j \in P, i < j
  PROVE  UpTo(P, i) < UpTo(P, j)
<1> DEFINE Q(m) == {k \in P : k <= m}
<1>1. \A k \in P : k \in Nat
  BY PlacesFinite
<1>2. /\ IsFiniteSet(Q(j)) /\ UpTo(P, i) \in Nat /\ UpTo(P, j) \in Nat
  BY <1>1, PlacesFinite
<1>3. j \in Q(j) /\ j \notin Q(i) /\ Q(i) \in SUBSET Q(j)
  <2>1. i \in Nat /\ j \in Nat
    BY <1>1
  <2>2. j <= j /\ ~(j <= i) /\ \A k \in P : k <= i => k <= j
    BY <1>1, <2>1
  <2>. QED BY <2>2
<1>4. UpTo(P, i) = Cardinality(Q(i)) /\ UpTo(P, j) = Cardinality(Q(j))
  BY DEF UpTo
<1> HIDE DEF Q
<1>5. Cardinality(Q(i)) <= Cardinality(Q(j)) /\ Cardinality(Q(i)) # Cardinality(Q(j))
  BY <1>2, <1>3, FS_Subset
<1>. QED BY <1>2, <1>4, <1>5

\* There is a k-th place for every k up to the number of places.
LEMMA PlaceExists ==
  ASSUME NEW n \in Nat, NEW P \in SUBSET (1..n), NEW k \in 1..Cardinality(P)
  PROVE  Place(P, k) \in P /\ UpTo(P, Place(P, k)) = k
<1> DEFINE T == {m \in Nat : UpTo(P, m) >= k}
<1>1. Cardinality(P) \in Nat /\ k \in Nat /\ k >= 1 /\ k <= Cardinality(P)
  BY PlacesFinite
<1>2. n \in T /\ 0 \notin T /\ T \in SUBSET Nat
  BY <1>1, UpToEnds
<1>3. PICK m \in T : \A i \in T : m <= i
  <2> HIDE DEF T
  <2>. QED BY <1>2, LeastNumber
<1>4. m # 0 /\ m \in Nat
  BY <1>2, <1>3
<1>5. m - 1 \in Nat /\ ~(UpTo(P, m - 1) >= k) /\ UpTo(P, m - 1) \in Nat
  <2>1. m - 1 \in Nat /\ m - 1 \notin T
    BY <1>3, <1>4
  <2>. QED BY <2>1, PlacesFinite
<1>6. UpTo(P, m) >= k /\ (m - 1) + 1 = m
  BY <1>3, <1>4
<1>7. /\ m \in P => UpTo(P, m) = UpTo(P, m - 1) + 1
      /\ m \notin P => UpTo(P, m) = UpTo(P, m - 1)
  <2>1. /\ (m - 1) + 1 \in P => UpTo(P, (m - 1) + 1) = UpTo(P, m - 1) + 1
        /\ (m - 1) + 1 \notin P => UpTo(P, (m - 1) + 1) = UpTo(P, m - 1)
    BY <1>5, UpToStep
  <2>. QED BY <1>6, <2>1
<1>8. m \in P /\ UpTo(P, m) = k
  BY <1>1, <1>5, <1>6, <1>7
<1>. QED BY <1>8 DEF Place

\* The k-th place is the only one that counts k.
LEMMA PlaceIs ==
  ASSUME NEW n \in Nat, NEW P \in SUBSET (1..n), NEW i \in P
  PROVE  UpTo(P, i) \in 1..Cardinality(P) /\ Place(P, UpTo(P, i)) = i
<1>1. i \in Nat /\ i - 1 \in Nat /\ (i - 1) + 1 = i
  <2>1. i \in Nat /\ i >= 1
    BY PlacesFinite
  <2>. QED BY <2>1
<1>2. UpTo(P, i) = UpTo(P, i - 1) + 1 /\ UpTo(P, i - 1) \in Nat
  <2>1. (i - 1) + 1 \in P => UpTo(P, (i - 1) + 1) = UpTo(P, i - 1) + 1
    BY <1>1, UpToStep
  <2>. QED BY <1>1, <2>1, PlacesFinite
<1>3. UpTo(P, i) <= Cardinality(P) /\ Cardinality(P) \in Nat
  BY <1>1, PlacesFinite
<1>4. UpTo(P, i) \in 1..Cardinality(P)
  BY <1>2, <1>3
<1> DEFINE j == Place(P, UpTo(P, i))
<1>5. j \in P /\ UpTo(P, j) = UpTo(P, i)
  BY <1>4, PlaceExists
<1> HIDE DEF j
<1>6. i \in Nat /\ j \in Nat /\ UpTo(P, i) \in Nat /\ UpTo(P, j) \in Nat
  BY <1>5, PlacesFinite
<1>7. ~(i < j) /\ ~(j < i)
  BY <1>5, <1>6, UpToGrows
<1>8. i = j
  BY <1>6, <1>7
<1>. QED BY <1>4, <1>8 DEF j

-----------------------------------------------------------------------------
\* The entries.

LEMMA PickedType ==
  ASSUME NEW S, NEW s \in Seq(S), NEW P \in SUBSET (DOMAIN s)
  PROVE  /\ Picked(s, P) \in Seq(S)
         /\ Len(Picked(s, P)) = Cardinality(P) /\ Cardinality(P) \in Nat
         /\ DOMAIN Picked(s, P) = 1..Cardinality(P)
<1>1. Len(s) \in Nat /\ P \in SUBSET (1..Len(s))
  OBVIOUS
<1>0. Cardinality(P) \in Nat
  BY <1>1, PlacesFinite
<1>2. \A k \in 1..Cardinality(P) : s[Place(P, k)] \in S
  <2>1. \A k \in 1..Cardinality(P) : Place(P, k) \in P
    BY <1>1, PlaceExists
  <2>. QED BY <2>1
<1>. QED BY <1>0, <1>2 DEF Picked

\* Every entry of the result is one of the chosen entries, different entries come
\* from different places, and every chosen entry is there.
THEOREM PickedEntries ==
  ASSUME NEW S, NEW s \in Seq(S), NEW P \in SUBSET (DOMAIN s)
  PROVE  /\ \A k \in 1..Cardinality(P) :
                Place(P, k) \in P /\ Picked(s, P)[k] = s[Place(P, k)]
         /\ \A k, l \in 1..Cardinality(P) : k # l => Place(P, k) # Place(P, l)
         /\ \A i \in P : UpTo(P, i) \in 1..Cardinality(P)
                           /\ Picked(s, P)[UpTo(P, i)] = s[i]
<1>1. Len(s) \in Nat /\ P \in SUBSET (1..Len(s))
  OBVIOUS
<1>2. \A k \in 1..Cardinality(P) : Place(P, k) \in P /\ UpTo(P, Place(P, k)) = k
  BY <1>1, PlaceExists
<1>3. \A i \in P : UpTo(P, i) \in 1..Cardinality(P) /\ Place(P, UpTo(P, i)) = i
  BY <1>1, PlaceIs
<1>. QED BY <1>2, <1>3 DEF Picked

\* Keeping everything changes nothing.
LEMMA PickedAll ==
  ASSUME NEW S, NEW s \in Seq(S)
  PROVE  Picked(s, DOMAIN s) = s
<1> DEFINE n == Len(s)
<1>1. n \in Nat /\ DOMAIN s = 1..n
  OBVIOUS
<1> HIDE DEF n
<1>2. \A i \in 1..n : UpTo(1..n, i) = i
  <2> SUFFICES ASSUME NEW i \in 1..n PROVE UpTo(1..n, i) = i
    OBVIOUS
  <2>1. {j \in 1..n : j <= i} = 1..i /\ i \in Nat
    BY <1>1
  <2>. QED BY <2>1, CountInterval DEF UpTo
<1>3. Cardinality(1..n) = n
  BY <1>1, CountInterval
<1>4. \A i \in 1..n : Place(1..n, i) = i
  <2>1. \A i \in 1..n : Place(1..n, UpTo(1..n, i)) = i
    BY <1>1, PlaceIs
  <2>. QED BY <1>2, <2>1
<1>. QED BY <1>1, <1>3, <1>4 DEF Picked

\* Dropping one entry shifts those behind it.
LEMMA PickedButOne ==
  ASSUME NEW S, NEW s \in Seq(S), NEW i \in DOMAIN s
  PROVE  Picked(s, DOMAIN s \ {i}) =
            [k \in 1..(Len(s) - 1) |-> IF k < i THEN s[k] ELSE s[k + 1]]
<1> DEFINE n == Len(s)
           P == (1..n) \ {i}
<1>1. n \in Nat /\ DOMAIN s = 1..n /\ i \in 1..n /\ P \in SUBSET (1..n) /\ n - 1 \in Nat
  OBVIOUS
<1> HIDE DEF n
<1>2. IsFiniteSet(1..n) /\ Cardinality(1..n) = n
  BY <1>1, CountInterval
<1>3. Cardinality(P) = n - 1
  BY <1>1, <1>2, FS_RemoveElement
<1>4. \A m \in 1..(n - 1) : m < i => m \in P /\ UpTo(P, m) = m
  <2> SUFFICES ASSUME NEW m \in 1..(n - 1), m < i PROVE m \in P /\ UpTo(P, m) = m
    OBVIOUS
  <2>1. m \in Nat /\ m \in P /\ {j \in P : j <= m} = 1..m
    BY <1>1
  <2>. QED BY <2>1, CountInterval DEF UpTo
<1>5. \A m \in 1..(n - 1) : ~(m < i) => m + 1 \in P /\ UpTo(P, m + 1) = m
  <2> SUFFICES ASSUME NEW m \in 1..(n - 1), ~(m < i)
               PROVE  m + 1 \in P /\ UpTo(P, m + 1) = m
    OBVIOUS
  <2>1. m + 1 \in Nat /\ m + 1 \in P /\ {j \in P : j <= m + 1} = (1..(m + 1)) \ {i}
    BY <1>1
  <2>2. IsFiniteSet(1..(m + 1)) /\ Cardinality(1..(m + 1)) = m + 1 /\ i \in 1..(m + 1)
    BY <1>1, <2>1, CountInterval
  <2>3. Cardinality((1..(m + 1)) \ {i}) = (m + 1) - 1
    BY <2>2, FS_RemoveElement
  <2>4. (m + 1) - 1 = m
    OBVIOUS
  <2> HIDE DEF P
  <2>. QED BY <2>1, <2>3, <2>4 DEF UpTo
<1>6. \A m \in 1..(n - 1) : Place(P, m) = IF m < i THEN m ELSE m + 1
  <2>1. \A j \in P : Place(P, UpTo(P, j)) = j
    BY <1>1, PlaceIs
  <2>. QED BY <1>4, <1>5, <2>1
<1> HIDE DEF P
<1>7. Picked(s, P) = [k \in 1..(n - 1) |-> s[IF k < i THEN k ELSE k + 1]]
  BY <1>3, <1>6 DEF Picked
<1>8. \A k \in 1..(n - 1) :
         s[IF k < i THEN k ELSE k + 1] = IF k < i THEN s[k] ELSE s[k + 1]
  OBVIOUS
<1>9. Picked(s, P) = [k \in 1..(n - 1) |-> IF k < i THEN s[k] ELSE s[k + 1]]
  BY <1>7, <1>8
<1>. QED BY <1>1, <1>9 DEF n, P

\* Places of which each has all smaller ones with it are the first ones.
LEMMA FirstPlaces ==
  ASSUME NEW n \in Nat, NEW P \in SUBSET (1..n), \A i \in P : 1..i \subseteq P
  PROVE  Cardinality(P) \in 0..n /\ P = 1..Cardinality(P)
<1>1. \E m \in 0..n : P = 1..m
  <2>1. CASE P = 1..n
    BY <2>1
  <2>2. CASE P # 1..n
    <3> DEFINE Out == {i \in Nat : i \in 1..n /\ i \notin P}
    <3>1. Out \in SUBSET Nat /\ Out # {}
      <4>1. PICK i \in 1..n : i \notin P
        BY <2>2
      <4>2. i \in Out
        BY <4>1
      <4>. QED BY <4>2
    <3>2. PICK m \in Out : \A i \in Out : m <= i
      <4> HIDE DEF Out
      <4>. QED BY <3>1, LeastNumber
    <3>3. m \in 1..n /\ m \notin P
      BY <3>2
    <3>4. \A i \in 1..n : i < m => i \in P
      BY <3>2
    <3>5. \A i \in P : i < m
      BY <3>3
    <3>6. m - 1 \in 0..n /\ \A i : i \in 1..(m - 1) <=> i \in 1..n /\ i < m
      BY <3>3
    <3>7. P = 1..(m - 1)
      BY <3>4, <3>5, <3>6, Zenon
    <3>. QED BY <3>6, <3>7
  <2>. QED BY <2>1, <2>2
<1>. QED BY <1>1, CountInterval


\* A place after all the others is the last one picked.
LEMMA PickedGrows ==
  ASSUME NEW S, NEW s \in Seq(S), NEW k \in Nat, k + 1 <= Len(s), NEW P \in SUBSET (1..k)
  PROVE  Picked(s, P \union {k + 1}) = Append(Picked(s, P), s[k + 1])
<1> DEFINE Q == P \union {k + 1}
           c == Cardinality(P)
<1>1. /\ k + 1 \in Nat /\ Len(s) \in Nat /\ DOMAIN s = 1..Len(s)
      /\ Q \in SUBSET (1..(k + 1)) /\ P \in SUBSET (DOMAIN s) /\ Q \in SUBSET (DOMAIN s)
  OBVIOUS
<1>2. \A i \in P : i \in Nat /\ i <= k /\ i # k + 1
  OBVIOUS
<1>3. c \in Nat /\ IsFiniteSet(P) /\ Cardinality(Q) = c + 1
  <2>1. IsFiniteSet(P) /\ c \in Nat
    BY PlacesFinite
  <2>2. k + 1 \notin P
    BY <1>2
  <2>. QED BY <2>1, <2>2, FS_AddElement
<1>4. \A i \in P : UpTo(Q, i) = UpTo(P, i)
  <2>1. \A i \in P : {j \in Q : j <= i} = {j \in P : j <= i}
    BY <1>2
  <2>. QED BY <2>1 DEF UpTo
<1>5. UpTo(Q, k + 1) = c + 1
  BY <1>1, <1>3, UpToEnds
<1>6. k + 1 \in Q /\ \A i \in P : i \in Q
  OBVIOUS
<1>7. Place(Q, c + 1) = k + 1
  <2> HIDE DEF Q
  <2>. QED BY <1>1, <1>5, <1>6, PlaceIs
<1>8. ASSUME NEW j \in 1..c PROVE Place(Q, j) = Place(P, j)
  <2>1. Place(P, j) \in P /\ UpTo(P, Place(P, j)) = j
    BY PlaceExists
  <2>2. UpTo(Q, Place(P, j)) = j /\ Place(P, j) \in Q
    BY <1>4, <1>6, <2>1
  <2> HIDE DEF Q
  <2>3. Place(Q, UpTo(Q, Place(P, j))) = Place(P, j)
    BY <1>1, <2>2, PlaceIs
  <2>. QED BY <2>2, <2>3
<1>9. Picked(s, P) \in Seq(S) /\ Len(Picked(s, P)) = c
  BY <1>1, PickedType
<1>10. Picked(s, Q) = [j \in 1..(c + 1) |-> s[Place(Q, j)]]
  BY <1>3 DEF Picked
<1>11. \A j \in 1..c : Picked(s, P)[j] = s[Place(P, j)]
  BY DEF Picked
<1> HIDE DEF Q, c
<1>12. Append(Picked(s, P), s[k + 1]) =
         [j \in 1..(c + 1) |-> IF j = c + 1 THEN s[k + 1] ELSE Picked(s, P)[j]]
  BY <1>3, <1>9
<1>13. \A j \in 1..(c + 1) :
         s[Place(Q, j)] = IF j = c + 1 THEN s[k + 1] ELSE Picked(s, P)[j]
  BY <1>3, <1>7, <1>8, <1>11
<1>14. Picked(s, Q) = Append(Picked(s, P), s[k + 1])
  BY <1>10, <1>12, <1>13
<1>. QED BY <1>14 DEF Q

LEMMA PickedNothing ==
  ASSUME NEW S, NEW s \in Seq(S)
  PROVE  Picked(s, {}) = <<>>
<1>1. Picked(s, {}) \in Seq(S) /\ Len(Picked(s, {})) = Cardinality({})
  BY PickedType
<1>2. Cardinality({}) = 0
  BY FS_EmptySet
<1>. QED BY <1>1, <1>2
=============================================================================
