--------------------------- MODULE MttkrpTileProofs ---------------------------
(***************************************************************************)
(* Proofs about MttkrpTile, for every number of lanes, elements and rows   *)
(* and every size of the stash: the sort brings the elements of a row      *)
(* together, and every element is added to its row once.                   *)
(*                                                                         *)
(* The place of a lane is the number of lanes ahead of it in a strict      *)
(* order, by first lane of the group and then by lane.  So the places are  *)
(* 0 .. TILE_SIZE - 1, each taken by one lane (Sorted), groups are runs of *)
(* places, and idle lanes, whose group begins last, have the last ones.    *)
(* The account of a row (RowIsWhole) is then that a run holds elements of  *)
(* one row which nothing else holds (RunIsNew), and that a row waits in    *)
(* one line of the stash only (Held).                                      *)
(***************************************************************************)
EXTENDS MttkrpTile, FiniteSetTheorems, WellFoundedInduction, TLAPS

-------------------------------------------------------------------------------
(* Least elements, and the cardinality of finite sets. *)

\* A non-empty collection of finite sets has a member that includes no other.
LEMMA LeastSet ==
  ASSUME NEW S, IsFiniteSet(S), NEW T \in SUBSET SUBSET S, T # {}
  PROVE  \E m \in T : \A s \in T : s \subseteq m => s = m
  <1>1. T \subseteq FiniteSubsetsOf(S)
    BY FS_Subset DEF FiniteSubsetsOf
  <1>2. \E m \in T : \A s \in T : ~ (<<s, m>> \in StrictSubsetOrdering(S))
    BY <1>1, FS_StrictSubsetOrderingWellFounded, WFMin
  <1> QED
    BY <1>2 DEF StrictSubsetOrdering

LEMMA LeastNumber ==
  ASSUME NEW k \in Nat, NEW S \in SUBSET (0 .. k), S # {}
  PROVE  \E m \in S : \A x \in S : m <= x
  <1> DEFINE T == {0 .. x : x \in S}
  <1>1. IsFiniteSet(0 .. k)
    BY FS_Interval
  <1>2. T \in SUBSET SUBSET (0 .. k) /\ T # {}
    <2>1. \A x \in S : 0 .. x \in SUBSET (0 .. k)
      OBVIOUS
    <2> QED
      BY <2>1
  <1>3. \E t \in T : \A s \in T : s \subseteq t => s = t
    <2> HIDE DEF T
    <2>1. PICK U, V : U = 0 .. k /\ V = T
      OBVIOUS
    <2>2. IsFiniteSet(U) /\ V \in SUBSET SUBSET U /\ V # {}
      BY <1>1, <1>2, <2>1
    <2>3. \E t \in V : \A s \in V : s \subseteq t => s = t
      BY <2>2, LeastSet
    <2> QED
      BY <2>1, <2>3
  <1>4. PICK t \in T : \A s \in T : s \subseteq t => s = t
    BY <1>3
  <1>5. PICK m \in S : t = 0 .. m
    OBVIOUS
  <1>6. ASSUME NEW x \in S
        PROVE  m <= x
    <2> SUFFICES ASSUME x < m
                 PROVE  FALSE
      OBVIOUS
    <2>1. 0 .. x \in T /\ 0 .. x \subseteq 0 .. m
      OBVIOUS
    <2>2. 0 .. x = 0 .. m
      BY <1>4, <1>5, <2>1
    <2>3. m \in 0 .. m /\ m \notin 0 .. x
      OBVIOUS
    <2> QED
      BY <2>2, <2>3
  <1> QED
    BY <1>6

LEMMA MinIsLeast ==
  ASSUME NEW k \in Nat, NEW S \in SUBSET (0 .. k), S # {}
  PROVE  Min(S) \in S /\ \A x \in S : Min(S) <= x
  <1>1. \E m \in S : \A x \in S : m <= x
    BY LeastNumber
  <1> QED
    BY <1>1 DEF Min

LEMMA MaxOfOne == ASSUME NEW x \in Nat
                  PROVE  Max({x}) = x
  BY DEF Max

\* As many elements as the length of the interval they are numbered by.
LEMMA CountOfImage ==
  ASSUME NEW a \in Nat, NEW c \in Nat, a <= c, NEW f,
         \A i, j \in a .. c - 1 : f[i] = f[j] => i = j
  PROVE  Cardinality({f[i] : i \in a .. c - 1}) = c - a
  <1> DEFINE S == a .. c - 1
             T == {f[i] : i \in S}
             g == [i \in S |-> f[i]]
  <1>1. IsFiniteSet(S) /\ Cardinality(S) = c - a
    BY FS_Interval
  <1>2. g \in Bijection(S, T)
    BY DEF Bijection, Injection, Surjection, IsInjective
  <1>3. ExistsBijection(S, T)
    BY <1>2 DEF ExistsBijection
  <1> HIDE DEF S, T, g
  <1>4. Cardinality(T) = Cardinality(S)
    BY <1>1, <1>3, FS_Bijection
  <1> QED
    BY <1>1, <1>4 DEF S, T

-------------------------------------------------------------------------------
(* The sort of a tile: the lanes in the order of their places. *)

Tiled == /\ \E k \in Nat : row \in [0 .. k - 1 -> Row]
         /\ curr \in Nat

LEMMA ElementCount ==
  ASSUME Tiled
  PROVE  end_elem \in Nat /\ Element = 0 .. end_elem - 1 /\ row \in [Element -> Row]
  <1>1. PICK k \in Nat : row \in [0 .. k - 1 -> Row]
    BY DEF Tiled
  <1>2. Element = 0 .. k - 1
    BY <1>1 DEF Element
  <1>3. Cardinality(0 .. k - 1) = k
    BY FS_Interval
  <1> QED
    BY <1>1, <1>2, <1>3 DEF end_elem

LEMMA LaneFacts == /\ IsFiniteSet(Lane) /\ Cardinality(Lane) = TILE_SIZE
                   /\ TILE_SIZE - 1 \in Nat /\ Lane \subseteq Nat
  <1>1. TILE_SIZE \in Nat \ {0}
    BY TileAssumption
  <1> QED
    BY <1>1, FS_Interval DEF Lane

\* Two lanes have the same first lane if and only if they have the same row.
LEMMA FirstLane ==
  ASSUME NEW t \in Lane
  PROVE  /\ First(t) \in Lane /\ First(t) <= t /\ Key(First(t)) = Key(t)
         /\ First(First(t)) = First(t)
         /\ \A u \in Lane : Key(u) = Key(t) <=> First(u) = First(t)
  <1> DEFINE k == TILE_SIZE - 1
  <1>1. \A u \in Lane : SubGroup(u) \in SUBSET (0 .. k) /\ u \in SubGroup(u)
    BY DEF SubGroup, Lane
  <1>2. k \in Nat
    BY LaneFacts
  <1> HIDE DEF k
  <1>3. \A u \in Lane : First(u) \in SubGroup(u) /\ \A v \in SubGroup(u) : First(u) <= v
    <2> SUFFICES ASSUME NEW u \in Lane
                 PROVE  First(u) \in SubGroup(u) /\ \A v \in SubGroup(u) : First(u) <= v
      OBVIOUS
    <2>1. SubGroup(u) \in SUBSET (0 .. k) /\ SubGroup(u) # {}
      BY <1>1
    <2>2. PICK S : S = SubGroup(u)
      OBVIOUS
    <2>3. Min(S) \in S /\ \A x \in S : Min(S) <= x
      BY <1>2, <2>1, <2>2, MinIsLeast
    <2> QED
      BY <2>2, <2>3 DEF First
  <1>4. \A u \in Lane : First(u) \in Lane /\ Key(First(u)) = Key(u) /\ First(u) <= u
    BY <1>1, <1>3 DEF SubGroup
  <1>5. ASSUME NEW u \in Lane, NEW v \in Lane, Key(u) = Key(v)
        PROVE  First(u) = First(v)
    <2>1. SubGroup(u) = SubGroup(v)
      BY <1>5 DEF SubGroup
    <2> QED
      BY <2>1 DEF First
  <1>6. ASSUME NEW u \in Lane, First(u) = First(t)
        PROVE  Key(u) = Key(t)
    BY <1>4, <1>6
  <1> QED
    BY <1>4, <1>5, <1>6

\* Lane u comes before lane t in the sorted tile.
Ahead(u, t) == First(u) < First(t) \/ (First(u) = First(t) /\ u < t)
AheadOf(t) == {u \in Lane : Ahead(u, t)}

LEMMA AheadOrder ==
  ASSUME NEW t \in Lane, NEW u \in Lane
  PROVE  /\ ~ Ahead(t, t)
         /\ t = u \/ Ahead(t, u) \/ Ahead(u, t)
         /\ ~ (Ahead(t, u) /\ Ahead(u, t))
         /\ \A v \in Lane : Ahead(t, u) /\ Ahead(u, v) => Ahead(t, v)
  <1>1. \A v \in Lane : v \in Nat /\ First(v) \in Nat
    BY FirstLane, LaneFacts
  <1> QED
    BY <1>1 DEF Ahead

LEMMA AheadFinite ==
  ASSUME NEW t \in Lane
  PROVE  IsFiniteSet(AheadOf(t)) /\ Cardinality(AheadOf(t)) \in Nat
  <1>1. AheadOf(t) \in SUBSET Lane
    BY DEF AheadOf
  <1>2. IsFiniteSet(AheadOf(t))
    BY <1>1, LaneFacts, FS_Subset
  <1> QED
    BY <1>2, FS_CardinalityType

\* The place is the number of lanes ahead.
LEMMA PlaceCounts ==
  ASSUME NEW t \in Lane
  PROVE  Place(t) = Cardinality(AheadOf(t))
  <1> DEFINE A == {u \in Lane : First(u) < First(t)}
             B == {u \in SubGroup(t) : u < t}
  <1>1. \A u \in Lane : u \in SubGroup(t) <=> First(u) = First(t)
    BY FirstLane DEF SubGroup
  <1>2. \A u \in Lane : First(u) \in Nat
    BY FirstLane, LaneFacts
  <1>3. B = {u \in Lane : First(u) = First(t) /\ u < t}
    BY <1>1 DEF SubGroup
  <1>4. A \cup B = AheadOf(t) /\ A \cap B = {} /\ A \subseteq Lane /\ B \subseteq Lane
    BY <1>2, <1>3 DEF AheadOf, Ahead
  <1>5. Place(t) = Cardinality(A) + Cardinality(B)
    BY DEF Place, Start
  <1> HIDE DEF A, B
  <1>6. IsFiniteSet(A) /\ IsFiniteSet(B)
    BY <1>4, LaneFacts, FS_Subset
  <1>7. Cardinality(A \cup B) = Cardinality(A) + Cardinality(B) - Cardinality(A \cap B)
    BY <1>6, FS_Union
  <1>8. Cardinality(A) \in Nat /\ Cardinality(B) \in Nat /\ Cardinality(A \cap B) = 0
    BY <1>4, <1>6, FS_CardinalityType, FS_EmptySet
  <1>9. Cardinality(AheadOf(t)) = Cardinality(A \cup B)
    BY <1>4
  <1> QED
    BY <1>5, <1>7, <1>8, <1>9

LEMMA PlaceOrder ==
  ASSUME NEW t \in Lane, NEW u \in Lane
  PROVE  /\ Place(t) \in Lane
         /\ Ahead(t, u) <=> Place(t) < Place(u)
         /\ Place(t) = Place(u) => t = u
  <1>1. \A v \in Lane : Place(v) \in Nat /\ Place(v) = Cardinality(AheadOf(v))
    BY PlaceCounts, AheadFinite
  <1>2. ASSUME NEW v \in Lane, NEW w \in Lane, Ahead(v, w)
        PROVE  Place(v) < Place(w)
    <2>1. AheadOf(v) \in SUBSET AheadOf(w)
      BY <1>2, AheadOrder DEF AheadOf
    <2>2. v \in AheadOf(w) /\ v \notin AheadOf(v)
      BY <1>2, AheadOrder DEF AheadOf
    <2>3. Cardinality(AheadOf(v)) <= Cardinality(AheadOf(w))
      BY <2>1, AheadFinite, FS_Subset
    <2>4. Cardinality(AheadOf(v)) # Cardinality(AheadOf(w))
      BY <2>1, <2>2, AheadFinite, FS_Subset
    <2> QED
      BY <1>1, <2>3, <2>4
  <1>3. Place(t) \in Lane
    <2>1. AheadOf(t) \in SUBSET (Lane \ {t})
      BY AheadOrder DEF AheadOf
    <2>2. IsFiniteSet(Lane \ {t}) /\ Cardinality(Lane \ {t}) = TILE_SIZE - 1
      BY LaneFacts, FS_RemoveElement
    <2>3. Cardinality(AheadOf(t)) <= TILE_SIZE - 1
      BY <2>1, <2>2, FS_Subset
    <2> QED
      BY <1>1, <2>3, TileAssumption DEF Lane
  <1>4. t = u \/ Ahead(t, u) \/ Ahead(u, t)
    BY AheadOrder
  <1>5. Place(t) \in Nat /\ Place(u) \in Nat
    BY <1>1
  <1>6. Ahead(t, u) => Place(t) < Place(u)
    BY <1>2
  <1>7. Ahead(u, t) => Place(u) < Place(t)
    BY <1>2
  <1> QED
    BY <1>3, <1>4, <1>5, <1>6, <1>7, AheadOrder

\* Each place is taken by one lane.
Sorted(L) == /\ L \in [Lane -> Lane]
             /\ \A r \in Lane : Place(L[r]) = r
             /\ \A t \in Lane : L[Place(t)] = t

LEMMA SortExists == \E L : Sorted(L)
  <1> DEFINE f == [t \in Lane |-> Place(t)]
             L == [r \in Lane |-> CHOOSE t \in Lane : Place(t) = r]
  <1>1. f \in Injection(Lane, Lane)
    <2>1. f \in [Lane -> Lane] /\ \A t, u \in Lane : f[t] = f[u] => t = u
      BY PlaceOrder
    <2> QED
      BY <2>1 DEF Injection, IsInjective
  <1>2. f \in Surjection(Lane, Lane)
    BY <1>1, LaneFacts, FS_Injection
  <1>3. \A r \in Lane : \E t \in Lane : Place(t) = r
    BY <1>2 DEF Surjection
  <1>4. \A r \in Lane : L[r] \in Lane /\ Place(L[r]) = r
    BY <1>3
  <1>5. \A t \in Lane : Place(t) \in Lane
    BY PlaceOrder
  <1> HIDE DEF f
  <1>6. L \in [Lane -> Lane]
    BY <1>4
  <1> HIDE DEF L
  <1>7. \A t \in Lane : L[Place(t)] = t
    <2> SUFFICES ASSUME NEW t \in Lane
                 PROVE  L[Place(t)] = t
      OBVIOUS
    <2>1. L[Place(t)] \in Lane /\ Place(L[Place(t)]) = Place(t)
      BY <1>4, <1>5
    <2> QED
      BY <2>1, PlaceOrder
  <1> QED
    BY <1>4, <1>6, <1>7 DEF Sorted

\* The elements of the tile at hand.
TileCount == IF curr + TILE_SIZE <= end_elem THEN TILE_SIZE ELSE end_elem - curr

LEMMA TileCounted ==
  ASSUME Tiled, curr < end_elem
  PROVE  /\ TileCount \in 1 .. TILE_SIZE
         /\ TileElements = curr .. curr + TileCount - 1
         /\ Cardinality(TileElements) = TileCount
         /\ \A t \in Nat : t < TILE_SIZE => (t < TileCount <=> curr + t < end_elem)
         /\ curr + TileCount <= end_elem
         /\ curr + TILE_SIZE <= end_elem => TileCount = TILE_SIZE
  <1>1. curr \in Nat /\ end_elem \in Nat /\ TILE_SIZE \in Nat \ {0}
    BY ElementCount, TileAssumption DEF Tiled
  <1>2. /\ TileCount \in 1 .. TILE_SIZE /\ curr + TileCount <= end_elem
        /\ curr + TILE_SIZE <= end_elem => TileCount = TILE_SIZE
        /\ TileCount < TILE_SIZE => curr + TileCount = end_elem
    BY <1>1 DEF TileCount
  <1>3. Element = 0 .. end_elem - 1
    BY ElementCount
  <1>4. TileElements = curr .. curr + TileCount - 1
    BY <1>1, <1>2, <1>3 DEF TileElements
  <1>5. Cardinality(curr .. curr + TileCount - 1) = TileCount
    <2>1. curr + TileCount - 1 \in Int /\ ~ (curr > curr + TileCount - 1)
      BY <1>1, <1>2
    <2>2. (curr + TileCount - 1) - curr + 1 = TileCount
      BY <1>1, <1>2
    <2> QED
      BY <1>1, <2>1, <2>2, FS_Interval
  <1> QED
    BY <1>1, <1>2, <1>4, <1>5

\* Lanes with an element have the row of it, idle lanes none.
LEMMA KeyOf ==
  ASSUME Tiled, curr < end_elem, NEW t \in Lane
  PROVE  /\ t < TileCount => Key(t) = row[curr + t] /\ Key(t) \in Row /\ curr + t \in Element
         /\ t >= TileCount => Key(t) = INVALID_ID
         /\ INVALID_ID \notin Row
  <1>1. t \in Nat /\ t < TILE_SIZE /\ curr \in Nat
    BY TileAssumption DEF Lane, Tiled
  <1>2. TileCount \in Nat /\ (t < TileCount <=> curr + t < end_elem)
    BY <1>1, TileCounted
  <1>3. Row \subseteq Nat
    BY TileAssumption DEF Row
  <1>4. curr + t < end_elem => curr + t \in Element /\ row[curr + t] \in Row
    BY <1>1, ElementCount
  <1>5. INVALID_ID \notin Row
    BY <1>3, TileAssumption
  <1>6. CASE t < TileCount
    <2>1. Key(t) = row[curr + t]
      BY <1>2, <1>6 DEF Key
    <2> QED
      BY <1>1, <1>2, <1>4, <1>5, <1>6, <2>1
  <1>7. CASE ~ (t < TileCount)
    <2>1. Key(t) = INVALID_ID
      BY <1>2, <1>7 DEF Key
    <2> QED
      BY <1>1, <1>2, <1>5, <1>7, <2>1
  <1> QED
    BY <1>6, <1>7

\* Idle lanes come last.
LEMMA IdleLast ==
  ASSUME Tiled, curr < end_elem, NEW t \in Lane
  PROVE  t < TileCount <=> Place(t) < TileCount
  <1> DEFINE c == TileCount
             busy == 0 .. c - 1
  <1>1. c \in 1 .. TILE_SIZE
    BY TileCounted
  <1>2. busy \subseteq Lane /\ Lane \subseteq Nat
    BY <1>1, LaneFacts, TileAssumption DEF Lane
  <1>3. IsFiniteSet(busy) /\ Cardinality(busy) = c
    BY <1>1, FS_Interval
  <1>4. \A u \in Lane : u \in busy <=> u < c
    BY <1>1, <1>2
  <1>5. \A u \in Lane : u < c <=> First(u) < c
    <2> SUFFICES ASSUME NEW u \in Lane
                 PROVE  u < c <=> First(u) < c
      OBVIOUS
    <2>1. First(u) \in Lane /\ Key(First(u)) = Key(u)
      BY FirstLane
    <2>2. \A v \in Lane : v < c <=> Key(v) # INVALID_ID
      BY <1>1, <1>2, KeyOf
    <2> QED
      BY <2>1, <2>2
  <1>6. \A u, v \in Lane : u < c /\ ~ (v < c) => Ahead(u, v)
    <2> SUFFICES ASSUME NEW u \in Lane, NEW v \in Lane, u < c, ~ (v < c)
                 PROVE  Ahead(u, v)
      OBVIOUS
    <2>1. First(u) \in Nat /\ First(v) \in Nat /\ c \in Nat
      <3>1. First(u) \in Lane /\ First(v) \in Lane
        BY FirstLane
      <3>2. c \in Nat
        BY <1>1
      <3> QED
        BY <1>2, <3>1, <3>2
    <2>2. First(u) < c /\ ~ (First(v) < c)
      BY <1>5
    <2>3. First(u) < First(v)
      BY <2>1, <2>2
    <2> QED
      BY <2>3 DEF Ahead
  <1>7. Place(t) = Cardinality(AheadOf(t)) /\ Place(t) \in Nat
    BY PlaceCounts, AheadFinite
  <1> HIDE DEF c, busy
  <1>8. CASE t < c
    <2>1. AheadOf(t) \in SUBSET (busy \ {t})
      <3> SUFFICES ASSUME NEW u \in AheadOf(t)
                   PROVE  u \in busy \ {t}
        OBVIOUS
      <3>1. u \in Lane /\ Ahead(u, t)
        BY DEF AheadOf
      <3>2. u # t /\ ~ Ahead(t, u)
        BY <3>1, AheadOrder
      <3> QED
        BY <1>4, <1>6, <1>8, <3>1, <3>2
    <2>2. IsFiniteSet(busy \ {t}) /\ Cardinality(busy \ {t}) = c - 1
      BY <1>3, <1>4, <1>8, FS_RemoveElement
    <2>3. Cardinality(AheadOf(t)) <= c - 1
      BY <2>1, <2>2, FS_Subset
    <2>4. Place(t) < c
      BY <1>1, <1>7, <2>3
    <2> QED
      BY <1>8, <2>4 DEF c
  <1>9. CASE ~ (t < c)
    <2>1. busy \in SUBSET AheadOf(t)
      BY <1>2, <1>4, <1>6, <1>9 DEF AheadOf
    <2>2. c <= Cardinality(AheadOf(t))
      BY <1>3, <2>1, AheadFinite, FS_Subset
    <2>3. ~ (Place(t) < c)
      BY <1>1, <1>7, <2>2
    <2> QED
      BY <1>9, <2>3 DEF c
  <1> QED
    BY <1>8, <1>9

\* In the order of places each row is one run.
LEMMA RunsAreWhole ==
  ASSUME NEW L, Sorted(L), NEW l \in Lane, NEW h \in Lane, NEW m \in Lane,
         l <= h, h <= m, Key(L[l]) = Key(L[m])
  PROVE  Key(L[h]) = Key(L[l])
  <1>1. \A i, j \in Lane : i <= j => First(L[i]) <= First(L[j])
    <2> SUFFICES ASSUME NEW i \in Lane, NEW j \in Lane, i <= j
                 PROVE  First(L[i]) <= First(L[j])
      OBVIOUS
    <2>1. L[i] \in Lane /\ L[j] \in Lane /\ Place(L[i]) = i /\ Place(L[j]) = j
      BY DEF Sorted
    <2>2. First(L[i]) \in Nat /\ First(L[j]) \in Nat /\ i \in Nat /\ j \in Nat
      BY <2>1, FirstLane, LaneFacts
    <2>3. CASE i = j
      BY <2>2, <2>3
    <2>4. CASE i < j
      <3>1. Ahead(L[i], L[j])
        BY <2>1, <2>4, PlaceOrder
      <3> QED
        BY <2>2, <3>1 DEF Ahead
    <2> QED
      BY <2>2, <2>3, <2>4
  <1>2. L[l] \in Lane /\ L[h] \in Lane /\ L[m] \in Lane
    BY DEF Sorted
  <1>3. First(L[l]) = First(L[m])
    BY <1>2, FirstLane
  <1>4. First(L[l]) <= First(L[h]) /\ First(L[h]) <= First(L[m])
    BY <1>1
  <1>5. First(L[l]) \in Nat /\ First(L[h]) \in Nat
    BY <1>2, FirstLane, LaneFacts
  <1>6. First(L[h]) = First(L[l])
    BY <1>3, <1>4, <1>5
  <1> QED
    BY <1>2, <1>6, FirstLane

HeadsOfRuns == {Place(t) : t \in {u \in Lane : u = First(u)}}

\* A head is where the row changes.
LEMMA HeadsBeginRuns ==
  ASSUME NEW L, Sorted(L), NEW m \in Lane, m > 0
  PROVE  m \in HeadsOfRuns <=> Key(L[m]) # Key(L[m - 1])
  <1>1. m - 1 \in Lane /\ m \in Nat /\ m - 1 \in Nat
    BY TileAssumption DEF Lane
  <1>2. L[m] \in Lane /\ L[m - 1] \in Lane /\ Place(L[m]) = m /\ Place(L[m - 1]) = m - 1
    BY <1>1 DEF Sorted
  <1>3. \A u \in Lane : u \in Nat /\ First(u) \in Nat
    BY FirstLane, LaneFacts
  <1>4. m \in HeadsOfRuns <=> L[m] = First(L[m])
    <2>1. m \in HeadsOfRuns => L[m] = First(L[m])
      BY DEF HeadsOfRuns, Sorted
    <2>2. L[m] = First(L[m]) => m \in HeadsOfRuns
      BY <1>2 DEF HeadsOfRuns
    <2> QED
      BY <2>1, <2>2
  <1>5. ASSUME L[m] = First(L[m]), Key(L[m]) = Key(L[m - 1])
        PROVE  FALSE
    <2>1. First(L[m - 1]) = First(L[m]) /\ First(L[m - 1]) <= L[m - 1]
      BY <1>2, <1>5, FirstLane
    <2>2. Place(L[m - 1]) < Place(L[m])
      BY <1>1, <1>2
    <2>3. Ahead(L[m - 1], L[m])
      BY <1>2, <2>2, PlaceOrder
    <2>4. L[m - 1] \in Nat /\ L[m] \in Nat /\ First(L[m]) \in Nat
      BY <1>2, <1>3
    <2> QED
      BY <1>5, <2>1, <2>3, <2>4 DEF Ahead
  <1>6. ASSUME L[m] # First(L[m])
        PROVE  Key(L[m]) = Key(L[m - 1])
    <2>1. PICK f \in Lane : f = First(L[m])
      BY <1>2, FirstLane
    <2>2. Key(f) = Key(L[m]) /\ First(f) = First(L[m]) /\ f <= L[m]
      BY <1>2, <2>1, FirstLane
    <2>3. f < L[m]
      BY <1>2, <1>3, <1>6, <2>1, <2>2
    <2>4. Ahead(f, L[m])
      BY <2>2, <2>3 DEF Ahead
    <2>5. Place(f) \in Lane /\ Place(f) < m
      BY <1>2, <2>4, PlaceOrder
    <2>6. Place(f) <= m - 1 /\ m - 1 <= m
      <3>1. Place(f) \in Nat
        BY <1>3, <2>5
      <3> QED
        BY <1>1, <2>5, <3>1
    <2>7. L[Place(f)] = f
      BY DEF Sorted
    <2>8. Key(L[Place(f)]) = Key(L[m])
      BY <2>2, <2>7
    <2> QED
      BY <1>1, <2>2, <2>5, <2>6, <2>8, <2>7, RunsAreWhole
  <1> QED
    BY <1>4, <1>5, <1>6

\* What the sort leaves behind: the elements of the tile by rows, each once.
Grouped ==
  LET k == TileCount
  IN /\ curr < end_elem
     /\ heads \subseteq Lane
     /\ \A m \in 0 .. k - 1 : nnz_val[m] \in TileElements /\ nnz_out[m] = row[nnz_val[m]]
     /\ \A e \in TileElements : \E m \in 0 .. k - 1 : nnz_val[m] = e
     /\ \A l, m \in 0 .. k - 1 : nnz_val[l] = nnz_val[m] => l = m
     /\ \A m \in 1 .. k - 1 : m \in heads <=> nnz_out[m] # nnz_out[m - 1]
     /\ \A l, h, m \in 0 .. k - 1 : l <= h /\ h <= m /\ nnz_out[l] = nnz_out[m]
          => nnz_out[h] = nnz_out[l]
     /\ k < TILE_SIZE => k \in heads

LEMMA SortPlaces ==
  ASSUME Tiled, curr < end_elem, Sort, NEW L, Sorted(L)
  PROVE  /\ \A r \in Lane : nnz_out'[r] = Key(L[r])
         /\ \A r \in Lane : r < TileCount => nnz_val'[r] = curr + L[r]
         /\ heads' = HeadsOfRuns
         /\ row' = row /\ curr' = curr /\ n' = 0
  <1> DEFINE place == [t \in Lane |-> Place(t)]
             at(r) == {t \in Lane : place[t] = r}
             full(r) == {t \in at(r) : curr + t < end_elem}
  <1>1. /\ nnz_out' = [r \in Lane |-> IF at(r) = {} THEN nnz_out[r] ELSE Key(Max(at(r)))]
        /\ nnz_val' = [r \in Lane |-> IF full(r) = {} THEN nnz_val[r] ELSE curr + Max(full(r))]
        /\ heads' = {place[t] : t \in {u \in Lane : u = First(u)}}
        /\ row' = row /\ curr' = curr /\ n' = 0
    BY DEF Sort
  <1>2. \A t \in Lane : place[t] = Place(t)
    OBVIOUS
  <1>3. heads' = HeadsOfRuns
    BY <1>1 DEF HeadsOfRuns
  <1> HIDE DEF place
  <1>4. \A r \in Lane : L[r] \in Lane /\ L[r] \in Nat /\ at(r) = {L[r]}
    <2> SUFFICES ASSUME NEW r \in Lane
                 PROVE  L[r] \in Lane /\ L[r] \in Nat /\ at(r) = {L[r]}
      OBVIOUS
    <2>1. L[r] \in Lane /\ place[L[r]] = r
      BY <1>2 DEF Sorted
    <2>2. \A t \in Lane : place[t] = r => t = L[r]
      BY <1>2 DEF Sorted
    <2> QED
      BY <2>1, <2>2, LaneFacts
  <1>5. \A r \in Lane : r < TileCount => full(r) = {L[r]}
    <2> SUFFICES ASSUME NEW r \in Lane, r < TileCount
                 PROVE  full(r) = {L[r]}
      OBVIOUS
    <2>1. L[r] \in Lane /\ Place(L[r]) = r
      BY DEF Sorted
    <2>2. L[r] < TileCount
      BY <2>1, IdleLast
    <2>3. L[r] < TILE_SIZE /\ L[r] \in Nat
      BY <2>1, TileAssumption DEF Lane
    <2>4. curr + L[r] < end_elem
      BY <2>2, <2>3, TileCounted
    <2> QED
      BY <1>4, <2>4
  <1> HIDE DEF at, full
  <1>6. \A r \in Lane : Max({L[r]}) = L[r]
    BY <1>4, MaxOfOne
  <1>7. \A r \in Lane : nnz_out'[r] = Key(L[r])
    <2> SUFFICES ASSUME NEW r \in Lane
                 PROVE  nnz_out'[r] = Key(L[r])
      OBVIOUS
    <2>1. at(r) = {L[r]} /\ at(r) # {} /\ Max(at(r)) = L[r]
      BY <1>4, <1>6
    <2>2. nnz_out'[r] = Key(Max(at(r)))
      BY <1>1, <2>1
    <2> QED
      BY <2>1, <2>2
  <1>8. \A r \in Lane : r < TileCount => nnz_val'[r] = curr + L[r]
    <2> SUFFICES ASSUME NEW r \in Lane, r < TileCount
                 PROVE  nnz_val'[r] = curr + L[r]
      OBVIOUS
    <2>1. full(r) = {L[r]} /\ full(r) # {} /\ Max(full(r)) = L[r]
      BY <1>5, <1>6
    <2>2. nnz_val'[r] = curr + Max(full(r))
      BY <1>1, <2>1
    <2> QED
      BY <2>1, <2>2
  <1> QED
    BY <1>1, <1>3, <1>7, <1>8

LEMMA SortGroups ==
  ASSUME Tiled, Sort
  PROVE  Grouped'
  <1>1. PICK L : Sorted(L)
    BY SortExists
  <1>2. curr < end_elem
    BY DEF Sort
  <1>3. /\ \A r \in Lane : nnz_out'[r] = Key(L[r])
        /\ \A r \in Lane : r < TileCount => nnz_val'[r] = curr + L[r]
        /\ heads' = HeadsOfRuns
        /\ row' = row /\ curr' = curr
    BY <1>1, <1>2, SortPlaces
  <1>4. /\ end_elem' = end_elem /\ TileElements' = TileElements
        /\ TileCount' = TileCount
    BY <1>3 DEF end_elem, Element, TileElements, TileCount
  <1> DEFINE k == TileCount
  <1>5. /\ k \in 1 .. TILE_SIZE /\ TileElements = curr .. curr + k - 1
        /\ curr \in Nat /\ 0 .. k - 1 \subseteq Lane /\ k \in Nat /\ TILE_SIZE \in Nat
    BY <1>2, TileCounted, TileAssumption DEF Lane, Tiled
  <1>6. \A m \in 0 .. k - 1 : L[m] \in 0 .. k - 1 /\ m < k
    <2> SUFFICES ASSUME NEW m \in 0 .. k - 1
                 PROVE  L[m] \in 0 .. k - 1 /\ m < k
      OBVIOUS
    <2>1. m < k /\ L[m] \in Lane /\ Place(L[m]) = m
      BY <1>1, <1>5 DEF Sorted
    <2>2. L[m] < k
      BY <1>2, <2>1, IdleLast
    <2>3. L[m] \in Nat
      BY <2>1, LaneFacts
    <2> QED
      BY <1>5, <2>1, <2>2, <2>3
  <1>7. \A m \in 0 .. k - 1 : nnz_val'[m] = curr + L[m] /\ nnz_out'[m] = Key(L[m])
    BY <1>3, <1>5, <1>6
  <1> HIDE DEF k
  <1>8. \A m \in 0 .. k - 1 : nnz_val'[m] \in TileElements /\ nnz_out'[m] = row[nnz_val'[m]]
    <2> SUFFICES ASSUME NEW m \in 0 .. k - 1
                 PROVE  nnz_val'[m] \in TileElements /\ nnz_out'[m] = row[nnz_val'[m]]
      OBVIOUS
    <2>1. L[m] \in 0 .. k - 1 /\ L[m] \in Lane /\ L[m] < k
      BY <1>5, <1>6
    <2>2. Key(L[m]) = row[curr + L[m]]
      BY <1>2, <2>1, KeyOf DEF k
    <2>3. curr + L[m] \in TileElements
      BY <1>5, <2>1
    <2> QED
      BY <1>7, <2>2, <2>3
  <1>9. \A e \in TileElements : \E m \in 0 .. k - 1 : nnz_val'[m] = e
    <2> SUFFICES ASSUME NEW e \in TileElements
                 PROVE  \E m \in 0 .. k - 1 : nnz_val'[m] = e
      OBVIOUS
    <2>1. PICK t \in 0 .. k - 1 : t = e - curr
      BY <1>5
    <2>2. t \in Lane /\ t < k
      BY <1>5, <2>1
    <2>3. Place(t) < k
      BY <1>2, <2>2, IdleLast DEF k
    <2>4. Place(t) \in Lane /\ L[Place(t)] = t
      BY <1>1, <2>2, PlaceOrder DEF Sorted
    <2>5. Place(t) \in 0 .. k - 1
      <3>1. Place(t) \in Nat
        BY <2>4, LaneFacts
      <3> QED
        BY <1>5, <2>3, <3>1
    <2>6. nnz_val'[Place(t)] = curr + t
      BY <1>7, <2>4, <2>5
    <2>7. curr + t = e
      BY <1>5, <2>1
    <2> QED
      BY <2>5, <2>6, <2>7
  <1>10. \A l, m \in 0 .. k - 1 : nnz_val'[l] = nnz_val'[m] => l = m
    <2> SUFFICES ASSUME NEW l \in 0 .. k - 1, NEW m \in 0 .. k - 1, nnz_val'[l] = nnz_val'[m]
                 PROVE  l = m
      OBVIOUS
    <2>1. L[l] \in 0 .. k - 1 /\ L[m] \in 0 .. k - 1
      BY <1>6
    <2>2. curr + L[l] = curr + L[m]
      BY <1>7
    <2>3. L[l] = L[m]
      BY <1>5, <2>1, <2>2
    <2> QED
      BY <1>1, <1>5, <2>3 DEF Sorted
  <1>11. \A m \in 1 .. k - 1 : m \in heads' <=> nnz_out'[m] # nnz_out'[m - 1]
    <2> SUFFICES ASSUME NEW m \in 1 .. k - 1
                 PROVE  m \in heads' <=> nnz_out'[m] # nnz_out'[m - 1]
      OBVIOUS
    <2>1. m \in 0 .. k - 1 /\ m - 1 \in 0 .. k - 1 /\ m > 0
      BY <1>5
    <2>2. m \in Lane
      BY <1>5, <2>1
    <2>3. m \in HeadsOfRuns <=> Key(L[m]) # Key(L[m - 1])
      BY <1>1, <2>1, <2>2, HeadsBeginRuns
    <2> QED
      BY <1>3, <1>7, <2>1, <2>3
  <1>12. \A l, h, m \in 0 .. k - 1 : l <= h /\ h <= m /\ nnz_out'[l] = nnz_out'[m]
           => nnz_out'[h] = nnz_out'[l]
    <2> SUFFICES ASSUME NEW l \in 0 .. k - 1, NEW h \in 0 .. k - 1, NEW m \in 0 .. k - 1,
                        l <= h, h <= m, nnz_out'[l] = nnz_out'[m]
                 PROVE  nnz_out'[h] = nnz_out'[l]
      OBVIOUS
    <2>1. l \in Lane /\ h \in Lane /\ m \in Lane
      BY <1>5
    <2>2. Key(L[l]) = Key(L[m])
      BY <1>7
    <2>3. Key(L[h]) = Key(L[l])
      BY <1>1, <2>1, <2>2, RunsAreWhole
    <2> QED
      BY <1>7, <2>3
  <1>13. ASSUME k < TILE_SIZE
         PROVE  k \in heads'
    <2>1. k \in Lane /\ k > 0 /\ k - 1 \in Lane /\ k - 1 < k /\ k >= k
      BY <1>5, <1>13, TileAssumption DEF Lane
    <2>2. L[k] \in Lane /\ Place(L[k]) = k /\ L[k - 1] \in Lane /\ Place(L[k - 1]) = k - 1
      BY <1>1, <2>1 DEF Sorted
    <2>3. L[k - 1] < k /\ ~ (L[k] < k)
      <3>1. k - 1 < k /\ ~ (k < k)
        BY <1>5
      <3>2. L[k - 1] < k <=> k - 1 < k
        BY <1>2, <2>2, IdleLast DEF k
      <3>3. L[k] < k <=> k < k
        BY <1>2, <2>2, IdleLast DEF k
      <3> QED
        BY <3>1, <3>2, <3>3
    <2>4. L[k] \in Nat /\ k \in Nat
      BY <1>5, <2>2, LaneFacts
    <2>5. Key(L[k - 1]) \in Row /\ Key(L[k]) = INVALID_ID /\ INVALID_ID \notin Row
      <3>1. L[k] >= k
        BY <2>3, <2>4
      <3> QED
        BY <1>2, <2>2, <2>3, <3>1, KeyOf DEF k
    <2>6. k \in HeadsOfRuns
      BY <1>1, <2>1, <2>5, HeadsBeginRuns
    <2> QED
      BY <1>3, <2>6
  <1>14. heads' \subseteq Lane
    <2>1. \A t \in Lane : Place(t) \in Lane
      BY PlaceOrder
    <2> QED
      BY <1>3, <2>1 DEF HeadsOfRuns
  <1>15. (curr < end_elem)'
    BY <1>2, <1>3, <1>4
  <1>16. TileCount' = k
    BY <1>4 DEF k
  <1> QED
    BY <1>3, <1>4, <1>8, <1>9, <1>10, <1>11, <1>12, <1>13, <1>14, <1>15, <1>16 DEF Grouped

-------------------------------------------------------------------------------
(* The runs, and the lines of the stash. *)

TypeInv ==
  /\ Tiled
  /\ stashed \in BOOLEAN
  /\ pc \in {"sort", "row", "add", "done"}
  /\ tags \in [Line -> Row \cup {INVALID_ID}]
  /\ DOMAIN data = Line /\ DOMAIN output = Row
  /\ \A l \in Line : tags[l] # INVALID_ID => stashed /\ l = tags[l] % STASH_SIZE

\* The tile stays grouped while its rows are added, and the next element is the
\* first of a run; when the row is claimed its line has its tag.
GroupInv ==
  /\ pc \in {"row", "add"} => Grouped /\ n \in 0 .. TileCount
  /\ pc = "add" => stashed /\ n < TileCount /\ tags[line] = nnz_out[n]

LEMMA InTileMeans ==
  ASSUME Tiled, curr < end_elem, n \in 0 .. TileCount
  PROVE  InTile <=> n < TileCount
  <1>1. /\ TileCount \in 1 .. TILE_SIZE /\ TILE_SIZE \in Nat
        /\ \A t \in Nat : t < TILE_SIZE => (t < TileCount <=> curr + t < end_elem)
    BY TileCounted, TileAssumption
  <1>2. n \in Nat
    BY <1>1
  <1> QED
    BY <1>1, <1>2 DEF InTile

\* The run at hand: its elements have one row, and it stays in the tile.
LEMMA RunOfRow ==
  ASSUME Tiled, Grouped, n \in 0 .. TileCount - 1
  PROVE  /\ NextHead \in n + 1 .. TileCount
         /\ \A m \in n .. NextHead - 1 : nnz_out[m] = nnz_out[n]
  <1> DEFINE S == {m \in heads : m > n} \cup {TILE_SIZE}
             k == TileCount
  <1>1. /\ k \in 1 .. TILE_SIZE /\ k \in Nat /\ TILE_SIZE \in Nat /\ n \in Nat
        /\ n < k /\ n < TILE_SIZE
    <2>1. k \in 1 .. TILE_SIZE /\ TILE_SIZE \in Nat
      BY TileCounted, TileAssumption DEF Grouped
    <2> QED
      BY <2>1
  <1> HIDE DEF k
  <1>2. /\ heads \subseteq 0 .. TILE_SIZE - 1
        /\ \A m \in 1 .. k - 1 : m \in heads <=> nnz_out[m] # nnz_out[m - 1]
        /\ k < TILE_SIZE => k \in heads
    BY DEF Grouped, Lane, k
  <1>3. S \in SUBSET (0 .. TILE_SIZE) /\ S # {}
    <2>1. 0 .. TILE_SIZE - 1 \subseteq 0 .. TILE_SIZE /\ TILE_SIZE \in 0 .. TILE_SIZE
      BY <1>1
    <2> QED
      BY <1>2, <2>1
  <1>4. NextHead = Min(S)
    BY DEF NextHead
  <1>5. \A s \in S : s > n
    BY <1>1
  <1>6. k \in S
    BY <1>1, <1>2
  <1>7. \A m \in heads : m > n => m \in S
    OBVIOUS
  <1> HIDE DEF S
  <1>8. NextHead \in S /\ \A s \in S : NextHead <= s
    BY <1>1, <1>3, <1>4, MinIsLeast
  <1>9. NextHead \in Nat /\ n < NextHead /\ NextHead <= k
    BY <1>1, <1>3, <1>5, <1>6, <1>8
  <1>10. \A m \in n + 1 .. NextHead - 1 : m \notin heads
    <2> SUFFICES ASSUME NEW m \in n + 1 .. NextHead - 1, m \in heads
                 PROVE  FALSE
      OBVIOUS
    <2>1. m > n /\ m < NextHead /\ m \in Nat
      BY <1>1, <1>9
    <2>2. NextHead <= m
      BY <1>7, <1>8, <2>1
    <2> QED
      BY <1>9, <2>1, <2>2
  <1>11. \A m \in n .. NextHead - 1 : nnz_out[m] = nnz_out[n]
    <2> DEFINE B == {m \in n .. NextHead - 1 : nnz_out[m] # nnz_out[n]}
    <2> SUFFICES ASSUME B # {}
                 PROVE  FALSE
      OBVIOUS
    <2>1. B \in SUBSET (0 .. TILE_SIZE)
      BY <1>1, <1>9
    <2>2. PICK m \in B : \A x \in B : m <= x
      <3> HIDE DEF B
      <3> QED
        BY <1>1, <2>1, LeastNumber
    <2>3. m \in n .. NextHead - 1 /\ nnz_out[m] # nnz_out[n] /\ m # n
      OBVIOUS
    <2>4. m \in Nat /\ m - 1 \in n .. NextHead - 1 /\ ~ (m <= m - 1) /\ m \in n + 1 .. NextHead - 1
      BY <1>1, <1>9, <2>3
    <2>5. m - 1 \notin B
      BY <2>2, <2>4
    <2>6. nnz_out[m - 1] = nnz_out[n]
      BY <2>4, <2>5
    <2>7. m \in 1 .. k - 1
      BY <1>1, <1>9, <2>4
    <2>8. m \in heads
      BY <1>2, <2>3, <2>6, <2>7
    <2> QED
      BY <1>10, <2>4, <2>8
  <1> QED
    BY <1>1, <1>9, <1>11 DEF k

LEMMA LineOfRow ==
  ASSUME NEW r \in Row
  PROVE  r % STASH_SIZE \in Line
  <1>1. r \in Nat /\ STASH_SIZE \in Nat \ {0}
    BY TileAssumption DEF Row
  <1> QED
    BY <1>1 DEF Line

\* The row of the next element.
LEMMA RowOfNext ==
  ASSUME TypeInv, Grouped, n \in 0 .. TileCount - 1
  PROVE  nnz_out[n] \in Row /\ line \in Line /\ nnz_out[n] # INVALID_ID
  <1>1. nnz_val[n] \in TileElements /\ nnz_out[n] = row[nnz_val[n]]
    BY DEF Grouped
  <1>2. row \in [Element -> Row]
    BY ElementCount DEF TypeInv
  <1>3. nnz_out[n] \in Row
    BY <1>1, <1>2 DEF TileElements
  <1>4. Row \subseteq Nat
    BY TileAssumption DEF Row
  <1> QED
    BY <1>3, <1>4, LineOfRow, TileAssumption DEF line

LEMMA TypeInvInit == Init => TypeInv /\ GroupInv
  <1> SUFFICES ASSUME Init
               PROVE  TypeInv /\ GroupInv
    OBVIOUS
  <1>1. PICK k \in 1 .. Min({MaxElements, Share}) : row \in [0 .. k - 1 -> Row]
    BY DEF Init
  <1>2. k \in Nat
    <2>1. MaxElements \in Nat \ {0} /\ Share \in Nat \ {0}
      <3>1. TILE_SIZE \in Nat \ {0} /\ ThreadCf \in Nat \ {0} /\ MaxElements \in Nat \ {0}
        BY TileAssumption
      <3>2. TILE_SIZE * ThreadCf \in Nat \ {0}
        BY <3>1
      <3> QED
        BY <3>1, <3>2 DEF Share
    <2>2. \E m \in {MaxElements, Share} : \A x \in {MaxElements, Share} : m <= x
      BY <2>1
    <2>3. Min({MaxElements, Share}) \in {MaxElements, Share}
      BY <2>2 DEF Min
    <2> QED
      BY <2>1, <2>3
  <1> QED
    BY <1>1, <1>2 DEF Init, TypeInv, Tiled, GroupInv

\* What is set with the row and the tile.
LEMMA GroupedKept ==
  ASSUME Grouped, row' = row, curr' = curr, heads' = heads, nnz_val' = nnz_val, nnz_out' = nnz_out
  PROVE  Grouped' /\ TileCount' = TileCount /\ TileElements' = TileElements
  <1>1. /\ TileCount' = TileCount /\ TileElements' = TileElements
        /\ (curr < end_elem)'
    BY DEF TileCount, TileElements, end_elem, Element, Grouped
  <1> QED
    BY <1>1 DEF Grouped

LEMMA TypeInvStep ==
  ASSUME TypeInv, GroupInv, [Next]_tileVars
  PROVE  TypeInv' /\ GroupInv'
  <1>1. ASSUME Sort
        PROVE  TypeInv' /\ GroupInv'
    <2>1. /\ row' = row /\ curr' = curr /\ n' = 0 /\ pc' = "row" /\ pc = "sort"
          /\ stashed' = stashed /\ tags' = tags /\ data' = data /\ output' = output
      BY <1>1 DEF Sort, stash
    <2>2. TypeInv'
      BY <2>1 DEF TypeInv, Tiled
    <2>3. Grouped'
      BY <1>1, SortGroups DEF TypeInv
    <2>4. TileCount' \in 1 .. TILE_SIZE
      <3>1. TileCount' = TileCount
        BY <2>1 DEF TileCount, end_elem, Element
      <3>2. TileCount \in 1 .. TILE_SIZE
        BY <1>1, TileCounted DEF Sort, TypeInv
      <3> QED
        BY <3>1, <3>2
    <2>5. n' \in 0 .. TileCount'
      BY <2>1, <2>4, TileAssumption
    <2> QED
      BY <2>1, <2>2, <2>3, <2>5 DEF GroupInv
  <1>2. ASSUME Claim
        PROVE  TypeInv' /\ GroupInv'
    <2>1. /\ pc = "row" /\ InTile /\ stashed /\ pc' = "add"
          /\ row' = row /\ curr' = curr /\ n' = n /\ stashed' = stashed
          /\ heads' = heads /\ nnz_val' = nnz_val /\ nnz_out' = nnz_out
          /\ tags' = [tags EXCEPT ![line] = nnz_out[n]]
          /\ output' = output \/ \E r, x : output' = [output EXCEPT ![r] = x]
          /\ data' = data \/ data' = [data EXCEPT ![line] = {}]
      BY <1>2 DEF Claim, tile
    <2>2. Grouped /\ n < TileCount /\ n \in 0 .. TileCount - 1 /\ n \in 0 .. TileCount
      <3>1. Grouped /\ n \in 0 .. TileCount
        BY <2>1 DEF GroupInv
      <3>2. n < TileCount
        BY <2>1, <3>1, InTileMeans DEF TypeInv, Grouped
      <3>3. TileCount \in 1 .. TILE_SIZE /\ TILE_SIZE \in Nat
        BY <3>1, TileCounted, TileAssumption DEF TypeInv, Grouped
      <3> QED
        BY <3>1, <3>2, <3>3
    <2>3. nnz_out[n] \in Row /\ line \in Line
      BY <2>2, RowOfNext
    <2>4. DOMAIN output' = Row /\ DOMAIN data' = Line
      BY <2>1 DEF TypeInv
    <2>5. tags' \in [Line -> Row \cup {INVALID_ID}]
      BY <2>1, <2>3 DEF TypeInv
    <2>6. \A l \in Line : tags'[l] # INVALID_ID => stashed' /\ l = tags'[l] % STASH_SIZE
      BY <2>1, <2>3 DEF TypeInv, line
    <2>7. TypeInv'
      BY <2>1, <2>4, <2>5, <2>6 DEF TypeInv, Tiled
    <2>8. Grouped' /\ TileCount' = TileCount
      BY <2>1, <2>2, GroupedKept
    <2>9. line' = line /\ tags'[line] = nnz_out[n]
      BY <2>1, <2>3 DEF line, TypeInv
    <2> QED
      BY <2>1, <2>2, <2>7, <2>8, <2>9 DEF GroupInv
  <1>3. ASSUME Add
        PROVE  TypeInv' /\ GroupInv'
    <2>1. /\ pc \in {"row", "add"} /\ (pc = "row" => InTile)
          /\ pc' = "row" /\ n' = NextHead
          /\ row' = row /\ curr' = curr /\ stashed' = stashed /\ tags' = tags
          /\ heads' = heads /\ nnz_val' = nnz_val /\ nnz_out' = nnz_out
          /\ output' = output \/ \E r, x : output' = [output EXCEPT ![r] = x]
          /\ data' = data \/ \E x : data' = [data EXCEPT ![line] = x]
      BY <1>3 DEF Add, tile, TypeInv
    <2>2. Grouped /\ n \in 0 .. TileCount /\ n < TileCount
      <3>1. Grouped /\ n \in 0 .. TileCount
        BY <2>1 DEF GroupInv
      <3> QED
        BY <2>1, <3>1, InTileMeans DEF TypeInv, Grouped, GroupInv
    <2>3. TileCount \in 1 .. TILE_SIZE /\ TILE_SIZE \in Nat /\ n \in 0 .. TileCount - 1
      <3>1. TileCount \in 1 .. TILE_SIZE /\ TILE_SIZE \in Nat
        BY <2>2, TileCounted, TileAssumption DEF TypeInv, Grouped
      <3> QED
        BY <2>2, <3>1
    <2>4. NextHead \in n + 1 .. TileCount
      BY <2>2, <2>3, RunOfRow DEF TypeInv
    <2>5. Grouped' /\ TileCount' = TileCount
      BY <2>1, <2>2, GroupedKept
    <2>6. n' \in 0 .. TileCount'
      BY <2>1, <2>3, <2>4, <2>5
    <2>7. DOMAIN output' = Row /\ DOMAIN data' = Line
      BY <2>1 DEF TypeInv
    <2>8. TypeInv'
      BY <2>1, <2>7 DEF TypeInv, Tiled
    <2> QED
      BY <2>1, <2>5, <2>6, <2>8 DEF GroupInv
  <1>4. ASSUME NextTile
        PROVE  TypeInv' /\ GroupInv'
    <2>1. /\ curr' = curr + TILE_SIZE /\ pc' = "sort" /\ row' = row /\ stashed' = stashed
          /\ tags' = tags /\ data' = data /\ output' = output
      BY <1>4 DEF NextTile, stash
    <2>2. Tiled'
      <3>1. curr' \in Nat
        BY <2>1, TileAssumption DEF TypeInv, Tiled
      <3>2. \E k \in Nat : row' \in [0 .. k - 1 -> Row]
        BY <2>1 DEF TypeInv, Tiled
      <3> QED
        BY <3>1, <3>2 DEF Tiled
    <2>3. \A l \in Line : tags'[l] # INVALID_ID => stashed' /\ l = tags'[l] % STASH_SIZE
      BY <2>1 DEF TypeInv
    <2>4. TypeInv'
      BY <2>1, <2>2, <2>3 DEF TypeInv
    <2>5. GroupInv'
      BY <2>1 DEF GroupInv
    <2> QED
      BY <2>4, <2>5
  <1>5. ASSUME Flush
        PROVE  TypeInv' /\ GroupInv'
    BY <1>5 DEF Flush, stash, TypeInv, Tiled, GroupInv
  <1>6. ASSUME UNCHANGED tileVars
        PROVE  TypeInv' /\ GroupInv'
    BY <1>6, GroupedKept DEF tileVars, tile, stash, TypeInv, Tiled, GroupInv, line
  <1> QED
    BY <1>1, <1>2, <1>3, <1>4, <1>5, <1>6 DEF Next, Done

\* Whatever the rows of the elements are, after the sort each row of the tile is
\* one run, a head begins each, and idle lanes are behind the last.
THEOREM TilesAreGrouped == Spec => []TileIsGrouped
  <1>1. TypeInv /\ GroupInv => TileIsGrouped
    <2> SUFFICES ASSUME TypeInv, GroupInv, pc \in {"row", "add"}
                 PROVE  TileIsGrouped
      BY DEF TileIsGrouped
    <2>1. Grouped
      BY DEF GroupInv
    <2>2. PICK k : k = TileCount /\ k = Cardinality(TileElements)
      BY <2>1, TileCounted DEF TypeInv, Grouped
    <2>3. k \in 1 .. TILE_SIZE /\ TILE_SIZE \in Nat /\ k \in Nat
      <3>1. k \in 1 .. TILE_SIZE /\ TILE_SIZE \in Nat
        BY <2>1, <2>2, TileCounted, TileAssumption DEF TypeInv, Grouped
      <3> QED
        BY <3>1
    <2>4. {nnz_val[m] : m \in 0 .. k - 1} = TileElements
      BY <2>1, <2>2 DEF Grouped
    <2>5. \A l, m \in 0 .. k - 1 : l < m /\ nnz_out[l] = nnz_out[m] =>
            \A h \in l .. m : nnz_out[h] = nnz_out[l]
      <3> SUFFICES ASSUME NEW l \in 0 .. k - 1, NEW m \in 0 .. k - 1, nnz_out[l] = nnz_out[m],
                          NEW h \in l .. m
                   PROVE  nnz_out[h] = nnz_out[l]
        OBVIOUS
      <3>1. h \in 0 .. k - 1 /\ l <= h /\ h <= m
        BY <2>3
      <3> QED
        BY <2>1, <2>2, <3>1 DEF Grouped
    <2> QED
      BY <2>1, <2>2, <2>4, <2>5 DEF TileIsGrouped, Grouped
  <1>2. TypeInv /\ GroupInv /\ [Next]_tileVars => (TypeInv /\ GroupInv)'
    BY TypeInvStep
  <1> QED
    BY <1>1, <1>2, TypeInvInit, PTL DEF Spec

-------------------------------------------------------------------------------
(* The account of each row: what is in the output and what is in the stash. *)

\* The sum of row r that waits in the stash.
Held(r) == IF tags[r % STASH_SIZE] = r THEN data[r % STASH_SIZE] ELSE {}

RowIsWhole(r) ==
  /\ pc = "done" => output[r] = {e \in Element : row[e] = r}
  /\ pc # "done" => /\ output[r] \cup Held(r) = {e \in Added : row[e] = r}
                    /\ output[r] \cap Held(r) = {}

AccountInv == exact /\ \A r \in Row : RowIsWhole(r)

RowsAreNumbers == Row \subseteq Nat /\ INVALID_ID \notin Row

LEMMA RowFacts == RowsAreNumbers
  BY TileAssumption DEF Row, RowsAreNumbers

LEMMA HeldIsInStash ==
  ASSUME TypeInv, NEW r \in Row
  PROVE  UNION {data[l] : l \in {k \in Line : tags[k] = r}} = Held(r)
  <1>1. \A l \in Line : tags[l] = r => l = r % STASH_SIZE
    BY RowFacts DEF TypeInv, RowsAreNumbers
  <1>2. r % STASH_SIZE \in Line
    BY LineOfRow
  <1>3. CASE tags[r % STASH_SIZE] = r
    <2>1. {k \in Line : tags[k] = r} = {r % STASH_SIZE}
      BY <1>1, <1>2, <1>3
    <2> QED
      BY <1>3, <2>1 DEF Held
  <1>4. CASE tags[r % STASH_SIZE] # r
    <2>1. {k \in Line : tags[k] = r} = {}
      BY <1>1, <1>4
    <2> QED
      BY <1>4, <2>1 DEF Held
  <1> QED
    BY <1>3, <1>4

\* The run that is added next: elements of one row, each once, and none of them
\* added before.
LEMMA RunIsNew ==
  ASSUME Tiled, Grouped, n \in 0 .. TileCount - 1, pc \in {"row", "add"}
  PROVE  /\ Run \subseteq Element
         /\ \A e \in Run : row[e] = nnz_out[n]
         /\ Run \cap Added = {}
         /\ RunIsDistinct
         /\ Added \cup Run = {e \in Element : e < curr} \cup {nnz_val[m] : m \in 0 .. NextHead - 1}
  <1> DEFINE k == TileCount
             h == NextHead
  <1>1. k \in Nat /\ n \in Nat /\ n < k /\ h \in n + 1 .. k /\ h \in Nat
    <2>1. k \in 1 .. TILE_SIZE /\ TILE_SIZE \in Nat
      BY TileCounted, TileAssumption DEF Grouped
    <2>2. k \in Nat /\ n \in Nat /\ n < k
      BY <2>1
    <2>3. h \in n + 1 .. k
      BY RunOfRow
    <2> QED
      BY <2>2, <2>3
  <1>2. \A m \in n .. h - 1 : nnz_out[m] = nnz_out[n]
    BY RunOfRow
  <1>3. /\ \A m \in 0 .. k - 1 : nnz_val[m] \in TileElements /\ nnz_out[m] = row[nnz_val[m]]
        /\ \A l, m \in 0 .. k - 1 : nnz_val[l] = nnz_val[m] => l = m
    BY DEF Grouped
  <1>4. Run = {nnz_val[m] : m \in n .. h - 1} /\ (RunIsDistinct <=> Cardinality(Run) = h - n)
    BY DEF Run, RunIsDistinct
  <1>5. Added = {e \in Element : e < curr} \cup {nnz_val[m] : m \in 0 .. n - 1}
    BY DEF Added
  <1>6. \A e \in TileElements : e \in Element /\ curr <= e /\ e \in Nat
    <2>1. Element \subseteq Nat
      BY ElementCount
    <2> QED
      BY <2>1 DEF TileElements
  <1> HIDE DEF k, h
  <1>7. n .. h - 1 \subseteq 0 .. k - 1 /\ 0 .. n - 1 \subseteq 0 .. k - 1
    BY <1>1
  <1>8. Run \subseteq Element /\ \A e \in Run : row[e] = nnz_out[n]
    BY <1>2, <1>3, <1>4, <1>6, <1>7
  <1>9. Run \cap Added = {}
    <2> SUFFICES ASSUME NEW e \in Run, e \in Added
                 PROVE  FALSE
      OBVIOUS
    <2>1. PICK m \in n .. h - 1 : e = nnz_val[m]
      BY <1>4
    <2>2. curr <= e /\ e \in Nat
      BY <1>3, <1>6, <1>7, <2>1
    <2>3. CASE e < curr
      BY <2>2, <2>3 DEF Tiled
    <2>4. CASE \E l \in 0 .. n - 1 : e = nnz_val[l]
      <3>1. PICK l \in 0 .. n - 1 : e = nnz_val[l]
        BY <2>4
      <3>2. l = m
        BY <1>3, <1>7, <2>1, <3>1
      <3> QED
        BY <1>1, <3>1, <3>2
    <2>5. e < curr \/ \E l \in 0 .. n - 1 : e = nnz_val[l]
      BY <1>5
    <2> QED
      BY <2>3, <2>4, <2>5
  <1>10. RunIsDistinct
    <2>1. n <= h /\ \A i, j \in n .. h - 1 : nnz_val[i] = nnz_val[j] => i = j
      BY <1>1, <1>3, <1>7
    <2>2. PICK c \in Nat : c = h
      BY <1>1
    <2>3. \A i, j \in n .. c - 1 : nnz_val[i] = nnz_val[j] => i = j
      BY <2>1, <2>2
    <2>4. Cardinality({nnz_val[i] : i \in n .. c - 1}) = c - n
      BY <1>1, <2>1, <2>2, <2>3, CountOfImage
    <2> QED
      BY <1>4, <2>2, <2>4
  <1>11. {nnz_val[m] : m \in 0 .. h - 1} = {nnz_val[m] : m \in 0 .. n - 1} \cup Run
    <2>1. 0 .. h - 1 = (0 .. n - 1) \cup (n .. h - 1)
      BY <1>1
    <2> QED
      BY <1>4, <2>1
  <1> QED
    BY <1>5, <1>8, <1>9, <1>10, <1>11 DEF h

LEMMA AccountInit == Init => AccountInv
  <1> SUFFICES ASSUME Init
               PROVE  AccountInv
    OBVIOUS
  <1>1. TypeInv
    BY TypeInvInit
  <1>2. Added = {}
    <2>1. Element \subseteq Nat
      BY <1>1, ElementCount DEF TypeInv
    <2>2. Added = {e \in Element : e < curr} /\ curr = 0
      BY DEF Init, Added
    <2>3. \A e \in Element : ~ (e < 0)
      BY <2>1
    <2> QED
      BY <2>2, <2>3
  <1>3. \A r \in Row : output[r] = {} /\ Held(r) = {}
    BY RowFacts, LineOfRow DEF Init, Held, RowsAreNumbers
  <1> QED
    BY <1>2, <1>3 DEF AccountInv, RowIsWhole, Init

\* Claiming a line moves the sum of another row to the output, or nothing.
LEMMA ClaimKeepsAccount ==
  ASSUME TypeInv, GroupInv, AccountInv, Claim
  PROVE  AccountInv'
  <1> DEFINE tag == tags[line]
             evicted == tag \notin {INVALID_ID, nnz_out[n]}
  <1>1. /\ pc = "row" /\ pc' = "add" /\ InTile
        /\ output' = IF evicted THEN [output EXCEPT ![tag] = @ \cup data[line]] ELSE output
        /\ exact' = (exact /\ (evicted => AddsOnce(data[line], output[tag])))
        /\ data' = IF tag = nnz_out[n] THEN data ELSE [data EXCEPT ![line] = {}]
        /\ tags' = [tags EXCEPT ![line] = nnz_out[n]]
        /\ row' = row /\ curr' = curr /\ n' = n /\ nnz_val' = nnz_val
    BY DEF Claim, tile
  <1>2. Grouped /\ n \in 0 .. TileCount /\ n < TileCount
    <2>1. Grouped /\ n \in 0 .. TileCount
      BY <1>1 DEF GroupInv
    <2> QED
      BY <1>1, <2>1, InTileMeans DEF TypeInv, Grouped
  <1>3. n \in 0 .. TileCount - 1
    <2>1. TileCount \in 1 .. TILE_SIZE /\ TILE_SIZE \in Nat
      BY <1>2, TileCounted, TileAssumption DEF TypeInv, Grouped
    <2> QED
      BY <1>2, <2>1
  <1>4. PICK q \in Row, l \in Line : q = nnz_out[n] /\ l = line /\ l = q % STASH_SIZE
    BY <1>2, <1>3, RowOfNext DEF line
  <1>5. /\ tags \in [Line -> Row \cup {INVALID_ID}] /\ DOMAIN data = Line /\ DOMAIN output = Row
        /\ tags[l] # INVALID_ID => tags[l] \in Row /\ l = tags[l] % STASH_SIZE
        /\ INVALID_ID \notin Row
    BY RowFacts DEF TypeInv, RowsAreNumbers
  <1>6. \A r \in Row : /\ output[r] \cup Held(r) = {e \in Added : row[e] = r}
                       /\ output[r] \cap Held(r) = {}
    BY <1>1 DEF AccountInv, RowIsWhole
  <1>7. Added' = Added
    BY <1>1 DEF Added, Element
  <1>8. Added \subseteq Element
    <2>1. \A m \in 0 .. n - 1 : nnz_val[m] \in Element
      <3>1. 0 .. n - 1 \subseteq 0 .. TileCount - 1
        <4>1. TileCount \in 1 .. TILE_SIZE /\ TILE_SIZE \in Nat
          BY <1>2, TileCounted, TileAssumption DEF TypeInv, Grouped
        <4> QED
          BY <1>3, <4>1
      <3> QED
        BY <1>2, <3>1 DEF Grouped, TileElements
    <2> QED
      BY <2>1 DEF Added
  <1>9. exact'
    <2>1. ASSUME evicted
          PROVE  AddsOnce(data[line], output[tag])
      <3>1. PICK r \in Row : r = tag
        BY <1>4, <1>5, <2>1
      <3>2. Held(r) = data[line]
        BY <1>4, <1>5, <2>1, <3>1 DEF Held
      <3> QED
        BY <1>6, <1>8, <3>1, <3>2 DEF AddsOnce
    <2> QED
      BY <1>1, <2>1 DEF AccountInv
  <1>10. ASSUME NEW r \in Row
         PROVE  RowIsWhole(r)'
    <2>1. \A j \in Line : j # l => tags'[j] = tags[j] /\ data'[j] = data[j]
      BY <1>1, <1>4, <1>5
    <2>2. tags'[l] = q
      BY <1>1, <1>4, <1>5
    <2>3. r % STASH_SIZE \in Line
      BY LineOfRow
    <2>4. output'[r] \cup Held(r)' = output[r] \cup Held(r) /\ output'[r] \cap Held(r)' = {}
      <3>1. CASE r = q
        <4>1. output'[r] = output[r]
          BY <1>1, <1>4, <1>5, <3>1
        <4>2. Held(r)' = data'[l] /\ Held(r) = IF tags[l] = q THEN data[l] ELSE {}
          BY <1>4, <2>2, <3>1 DEF Held
        <4>3. data'[l] = IF tags[l] = q THEN data[l] ELSE {}
          BY <1>1, <1>4, <1>5
        <4> QED
          BY <1>6, <4>1, <4>2, <4>3
      <3>2. CASE r # q /\ r = tags[l]
        <4>1. evicted /\ tag = r
          BY <1>4, <1>5, <3>2
        <4>2. output'[r] = output[r] \cup data[l]
          BY <1>1, <1>4, <1>5, <4>1
        <4>3. l = r % STASH_SIZE
          BY <1>5, <3>2
        <4>4. Held(r) = data[l] /\ Held(r)' = {}
          BY <2>2, <3>2, <4>3 DEF Held
        <4> QED
          BY <4>2, <4>4
      <3>3. CASE r # q /\ r # tags[l]
        <4>1. output'[r] = output[r]
          BY <1>1, <1>4, <1>5, <3>3
        <4>2. Held(r)' = Held(r)
          BY <2>1, <2>2, <2>3, <3>3 DEF Held
        <4> QED
          BY <1>6, <4>1, <4>2
      <3> QED
        BY <3>1, <3>2, <3>3
    <2> QED
      BY <1>1, <1>6, <1>7, <2>4 DEF RowIsWhole
  <1> QED
    BY <1>9, <1>10 DEF AccountInv

\* A run is added to what its row has so far, which is elsewhere or nothing.
LEMMA AddKeepsAccount ==
  ASSUME TypeInv, GroupInv, AccountInv, Add
  PROVE  AccountInv'
  <1>1. /\ pc \in {"row", "add"} /\ (pc = "row" => InTile) /\ pc' = "row" /\ n' = NextHead
        /\ row' = row /\ curr' = curr /\ tags' = tags /\ nnz_val' = nnz_val
        /\ IF stashed THEN pc = "add" ELSE pc = "row"
    BY DEF Add, tile
  <1>2. Grouped /\ n \in 0 .. TileCount /\ n < TileCount
    <2>1. Grouped /\ n \in 0 .. TileCount
      BY <1>1 DEF GroupInv
    <2> QED
      BY <1>1, <2>1, InTileMeans DEF TypeInv, Grouped, GroupInv
  <1>3. n \in 0 .. TileCount - 1
    <2>1. TileCount \in 1 .. TILE_SIZE /\ TILE_SIZE \in Nat
      BY <1>2, TileCounted, TileAssumption DEF TypeInv, Grouped
    <2> QED
      BY <1>2, <2>1
  <1>4. PICK q \in Row, l \in Line : q = nnz_out[n] /\ l = line /\ l = q % STASH_SIZE
    BY <1>2, <1>3, RowOfNext DEF line
  <1>5. PICK run : /\ run = Run /\ run \subseteq Element /\ run \cap Added = {} /\ RunIsDistinct
                   /\ \A e \in run : row[e] = q
                   /\ Added \cup run = {e \in Element : e < curr}
                                       \cup {nnz_val[m] : m \in 0 .. NextHead - 1}
    BY <1>1, <1>2, <1>3, <1>4, RunIsNew DEF TypeInv
  <1>6. \A r \in Row : /\ output[r] \cup Held(r) = {e \in Added : row[e] = r}
                       /\ output[r] \cap Held(r) = {}
    BY <1>1 DEF AccountInv, RowIsWhole
  <1>7. Added' = Added \cup run
    BY <1>1, <1>5 DEF Added, Element
  <1>8. /\ tags \in [Line -> Row \cup {INVALID_ID}] /\ DOMAIN data = Line /\ DOMAIN output = Row
        /\ \A j \in Line : tags[j] # INVALID_ID => stashed
        /\ INVALID_ID \notin Row
    BY RowFacts DEF TypeInv, RowsAreNumbers
  <1>9. /\ exact'
        /\ \A r \in Row : r # q => output'[r] = output[r] /\ Held(r)' = Held(r)
        /\ \/ output'[q] = output[q] /\ Held(q)' = Held(q) \cup run
           \/ output'[q] = output[q] \cup run /\ Held(q) = {} /\ Held(q)' = {}
    <2>1. CASE stashed
      <3>1. /\ data' = [data EXCEPT ![l] = @ \cup run] /\ output' = output
            /\ exact' = (exact /\ RunIsDistinct /\ AddsOnce(run, data[l]))
        BY <1>4, <1>5, <2>1 DEF Add
      <3>2. tags[l] = q
        BY <1>1, <1>4, <2>1 DEF GroupInv
      <3>3. Held(q) = data[l] /\ Held(q)' = data'[l]
        BY <1>1, <1>4, <3>2 DEF Held
      <3>4. data'[l] = data[l] \cup run /\ \A j \in Line : j # l => data'[j] = data[j]
        BY <1>8, <3>1
      <3>5. run \cap data[l] = {}
        BY <1>5, <1>6, <3>3
      <3>6. \A r \in Row : r # q => Held(r)' = Held(r)
        <4> SUFFICES ASSUME NEW r \in Row, r # q
                     PROVE  Held(r)' = Held(r)
          OBVIOUS
        <4>1. r % STASH_SIZE \in Line
          BY LineOfRow
        <4> QED
          BY <1>1, <3>2, <3>4, <4>1 DEF Held
      <3> QED
        BY <1>5, <3>1, <3>3, <3>4, <3>5, <3>6 DEF AddsOnce, AccountInv
    <2>2. CASE ~ stashed
      <3>1. /\ output' = [output EXCEPT ![q] = @ \cup run] /\ data' = data
            /\ exact' = (exact /\ RunIsDistinct /\ AddsOnce(run, output[q]))
        BY <1>4, <1>5, <2>2 DEF Add
      <3>2. \A r \in Row : Held(r) = {} /\ Held(r)' = {}
        <4> SUFFICES ASSUME NEW r \in Row
                     PROVE  Held(r) = {} /\ Held(r)' = {}
          OBVIOUS
        <4>1. r % STASH_SIZE \in Line
          BY LineOfRow
        <4>2. tags[r % STASH_SIZE] # r /\ tags' = tags
          BY <1>1, <1>8, <2>2, <4>1
        <4> QED
          BY <4>2 DEF Held
      <3>3. run \cap output[q] = {}
        BY <1>5, <1>6
      <3> QED
        BY <1>5, <1>8, <3>1, <3>2, <3>3 DEF AddsOnce, AccountInv
    <2> QED
      BY <2>1, <2>2
  <1>10. ASSUME NEW r \in Row
         PROVE  RowIsWhole(r)'
    <2>1. output'[r] \cup Held(r)' = {e \in Added' : row'[e] = r} /\ output'[r] \cap Held(r)' = {}
      <3>1. CASE r # q
        <4>1. {e \in Added' : row'[e] = r} = {e \in Added : row[e] = r}
          BY <1>1, <1>5, <1>7, <3>1
        <4> QED
          BY <1>6, <1>9, <3>1, <4>1
      <3>2. CASE r = q
        <4>1. {e \in Added' : row'[e] = r} = {e \in Added : row[e] = r} \cup run
          BY <1>1, <1>5, <1>7, <3>2
        <4>2. run \cap {e \in Added : row[e] = r} = {}
          BY <1>5
        <4>3. /\ output[q] \cup Held(q) = {e \in Added : row[e] = r}
              /\ output[q] \cap Held(q) = {}
          BY <1>6, <3>2
        <4> QED
          BY <1>9, <3>2, <4>1, <4>2, <4>3
      <3> QED
        BY <3>1, <3>2
    <2> QED
      BY <1>1, <2>1 DEF RowIsWhole
  <1> QED
    BY <1>9, <1>10 DEF AccountInv

\* In the end the stash is added to the output.
LEMMA FlushKeepsAccount ==
  ASSUME TypeInv, AccountInv, Flush
  PROVE  AccountInv'
  <1> DEFINE inUse(r) == {l \in Line : stashed /\ tags[l] = r}
  <1>1. /\ pc = "sort" /\ curr >= end_elem /\ pc' = "done"
        /\ output' = [r \in Row |-> output[r] \cup UNION {data[l] : l \in inUse(r)}]
        /\ exact' = (exact /\ \A r \in Row : \A l \in inUse(r) : AddsOnce(data[l], output[r]))
        /\ row' = row
    BY DEF Flush
  <1>2. Added = Element
    <2>1. Element = 0 .. end_elem - 1 /\ end_elem \in Nat /\ curr \in Nat
      BY ElementCount DEF TypeInv, Tiled
    <2>2. \A e \in Element : e < curr
      BY <1>1, <2>1
    <2> QED
      BY <1>1, <2>2 DEF Added
  <1>3. \A r \in Row : inUse(r) = {l \in Line : tags[l] = r}
    BY RowFacts DEF TypeInv, RowsAreNumbers
  <1>4. \A r \in Row : UNION {data[l] : l \in inUse(r)} = Held(r)
    BY <1>3, HeldIsInStash
  <1>5. \A r \in Row : /\ output[r] \cup Held(r) = {e \in Element : row[e] = r}
                       /\ output[r] \cap Held(r) = {}
    BY <1>1, <1>2 DEF AccountInv, RowIsWhole
  <1>6. exact'
    <2>1. ASSUME NEW r \in Row, NEW l \in inUse(r)
          PROVE  AddsOnce(data[l], output[r])
      <3>1. data[l] \subseteq Held(r)
        BY <1>4
      <3> QED
        BY <1>5, <3>1 DEF AddsOnce
    <2> QED
      BY <1>1, <2>1 DEF AccountInv
  <1>7. \A r \in Row : output'[r] = {e \in Element' : row'[e] = r}
    BY <1>1, <1>4, <1>5 DEF Element
  <1> QED
    BY <1>1, <1>6, <1>7 DEF AccountInv, RowIsWhole

\* Between the tiles the same elements are added.
LEMMA TileKeepsAccount ==
  ASSUME TypeInv, GroupInv, AccountInv, Sort \/ NextTile
  PROVE  AccountInv'
  <1>1. /\ row' = row /\ tags' = tags /\ data' = data /\ output' = output /\ exact' = exact
        /\ pc # "done" /\ pc' # "done"
    BY DEF Sort, NextTile, stash
  <1>2. Added' = Added
    <2>1. CASE Sort
      <3>1. Added = {e \in Element : e < curr}
        BY <2>1 DEF Sort, Added
      <3>2. Added' = {e \in Element : e < curr} \cup {nnz_val'[m] : m \in 0 .. 0 - 1}
        BY <2>1 DEF Sort, Added, Element
      <3>3. {nnz_val'[m] : m \in 0 .. 0 - 1} = {}
        OBVIOUS
      <3> QED
        BY <3>1, <3>2, <3>3
    <2>2. CASE NextTile
      <3>1. pc = "row" /\ ~ InTile /\ curr' = curr + TILE_SIZE /\ pc' = "sort"
        BY <2>2 DEF NextTile
      <3>2. Grouped /\ n \in 0 .. TileCount
        BY <3>1 DEF GroupInv
      <3>3. /\ TileCount \in 1 .. TILE_SIZE /\ TileElements = curr .. curr + TileCount - 1
            /\ curr + TileCount <= end_elem /\ TILE_SIZE \in Nat /\ curr \in Nat
            /\ curr + TILE_SIZE <= end_elem => TileCount = TILE_SIZE
            /\ end_elem \in Nat
        BY <3>2, TileCounted, ElementCount, TileAssumption DEF TypeInv, Grouped, Tiled
      <3>4. n = TileCount
        <4>1. ~ (n < TileCount)
          BY <3>1, <3>2, InTileMeans DEF TypeInv, Grouped
        <4> QED
          BY <3>2, <3>3, <4>1
      <3>5. {nnz_val[m] : m \in 0 .. n - 1} = TileElements
        BY <3>2, <3>4 DEF Grouped
      <3>6. Added = {e \in Element : e < curr} \cup TileElements
        BY <3>1, <3>5 DEF Added
      <3>7. Added' = {e \in Element : e < curr + TILE_SIZE}
        BY <1>1, <3>1 DEF Added, Element
      <3>8. \A e \in Element : e < curr + TILE_SIZE <=> e < curr \/ e \in TileElements
        <4>1. Element \subseteq Nat /\ curr \in Nat /\ TILE_SIZE \in Nat
          BY ElementCount, TileAssumption DEF TypeInv, Tiled
        <4> QED
          BY <4>1 DEF TileElements
      <3>9. TileElements \subseteq Element
        BY DEF TileElements
      <3> QED
        BY <3>6, <3>7, <3>8, <3>9
    <2> QED
      BY <2>1, <2>2
  <1>3. \A r \in Row : Held(r)' = Held(r)
    BY <1>1 DEF Held
  <1> QED
    BY <1>1, <1>2, <1>3 DEF AccountInv, RowIsWhole

LEMMA AccountStep ==
  ASSUME TypeInv, GroupInv, AccountInv, [Next]_tileVars
  PROVE  AccountInv'
  <1>1. CASE UNCHANGED tileVars
    BY <1>1 DEF tileVars, tile, stash, AccountInv, RowIsWhole, Held, Added, Element
  <1> QED
    BY <1>1, ClaimKeepsAccount, AddKeepsAccount, FlushKeepsAccount, TileKeepsAccount
       DEF Next, Done

\* A thread block adds every element it is given once to the row the element is
\* for, whatever the rows are, however often the stash evicts a row and takes it
\* back, and nothing else: the step that RunThreadBlock of BlcoMttkrp takes at once.
THEOREM TileLosesNothing == Spec => []NothingIsLost
  <1>1. TypeInv /\ AccountInv => NothingIsLost
    BY HeldIsInStash DEF AccountInv, RowIsWhole, NothingIsLost
  <1>2. TypeInv /\ GroupInv /\ AccountInv /\ [Next]_tileVars => (TypeInv /\ GroupInv /\ AccountInv)'
    BY TypeInvStep, AccountStep
  <1> QED
    BY <1>1, <1>2, TypeInvInit, AccountInit, PTL DEF Spec

===============================================================================
