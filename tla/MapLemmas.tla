----------------------------- MODULE MapLemmas -----------------------------
(* What the operators of Map.tla return, keep and bound. *)
EXTENDS Map, FiniteSetTheorems, WellFoundedInduction, TLAPS

(* A nonempty set of slots has a first one: the linear searches of map.c   *)
(* return an element of the set they search for.                           *)
LEMMA FirstIn ==
    ASSUME NEW S \in SUBSET Nat, S # {}
    PROVE  First(S) \in S /\ \A j \in S : First(S) <= j
<1> DEFINE T == {0 .. i : i \in S}
<1>1. T \subseteq FiniteSubsetsOf(Nat)
    <2> SUFFICES ASSUME NEW i \in S PROVE 0 .. i \in FiniteSubsetsOf(Nat)
        OBVIOUS
    <2>1. i \in Nat /\ 0 .. i \in SUBSET Nat
        OBVIOUS
    <2>2. IsFiniteSet(0 .. i)
        BY <2>1, FS_Interval
    <2> QED BY <2>1, <2>2 DEF FiniteSubsetsOf
<1>2. T # {}
    OBVIOUS
<1> HIDE DEF T
<1>3. PICK x \in T : \A y \in T : ~ (<<y, x>> \in StrictSubsetOrdering(Nat))
    BY <1>1, <1>2, FS_StrictSubsetOrderingWellFounded, WFMin
<1>4. PICK i \in S : x = 0 .. i
    BY DEF T
<1>5. ASSUME NEW j \in S PROVE i <= j
    <2>1. i \in Nat /\ j \in Nat
        OBVIOUS
    <2>2. SUFFICES ASSUME j < i PROVE FALSE
        BY <2>1
    <2>3. 0 .. j \in T
        BY DEF T
    <2>4. 0 .. j \subseteq 0 .. i /\ 0 .. j # 0 .. i
        BY <2>1, <2>2
    <2>5. <<0 .. j, 0 .. i>> \in StrictSubsetOrdering(Nat)
        BY <2>1, <2>4 DEF StrictSubsetOrdering
    <2> QED BY <1>3, <1>4, <2>3, <2>5
<1> QED BY <1>5 DEF First

-----------------------------------------------------------------------------
(* As much of the type of a map as the lemmas on its sets of slots need. *)
IsMap(m) ==
    /\ m.max_size \in Nat
    /\ m.timeout \in Nat
    /\ m.size \in Nat
    /\ \A i \in Slots(m) : m.data[i].time \in Nat

LEMMA TypedMap ==
    ASSUME NEW K, NEW V, NEW c \in Nat, NEW d \in Nat,
           NEW m \in MapType(K, V, c, d)
    PROVE  IsMap(m) /\ m.max_size = c /\ m.timeout = d
    BY DEF MapType, IsMap, Slots

(* The slots of a map, and those in use, are finitely many naturals. *)
LEMMA SlotSets ==
    ASSUME NEW m, IsMap(m)
    PROVE  /\ Slots(m) \in SUBSET Nat
           /\ IsFiniteSet(Slots(m)) /\ Cardinality(Slots(m)) = m.max_size
           /\ Occupied(m) \subseteq Slots(m)
           /\ IsFiniteSet(Occupied(m))
           /\ Cardinality(Occupied(m)) \in Nat
<1>1. Slots(m) \in SUBSET Nat
    BY DEF Slots, IsMap
<1>2. IsFiniteSet(Slots(m)) /\ Cardinality(Slots(m)) = m.max_size
    <2>1. 0 \in Int /\ m.max_size - 1 \in Int
        BY DEF IsMap
    <2>2. /\ IsFiniteSet(Slots(m))
          /\ Cardinality(Slots(m)) =
                IF 0 > m.max_size - 1 THEN 0 ELSE m.max_size - 1 - 0 + 1
        BY <2>1, FS_Interval DEF Slots
    <2> QED BY <2>2 DEF IsMap
<1>3. Occupied(m) \subseteq Slots(m)
    BY DEF Occupied
<1>4. IsFiniteSet(Occupied(m))
    BY <1>2, <1>3, FS_Subset
<1> QED BY <1>1, <1>2, <1>3, <1>4, FS_CardinalityType

(* Whatever is live is in use. *)
LEMMA LiveSets ==
    ASSUME NEW m, IsMap(m), NEW t \in Nat
    PROVE  /\ Live(m, t) \subseteq Occupied(m)
           /\ IsFiniteSet(Live(m, t))
           /\ Cardinality(Live(m, t)) \in Nat
           /\ Cardinality(Live(m, t)) <= Cardinality(Occupied(m))
<1>1. Live(m, t) \subseteq Occupied(m)
    BY DEF Live, Occupied, map_entry_valid, Fresh
<1>2. IsFiniteSet(Occupied(m))
    BY SlotSets
<1>3. /\ IsFiniteSet(Live(m, t))
      /\ Cardinality(Live(m, t)) <= Cardinality(Occupied(m))
    BY <1>1, <1>2, FS_Subset
<1> QED BY <1>1, <1>3, FS_CardinalityType

(* Entries only die as the clock advances. *)
LEMMA LiveShrinks ==
    ASSUME NEW m, IsMap(m), NEW t \in Nat, NEW u \in Nat, t <= u
    PROVE  Live(m, u) \subseteq Live(m, t)
    BY DEF IsMap, Live, map_entry_valid, Fresh

(* The two searches of map.c: the first hit and the first invalid slot.    *)
LEMMA Searches ==
    ASSUME NEW m, IsMap(m), NEW t \in Nat, NEW k
    PROVE  /\ Hits(m, k, t) # {} => First(Hits(m, k, t)) \in Hits(m, k, t)
           /\ Free(m, t) # {} => First(Free(m, t)) \in Free(m, t)
<1>1. Hits(m, k, t) \in SUBSET Nat /\ Free(m, t) \in SUBSET Nat
    BY SlotSets DEF Hits, Live, Free
<1> QED BY <1>1, FirstIn

(* The pigeonhole behind map.c:104-119: below capacity, map_set finds an   *)
(* invalid slot, so its last return -1 cannot be reached.                  *)
LEMMA FreeBelowCapacity ==
    ASSUME NEW m, IsMap(m), NEW t \in Nat,
           Accounted(m), m.size < m.max_size
    PROVE  Free(m, t) # {}
<1>1. SUFFICES ASSUME Slots(m) \subseteq Live(m, t) PROVE FALSE
    BY DEF Free
<1>2. Slots(m) = Occupied(m)
    BY <1>1, SlotSets, LiveSets
<1>3. Cardinality(Occupied(m)) = m.max_size
    BY <1>2, SlotSets
<1> QED BY <1>3 DEF Accounted, IsMap

-----------------------------------------------------------------------------
(* The three ways map_set changes a map, and the ways it answers. *)
LEMMA SetCases ==
    ASSUME NEW m, IsMap(m), NEW k, NEW v, NEW t \in Nat, NEW u \in Nat
    PROVE  \/ /\ \E i \in Hits(m, k, t) : map_set(m, k, v, t, u) = Update(m, i, v, u)
              /\ map_set_ret(m, k, t, u) = 0
           \/ /\ Hits(m, k, t) = {} /\ m.size # m.max_size
              /\ \E i \in Free(m, u) : map_set(m, k, v, t, u) = Insert(m, i, k, v, u)
              /\ map_set_ret(m, k, t, u) = 0
           \/ /\ Hits(m, k, t) = {} /\ (m.size = m.max_size \/ Free(m, u) = {})
              /\ map_set(m, k, v, t, u) = m
              /\ map_set_ret(m, k, t, u) = -1
<1>1. CASE Hits(m, k, t) # {}
    BY <1>1, Searches DEF map_set, map_set_ret
<1>2. CASE Hits(m, k, t) = {} /\ (m.size = m.max_size \/ Free(m, u) = {})
    BY <1>2 DEF map_set, map_set_ret
<1>3. CASE Hits(m, k, t) = {} /\ ~(m.size = m.max_size \/ Free(m, u) = {})
    BY <1>3, Searches DEF map_set, map_set_ret
<1> QED BY <1>1, <1>2, <1>3

(* The two ways of map_delete. *)
LEMMA DeleteCases ==
    ASSUME NEW m, IsMap(m), NEW k, NEW t \in Nat
    PROVE  \/ Hits(m, k, t) = {} /\ map_delete(m, k, t) = m
           \/ \E i \in Hits(m, k, t) : map_delete(m, k, t) = Clear(m, i)
    BY Searches DEF map_delete

(* What refreshing a live entry does: same keys, same size, and only       *)
(* entries that were live before are live.                                 *)
IsUpdate(m, n, i, v, t, u) ==
    /\ n.size = m.size /\ n.max_size = m.max_size /\ Slots(n) = Slots(m)
    /\ n.data[i] = [key |-> m.data[i].key, value |-> v, time |-> u]
    /\ \A j \in Slots(m) \ {i} : n.data[j] = m.data[j]
    /\ Occupied(n) = Occupied(m)
    /\ Live(n, u) = Live(m, u) \cup {i}
    /\ Live(n, u) \subseteq Live(m, t)

(* What filling an invalid slot does. *)
IsInsert(m, n, i, k, v, u) ==
    /\ n.size = m.size + 1 /\ n.max_size = m.max_size /\ Slots(n) = Slots(m)
    /\ n.data[i] = [key |-> k, value |-> v, time |-> u]
    /\ \A j \in Slots(m) \ {i} : n.data[j] = m.data[j]
    /\ Occupied(n) = Occupied(m) \cup {i}
    /\ Live(n, u) = Live(m, u) \cup {i}

(* What clearing a live entry does. *)
IsClear(m, n, i, t) ==
    /\ n.size = m.size - 1 /\ n.max_size = m.max_size /\ Slots(n) = Slots(m)
    /\ n.data[i].time = 0
    /\ \A j \in Slots(m) \ {i} : n.data[j] = m.data[j]
    /\ Occupied(n) = Occupied(m) \ {i}
    /\ Live(n, t) = Live(m, t) \ {i}

LEMMA UpdateEffect ==
    ASSUME NEW K, NEW V, NEW c \in Nat, NEW d \in Nat,
           NEW m \in MapType(K, V, c, d),
           NEW v \in V, NEW t \in Nat, NEW u \in Nat, u # 0, t <= u,
           NEW i \in Live(m, t)
    PROVE  /\ Update(m, i, v, u) \in MapType(K, V, c, d)
           /\ IsUpdate(m, Update(m, i, v, u), i, v, t, u)
<1> DEFINE n == Update(m, i, v, u)
<1>1. i \in Slots(m) /\ i \in Occupied(m) /\ Slots(m) = 0 .. c - 1
    BY DEF Live, Occupied, map_entry_valid, Fresh, MapType, Slots
<1>2. /\ n \in MapType(K, V, c, d)
      /\ n.size = m.size /\ n.timeout = m.timeout
      /\ n.data[i] = [key |-> m.data[i].key, value |-> v, time |-> u]
      /\ \A j \in Slots(m) \ {i} : n.data[j] = m.data[j]
    BY <1>1 DEF Update, MapType
<1> HIDE DEF n
<1>3. n.max_size = m.max_size /\ Slots(n) = Slots(m) /\ n.timeout \in Nat
    BY <1>2 DEF MapType, Slots
<1>4. Occupied(n) = Occupied(m)
    BY <1>1, <1>2, <1>3 DEF Occupied
<1>5. Live(n, u) = Live(m, u) \cup {i}
    <2>1. map_entry_valid(n, i, u)
        BY <1>2, <1>3 DEF map_entry_valid, Fresh
    <2>2. \A j \in Slots(m) \ {i} : map_entry_valid(n, j, u) <=> map_entry_valid(m, j, u)
        BY <1>2 DEF map_entry_valid
    <2> QED BY <1>1, <1>3, <2>1, <2>2 DEF Live
<1>6. Live(n, u) \subseteq Live(m, t)
    BY <1>5, TypedMap, LiveShrinks
<1> QED BY <1>2, <1>3, <1>4, <1>5, <1>6 DEF n, IsUpdate

LEMMA InsertEffect ==
    ASSUME NEW K, NEW V, NEW c \in Nat, NEW d \in Nat,
           NEW m \in MapType(K, V, c, d),
           NEW k \in K, NEW v \in V, NEW u \in Nat, u # 0,
           NEW i \in Free(m, u)
    PROVE  /\ Insert(m, i, k, v, u) \in MapType(K, V, c, d)
           /\ IsInsert(m, Insert(m, i, k, v, u), i, k, v, u)
<1> DEFINE n == Insert(m, i, k, v, u)
<1>1. i \in Slots(m) /\ Slots(m) = 0 .. c - 1
    BY DEF Free, MapType, Slots
<1>2. /\ n \in MapType(K, V, c, d)
      /\ n.size = m.size + 1 /\ n.timeout = m.timeout
      /\ n.data[i] = [key |-> k, value |-> v, time |-> u]
      /\ \A j \in Slots(m) \ {i} : n.data[j] = m.data[j]
    <2>1. [key |-> k, value |-> v, time |-> u] \in
             [key : K \cup {NULL}, value : V \cup {NULL}, time : Nat]
        OBVIOUS
    <2>2. m.size + 1 \in Nat
        BY DEF MapType
    <2> QED BY <1>1, <2>1, <2>2 DEF Insert, MapType
<1> HIDE DEF n
<1>3. n.max_size = m.max_size /\ Slots(n) = Slots(m) /\ n.timeout \in Nat
    BY <1>2 DEF MapType, Slots
<1>4. Occupied(n) = Occupied(m) \cup {i}
    BY <1>1, <1>2, <1>3 DEF Occupied
<1>5. Live(n, u) = Live(m, u) \cup {i}
    <2>1. map_entry_valid(n, i, u)
        BY <1>2, <1>3 DEF map_entry_valid, Fresh
    <2>2. \A j \in Slots(m) \ {i} : map_entry_valid(n, j, u) <=> map_entry_valid(m, j, u)
        BY <1>2 DEF map_entry_valid
    <2> QED BY <1>1, <1>3, <2>1, <2>2 DEF Live
<1> QED BY <1>2, <1>3, <1>4, <1>5 DEF n, IsInsert

LEMMA ClearEffect ==
    ASSUME NEW K, NEW V, NEW c \in Nat, NEW d \in Nat,
           NEW m \in MapType(K, V, c, d), NEW t \in Nat,
           NEW i \in Live(m, t), m.size > 0
    PROVE  /\ Clear(m, i) \in MapType(K, V, c, d)
           /\ IsClear(m, Clear(m, i), i, t)
<1> DEFINE n == Clear(m, i)
<1>1. i \in Slots(m) /\ Slots(m) = 0 .. c - 1
    BY DEF Live, MapType, Slots
<1>2. /\ n \in MapType(K, V, c, d)
      /\ n.size = m.size - 1 /\ n.timeout = m.timeout
      /\ n.data[i].time = 0
      /\ \A j \in Slots(m) \ {i} : n.data[j] = m.data[j]
    <2>1. [m.data[i] EXCEPT !.time = 0] \in
             [key : K \cup {NULL}, value : V \cup {NULL}, time : Nat]
        BY <1>1 DEF MapType
    <2>2. [m.data[i] EXCEPT !.time = 0].time = 0
        BY <1>1 DEF MapType
    <2>3. m.size - 1 \in Nat
        BY DEF MapType
    <2> QED BY <1>1, <2>1, <2>2, <2>3 DEF Clear, MapType
<1> HIDE DEF n
<1>3. n.max_size = m.max_size /\ Slots(n) = Slots(m)
    BY <1>2 DEF MapType, Slots
<1>4. Occupied(n) = Occupied(m) \ {i}
    BY <1>1, <1>2, <1>3 DEF Occupied
<1>5. Live(n, t) = Live(m, t) \ {i}
    <2>1. ~ map_entry_valid(n, i, t)
        BY <1>2 DEF map_entry_valid, Fresh
    <2>2. \A j \in Slots(m) \ {i} : map_entry_valid(n, j, t) <=> map_entry_valid(m, j, t)
        BY <1>2 DEF map_entry_valid
    <2> QED BY <1>1, <1>3, <2>1, <2>2 DEF Live
<1> QED BY <1>2, <1>3, <1>4, <1>5 DEF n, IsClear

-----------------------------------------------------------------------------
(* The inductive invariant of a map at second t. *)
Sound(m, t) ==
    StampedBy(m, t) /\ Filled(m) /\ Accounted(m) /\ KeysUnique(m, t)

LEMMA SoundInit ==
    ASSUME NEW K, NEW V, NEW c \in Nat, NEW d \in Nat, NEW t \in Nat
    PROVE  map_init(c, d) \in MapType(K, V, c, d) /\ Sound(map_init(c, d), t)
<1> DEFINE m == map_init(c, d)
<1>1. m \in MapType(K, V, c, d)
    BY DEF map_init, MapType
<1>2. Occupied(m) = {}
    BY DEF map_init, Occupied, Slots
<1>3. Live(m, t) = {}
    BY DEF map_init, Live, Slots, map_entry_valid, Fresh
<1>4. StampedBy(m, t)
    BY DEF map_init, StampedBy, Slots
<1>5. Accounted(m)
    BY <1>2, FS_EmptySet DEF Accounted, map_init
<1> QED BY <1>1, <1>2, <1>3, <1>4, <1>5 DEF Sound, Filled, KeysUnique

(* Waiting keeps it. *)
LEMMA SoundLater ==
    ASSUME NEW m, IsMap(m), NEW t \in Nat, NEW u \in Nat, t <= u, Sound(m, t)
    PROVE  Sound(m, u)
<1>1. StampedBy(m, u)
    BY DEF Sound, StampedBy, IsMap
<1>2. KeysUnique(m, u)
    BY LiveShrinks DEF Sound, KeysUnique
<1> QED BY <1>1, <1>2 DEF Sound

(* A map that has a live entry has a positive size: map_delete does not    *)
(* take the unsigned size below 0.                                         *)
LEMMA LiveCounted ==
    ASSUME NEW m, IsMap(m), NEW t \in Nat, Accounted(m), Live(m, t) # {}
    PROVE  m.size > 0
<1>1. Occupied(m) # {}
    BY LiveSets
<1>2. Cardinality(Occupied(m)) \in Nat /\ Cardinality(Occupied(m)) # 0
    BY <1>1, SlotSets, FS_EmptySet
<1> QED BY <1>2 DEF Accounted, IsMap

(* Refreshing a live entry keeps it. *)
LEMMA SoundUpdate ==
    ASSUME NEW K, NEW V, NEW c \in Nat, NEW d \in Nat, NULL \notin V,
           NEW m \in MapType(K, V, c, d), NEW v \in V,
           NEW t \in Nat, NEW u \in Nat, u # 0, t <= u, Sound(m, t),
           NEW i \in Live(m, t)
    PROVE  Sound(Update(m, i, v, u), u)
<1> DEFINE n == Update(m, i, v, u)
<1>1. IsMap(m)
    BY TypedMap
<1>2. n \in MapType(K, V, c, d) /\ IsUpdate(m, n, i, v, t, u)
    BY UpdateEffect
<1> HIDE DEF n
<1> USE DEF IsUpdate
<1>4. Live(m, t) \subseteq Occupied(m) /\ Occupied(m) \subseteq Slots(m)
    BY <1>1, LiveSets, SlotSets
<1>5. StampedBy(n, u)
    <2>1. StampedBy(m, u)
        BY <1>1, SoundLater DEF Sound
    <2> QED BY <1>2, <2>1 DEF StampedBy
<1>6. Filled(n)
    BY <1>2, <1>4 DEF Sound, Filled
<1>7. Accounted(n)
    BY <1>2 DEF Sound, Accounted
<1>8. \A j \in Slots(m) : n.data[j].key = m.data[j].key
    BY <1>2
<1>9. KeysUnique(n, u)
    BY <1>2, <1>4, <1>8 DEF Sound, KeysUnique
<1> QED BY <1>5, <1>6, <1>7, <1>9 DEF Sound, n

(* Inserting a key that is not live into an invalid slot keeps it, below   *)
(* capacity.                                                               *)
LEMMA SoundInsert ==
    ASSUME NEW K, NEW V, NEW c \in Nat, NEW d \in Nat, NULL \notin K \cup V,
           NEW m \in MapType(K, V, c, d), NEW k \in K, NEW v \in V,
           NEW t \in Nat, NEW u \in Nat, u # 0, t <= u, Sound(m, t),
           Hits(m, k, t) = {}, m.size # m.max_size,
           NEW i \in Free(m, u)
    PROVE  Sound(Insert(m, i, k, v, u), u)
<1> DEFINE n == Insert(m, i, k, v, u)
<1>1. IsMap(m)
    BY TypedMap
<1>2. n \in MapType(K, V, c, d) /\ IsInsert(m, n, i, k, v, u)
    BY InsertEffect
<1> HIDE DEF n
<1> USE DEF IsInsert
<1>4. /\ Live(m, t) \subseteq Occupied(m) /\ Occupied(m) \subseteq Slots(m)
      /\ Live(m, u) \subseteq Live(m, t)
    BY <1>1, LiveSets, SlotSets, LiveShrinks
<1>5. StampedBy(n, u)
    <2>1. StampedBy(m, u)
        BY <1>1, SoundLater DEF Sound
    <2> QED BY <1>2, <2>1 DEF StampedBy
<1>6. Filled(n)
    BY <1>2, <1>4 DEF Sound, Filled
<1>7. Accounted(n)
    <2>1. IsFiniteSet(Occupied(m)) /\ Cardinality(Occupied(m)) \in Nat
        BY <1>1, SlotSets
    <2>2. Cardinality(Occupied(n)) =
             IF i \in Occupied(m) THEN Cardinality(Occupied(m))
                                  ELSE Cardinality(Occupied(m)) + 1
        BY <1>2, <2>1, FS_AddElement
    <2> QED BY <1>1, <1>2, <2>1, <2>2 DEF Sound, Accounted, IsMap
<1>8. i \notin Live(m, u) /\ \A j \in Live(m, u) : m.data[j].key # k
    BY <1>4 DEF Free, Hits
<1>9. KeysUnique(n, u)
    <2>1. \A j \in Live(m, u) : n.data[j] = m.data[j] /\ n.data[j].key # k
        BY <1>2, <1>4, <1>8
    <2>2. n.data[i].key = k
        BY <1>2
    <2>3. \A j, h \in Live(m, u) : m.data[j].key = m.data[h].key => j = h
        BY <1>4 DEF Sound, KeysUnique
    <2> QED BY <1>2, <2>1, <2>2, <2>3 DEF KeysUnique
<1> QED BY <1>5, <1>6, <1>7, <1>9 DEF Sound, n

(* Clearing a live entry keeps it. *)
LEMMA SoundClear ==
    ASSUME NEW K, NEW V, NEW c \in Nat, NEW d \in Nat,
           NEW m \in MapType(K, V, c, d), NEW t \in Nat, Sound(m, t),
           NEW i \in Live(m, t)
    PROVE  Clear(m, i) \in MapType(K, V, c, d) /\ Sound(Clear(m, i), t)
<1> DEFINE n == Clear(m, i)
<1>1. IsMap(m)
    BY TypedMap
<1>2. m.size > 0
    BY <1>1, LiveCounted DEF Sound
<1>3. n \in MapType(K, V, c, d) /\ IsClear(m, n, i, t)
    BY <1>2, ClearEffect
<1> HIDE DEF n
<1> USE DEF IsClear
<1>5. Live(m, t) \subseteq Occupied(m) /\ Occupied(m) \subseteq Slots(m)
    BY <1>1, LiveSets, SlotSets
<1>6. StampedBy(n, t)
    BY <1>3 DEF Sound, StampedBy
<1>7. Filled(n)
    BY <1>3, <1>5 DEF Sound, Filled
<1>8. Accounted(n)
    <2>1. IsFiniteSet(Occupied(m)) /\ Cardinality(Occupied(m)) \in Nat
        BY <1>1, SlotSets
    <2>2. Cardinality(Occupied(n)) = Cardinality(Occupied(m)) - 1
        BY <1>3, <1>5, <2>1, FS_RemoveElement
    <2> QED BY <1>1, <1>3, <2>1, <2>2 DEF Sound, Accounted, IsMap
<1>9. KeysUnique(n, t)
    BY <1>3, <1>5 DEF Sound, KeysUnique
<1> QED BY <1>3, <1>6, <1>7, <1>8, <1>9 DEF Sound, n

(* map_set keeps it, whatever the clock does between its two readings. *)
LEMMA SoundSet ==
    ASSUME NEW K, NEW V, NEW c \in Nat, NEW d \in Nat, NULL \notin K \cup V,
           NEW m \in MapType(K, V, c, d), NEW k \in K, NEW v \in V,
           NEW t \in Nat, NEW u \in Nat, u # 0, t <= u, Sound(m, t)
    PROVE  /\ map_set(m, k, v, t, u) \in MapType(K, V, c, d)
           /\ Sound(map_set(m, k, v, t, u), u)
<1>0. IsMap(m)
    BY TypedMap
<1>1. ASSUME NEW i \in Hits(m, k, t), map_set(m, k, v, t, u) = Update(m, i, v, u)
      PROVE  /\ map_set(m, k, v, t, u) \in MapType(K, V, c, d)
             /\ Sound(map_set(m, k, v, t, u), u)
    <2>1. i \in Live(m, t)
        BY DEF Hits
    <2>2. Update(m, i, v, u) \in MapType(K, V, c, d)
        BY <2>1, UpdateEffect
    <2>3. Sound(Update(m, i, v, u), u)
        BY <2>1, SoundUpdate
    <2> QED BY <1>1, <2>2, <2>3
<1>2. ASSUME Hits(m, k, t) = {}, m.size # m.max_size, NEW i \in Free(m, u),
             map_set(m, k, v, t, u) = Insert(m, i, k, v, u)
      PROVE  /\ map_set(m, k, v, t, u) \in MapType(K, V, c, d)
             /\ Sound(map_set(m, k, v, t, u), u)
    <2>1. Insert(m, i, k, v, u) \in MapType(K, V, c, d)
        BY InsertEffect
    <2>2. Sound(Insert(m, i, k, v, u), u)
        BY <1>2, SoundInsert
    <2> QED BY <1>2, <2>1, <2>2
<1>3. CASE map_set(m, k, v, t, u) = m
    BY <1>0, <1>3, SoundLater
<1> QED BY <1>0, <1>1, <1>2, <1>3, SetCases

(* map_delete keeps it. *)
LEMMA SoundDelete ==
    ASSUME NEW K, NEW V, NEW c \in Nat, NEW d \in Nat,
           NEW m \in MapType(K, V, c, d), NEW k, NEW t \in Nat, Sound(m, t)
    PROVE  /\ map_delete(m, k, t) \in MapType(K, V, c, d)
           /\ Sound(map_delete(m, k, t), t)
<1>1. \A i \in Hits(m, k, t) : i \in Live(m, t)
    BY DEF Hits
<1> QED BY <1>1, TypedMap, DeleteCases, SoundClear

-----------------------------------------------------------------------------
(* The contents of a map, seen without its slots: what each operation does *)
(* to the set of entries a search can find.                                *)
Lasts(m, e, u) == m.timeout = 0 \/ e.time + m.timeout >= u

LEMMA LiveAt ==
    ASSUME NEW m, IsMap(m), NEW t \in Nat, NEW u \in Nat, t <= u
    PROVE  \A i \in Live(m, t) : i \in Live(m, u) <=> Lasts(m, m.data[i], u)
    BY DEF IsMap, Live, map_entry_valid, Fresh, Lasts

LEMMA EntriesLater ==
    ASSUME NEW m, IsMap(m), NEW t \in Nat, NEW u \in Nat, t <= u
    PROVE  Entries(m, u) = {e \in Entries(m, t) : Lasts(m, e, u)}
<1>1. Live(m, u) \subseteq Live(m, t)
    BY LiveShrinks
<1> QED BY <1>1, LiveAt DEF Entries

(* A key is present exactly when the search for it has a hit. *)
LEMMA EntriesHit ==
    ASSUME NEW m, NEW t, NEW k
    PROVE  (\E e \in Entries(m, t) : e.key = k) <=> Hits(m, k, t) # {}
    BY DEF Entries, Hits

LEMMA EntriesUpdate ==
    ASSUME NEW K, NEW V, NEW c \in Nat, NEW d \in Nat,
           NEW m \in MapType(K, V, c, d), NEW k, NEW v \in V,
           NEW t \in Nat, NEW u \in Nat, u # 0, t <= u, KeysUnique(m, t),
           NEW i \in Hits(m, k, t)
    PROVE  Entries(Update(m, i, v, u), u) =
             {e \in Entries(m, t) : e.key # k /\ Lasts(m, e, u)}
               \cup {[key |-> k, value |-> v, time |-> u]}
<1> DEFINE n == Update(m, i, v, u)
<1>1. i \in Live(m, t) /\ m.data[i].key = k
    BY DEF Hits
<1>2. IsUpdate(m, n, i, v, t, u)
    BY <1>1, UpdateEffect
<1> HIDE DEF n
<1>3. IsMap(m)
    BY TypedMap
<1>4. /\ Live(m, u) \subseteq Live(m, t) /\ Live(m, t) \subseteq Slots(m)
      /\ \A j \in Live(m, t) : j \in Live(m, u) <=> Lasts(m, m.data[j], u)
    BY <1>3, LiveShrinks, LiveAt, LiveSets, SlotSets
<1>5. \A j \in Live(m, t) : m.data[j].key # k <=> j # i
    BY <1>1 DEF KeysUnique
<1>6. /\ n.data[i] = [key |-> k, value |-> v, time |-> u]
      /\ \A j \in Live(m, u) \ {i} : n.data[j] = m.data[j]
      /\ Live(n, u) = (Live(m, u) \ {i}) \cup {i}
    BY <1>1, <1>2, <1>4 DEF IsUpdate
<1>7. Entries(n, u) = {m.data[j] : j \in Live(m, u) \ {i}} \cup {n.data[i]}
    BY <1>6 DEF Entries
<1>8. {e \in Entries(m, t) : e.key # k /\ Lasts(m, e, u)}
        = {m.data[j] : j \in Live(m, u) \ {i}}
    BY <1>4, <1>5 DEF Entries
<1> QED BY <1>6, <1>7, <1>8 DEF n

LEMMA EntriesInsert ==
    ASSUME NEW K, NEW V, NEW c \in Nat, NEW d \in Nat,
           NEW m \in MapType(K, V, c, d), NEW k \in K, NEW v \in V,
           NEW t \in Nat, NEW u \in Nat, u # 0, t <= u,
           Hits(m, k, t) = {}, NEW i \in Free(m, u)
    PROVE  Entries(Insert(m, i, k, v, u), u) =
             {e \in Entries(m, t) : e.key # k /\ Lasts(m, e, u)}
               \cup {[key |-> k, value |-> v, time |-> u]}
<1> DEFINE n == Insert(m, i, k, v, u)
<1>1. IsInsert(m, n, i, k, v, u)
    BY InsertEffect
<1> HIDE DEF n
<1>2. IsMap(m) /\ i \notin Live(m, u)
    BY TypedMap DEF Free
<1>3. /\ Live(m, u) \subseteq Live(m, t) /\ Live(m, t) \subseteq Slots(m)
      /\ \A j \in Live(m, t) : j \in Live(m, u) <=> Lasts(m, m.data[j], u)
    BY <1>2, LiveShrinks, LiveAt, LiveSets, SlotSets
<1>4. \A j \in Live(m, t) : m.data[j].key # k
    BY DEF Hits
<1>5. /\ n.data[i] = [key |-> k, value |-> v, time |-> u]
      /\ \A j \in Live(m, u) : n.data[j] = m.data[j]
      /\ Live(n, u) = Live(m, u) \cup {i}
    BY <1>1, <1>2, <1>3 DEF IsInsert
<1>6. Entries(n, u) = {m.data[j] : j \in Live(m, u)} \cup {n.data[i]}
    BY <1>5 DEF Entries
<1>7. {e \in Entries(m, t) : e.key # k /\ Lasts(m, e, u)}
        = {m.data[j] : j \in Live(m, u)}
    BY <1>3, <1>4 DEF Entries
<1> QED BY <1>5, <1>6, <1>7 DEF n

LEMMA EntriesClear ==
    ASSUME NEW K, NEW V, NEW c \in Nat, NEW d \in Nat,
           NEW m \in MapType(K, V, c, d), NEW k, NEW t \in Nat,
           KeysUnique(m, t), m.size > 0, NEW i \in Hits(m, k, t)
    PROVE  Entries(Clear(m, i), t) = {e \in Entries(m, t) : e.key # k}
<1> DEFINE n == Clear(m, i)
<1>1. i \in Live(m, t) /\ m.data[i].key = k
    BY DEF Hits
<1>2. IsClear(m, n, i, t)
    BY <1>1, ClearEffect
<1> HIDE DEF n
<1>3. Live(m, t) \subseteq Slots(m)
    BY TypedMap, LiveSets, SlotSets
<1>4. \A j \in Live(m, t) : m.data[j].key # k <=> j # i
    BY <1>1 DEF KeysUnique
<1>5. /\ Live(n, t) = Live(m, t) \ {i}
      /\ \A j \in Live(n, t) : n.data[j] = m.data[j]
    BY <1>2, <1>3 DEF IsClear
<1>6. Entries(n, t) = {m.data[j] : j \in Live(m, t) \ {i}}
    BY <1>5 DEF Entries
<1>7. {e \in Entries(m, t) : e.key # k} = {m.data[j] : j \in Live(m, t) \ {i}}
    BY <1>4 DEF Entries
<1> QED BY <1>6, <1>7 DEF n

(* The two outcomes of map_set, and that of map_delete, on the entries. *)
Survivors(m, k, t, u) == {e \in Entries(m, t) : e.key # k /\ Lasts(m, e, u)}
Absent(m, k, t) == \A e \in Entries(m, t) : e.key # k

Bound(m, n, k, v, t, u) ==
    /\ Entries(n, u) = Survivors(m, k, t, u)
                         \cup {[key |-> k, value |-> v, time |-> u]}
    /\ map_set_ret(m, k, t, u) = 0
    /\ n.size = IF Absent(m, k, t) THEN m.size + 1 ELSE m.size
    /\ Absent(m, k, t) => m.size # m.max_size

Refused(m, n, k, t, u) ==
    /\ n = m /\ Absent(m, k, t) /\ m.size = m.max_size
    /\ Entries(n, u) = Survivors(m, k, t, u)
    /\ map_set_ret(m, k, t, u) = -1

LEMMA EntriesSet ==
    ASSUME NEW K, NEW V, NEW c \in Nat, NEW d \in Nat,
           NEW m \in MapType(K, V, c, d), NEW k \in K, NEW v \in V,
           NEW t \in Nat, NEW u \in Nat, u # 0, t <= u, Sound(m, t)
    PROVE  \/ Bound(m, map_set(m, k, v, t, u), k, v, t, u)
           \/ Refused(m, map_set(m, k, v, t, u), k, t, u)
<1> DEFINE n == map_set(m, k, v, t, u)
<1>1. IsMap(m) /\ KeysUnique(m, t) /\ Accounted(m)
    BY TypedMap DEF Sound
<1>2. Absent(m, k, t) <=> Hits(m, k, t) = {}
    BY EntriesHit DEF Absent
<1>3. ASSUME NEW i \in Hits(m, k, t), n = Update(m, i, v, u),
             map_set_ret(m, k, t, u) = 0
      PROVE  Bound(m, n, k, v, t, u)
    <2>1. Entries(n, u) = Survivors(m, k, t, u)
                            \cup {[key |-> k, value |-> v, time |-> u]}
        BY <1>1, <1>3, EntriesUpdate DEF Survivors
    <2>2. n.size = m.size
        BY <1>3 DEF Update, MapType
    <2> QED BY <1>2, <1>3, <2>1, <2>2 DEF Bound
<1>4. ASSUME Hits(m, k, t) = {}, m.size # m.max_size, NEW i \in Free(m, u),
             n = Insert(m, i, k, v, u), map_set_ret(m, k, t, u) = 0
      PROVE  Bound(m, n, k, v, t, u)
    <2>1. Entries(n, u) = Survivors(m, k, t, u)
                            \cup {[key |-> k, value |-> v, time |-> u]}
        BY <1>4, EntriesInsert DEF Survivors
    <2>2. n.size = m.size + 1
        BY <1>4 DEF Insert, MapType
    <2> QED BY <1>2, <1>4, <2>1, <2>2 DEF Bound
<1>5. ASSUME Hits(m, k, t) = {}, m.size = m.max_size \/ Free(m, u) = {},
             n = m, map_set_ret(m, k, t, u) = -1
      PROVE  Refused(m, n, k, t, u)
    <2>1. m.size = m.max_size
        <3>1. m.size < m.max_size \/ m.size = m.max_size
            BY <1>1 DEF Accounted, IsMap
        <3> QED BY <1>1, <1>5, <3>1, FreeBelowCapacity
    <2>2. Entries(n, u) = {e \in Entries(m, t) : Lasts(m, e, u)}
        BY <1>1, <1>5, EntriesLater
    <2>3. Absent(m, k, t)
        BY <1>2, <1>5
    <2>4. Entries(n, u) = Survivors(m, k, t, u)
        BY <2>2, <2>3 DEF Survivors, Absent
    <2> QED BY <1>5, <2>1, <2>3, <2>4 DEF Refused
<1>6. \/ \E i \in Hits(m, k, t) :
           n = Update(m, i, v, u) /\ map_set_ret(m, k, t, u) = 0
      \/ /\ Hits(m, k, t) = {} /\ m.size # m.max_size
         /\ \E i \in Free(m, u) :
              n = Insert(m, i, k, v, u) /\ map_set_ret(m, k, t, u) = 0
      \/ /\ Hits(m, k, t) = {} /\ (m.size = m.max_size \/ Free(m, u) = {})
         /\ n = m /\ map_set_ret(m, k, t, u) = -1
    BY <1>1, Searches DEF map_set, map_set_ret
<1> QED BY <1>3, <1>4, <1>5, <1>6

Removed(m, n, k, t) ==
    /\ Entries(n, t) = {e \in Entries(m, t) : e.key # k}
    /\ n.size = IF Absent(m, k, t) THEN m.size ELSE m.size - 1

LEMMA EntriesDelete ==
    ASSUME NEW K, NEW V, NEW c \in Nat, NEW d \in Nat,
           NEW m \in MapType(K, V, c, d), NEW k, NEW t \in Nat, Sound(m, t)
    PROVE  Removed(m, map_delete(m, k, t), k, t)
<1>1. IsMap(m) /\ KeysUnique(m, t) /\ Accounted(m)
    BY TypedMap DEF Sound
<1>2. Absent(m, k, t) <=> Hits(m, k, t) = {}
    BY EntriesHit DEF Absent
<1>3. CASE Hits(m, k, t) = {}
    <2>1. map_delete(m, k, t) = m
        BY <1>3 DEF map_delete
    <2> QED BY <1>2, <1>3, <2>1 DEF Absent, Removed
<1>4. CASE Hits(m, k, t) # {}
    <2>1. PICK i \in Hits(m, k, t) : map_delete(m, k, t) = Clear(m, i)
        BY <1>1, <1>4, DeleteCases
    <2>2. m.size > 0
        BY <1>1, <1>4, LiveCounted DEF Hits
    <2>3. Entries(Clear(m, i), t) = {e \in Entries(m, t) : e.key # k}
        BY <1>1, <2>2, EntriesClear
    <2>4. Clear(m, i).size = m.size - 1
        BY DEF Clear, MapType
    <2> QED BY <1>2, <1>4, <2>1, <2>3, <2>4 DEF Removed
<1> QED BY <1>3, <1>4

(* map_get finds the entry of a key, if there is one. *)
LEMMA GetEntry ==
    ASSUME NEW m, IsMap(m), NEW t \in Nat, KeysUnique(m, t), NEW k
    PROVE  /\ \A e \in Entries(m, t) : e.key = k => map_get(m, k, t) = e.value
           /\ Absent(m, k, t) => map_get(m, k, t) = NULL
<1>1. ASSUME NEW i \in Live(m, t), m.data[i].key = k
      PROVE  map_get(m, k, t) = m.data[i].value
    <2>1. i \in Hits(m, k, t)
        BY <1>1 DEF Hits
    <2>2. First(Hits(m, k, t)) \in Hits(m, k, t)
        BY <2>1, Searches
    <2>3. First(Hits(m, k, t)) = i
        BY <2>1, <2>2 DEF Hits, KeysUnique
    <2> QED BY <2>1, <2>3 DEF map_get
<1>2. ASSUME Absent(m, k, t) PROVE map_get(m, k, t) = NULL
    BY <1>2, EntriesHit DEF Absent, map_get
<1> QED BY <1>1, <1>2 DEF Entries

(* The entries of a map are typed, and not expired. *)
LEMMA EntryType ==
    ASSUME NEW K, NEW V, NEW c \in Nat, NEW d \in Nat,
           NEW m \in MapType(K, V, c, d), NEW t \in Nat, Sound(m, t),
           NEW e \in Entries(m, t)
    PROVE  /\ e \in [key : K, value : V, time : Nat \ {0}]
           /\ e.time <= t /\ (d = 0 \/ e.time + d >= t)
<1>1. PICK i \in Live(m, t) : e = m.data[i]
    BY DEF Entries
<1>2. i \in Occupied(m) /\ i \in 0 .. c - 1 /\ i \in Slots(m)
    BY DEF Live, Occupied, map_entry_valid, Fresh, Slots, MapType
<1>3. e \in [key : K \cup {NULL}, value : V \cup {NULL}, time : Nat]
    BY <1>1, <1>2 DEF MapType
<1>4. e.key # NULL /\ e.value # NULL /\ e.time # 0 /\ e.time <= t
    BY <1>1, <1>2 DEF Sound, Filled, StampedBy, Occupied
<1>5. d = 0 \/ e.time + d >= t
    BY <1>1, <1>2 DEF Live, map_entry_valid, Fresh, MapType
<1> QED BY <1>3, <1>4, <1>5

(* No key has two entries. *)
LEMMA OneEntry ==
    ASSUME NEW m, NEW t, KeysUnique(m, t),
           NEW e \in Entries(m, t), NEW f \in Entries(m, t), e.key = f.key
    PROVE  e = f
    BY DEF Entries, KeysUnique

-----------------------------------------------------------------------------
(* Without a timeout, only live slots are in use. *)
LEMMA NothingExpires ==
    ASSUME NEW m, NEW t, m.timeout = 0
    PROVE  Live(m, t) = Occupied(m)
    BY DEF Live, Occupied, map_entry_valid, Fresh

(* Without a timeout size is exact, and map_set and map_delete keep it so. *)
LEMMA ExactSet ==
    ASSUME NEW K, NEW V, NEW c \in Nat, NEW d \in Nat, d = 0,
           NEW m \in MapType(K, V, c, d), NEW k \in K, NEW v \in V,
           NEW t \in Nat, NEW u \in Nat, u # 0, t <= u,
           m.size = Cardinality(Occupied(m))
    PROVE  map_set(m, k, v, t, u).size = Cardinality(Occupied(map_set(m, k, v, t, u)))
<1> DEFINE n == map_set(m, k, v, t, u)
<1>1. IsMap(m) /\ m.timeout = 0
    BY TypedMap
<1>2. ASSUME NEW i \in Hits(m, k, t), n = Update(m, i, v, u)
      PROVE  n.size = Cardinality(Occupied(n))
    <2>1. IsUpdate(m, Update(m, i, v, u), i, v, t, u)
        BY UpdateEffect DEF Hits
    <2> QED BY <1>2, <2>1 DEF IsUpdate
<1>3. ASSUME NEW i \in Free(m, u), n = Insert(m, i, k, v, u)
      PROVE  n.size = Cardinality(Occupied(n))
    <2>1. IsInsert(m, Insert(m, i, k, v, u), i, k, v, u)
        BY InsertEffect
    <2>2. i \notin Occupied(m)
        BY <1>1, NothingExpires DEF Free
    <2>3. Cardinality(Occupied(m) \cup {i}) = Cardinality(Occupied(m)) + 1
        BY <1>1, <2>2, SlotSets, FS_AddElement
    <2> QED BY <1>3, <2>1, <2>3 DEF IsInsert
<1>4. \/ \E i \in Hits(m, k, t) : n = Update(m, i, v, u)
      \/ \E i \in Free(m, u) : n = Insert(m, i, k, v, u)
      \/ n = m
    BY <1>1, Searches DEF map_set
<1> QED BY <1>2, <1>3, <1>4

LEMMA ExactDelete ==
    ASSUME NEW K, NEW V, NEW c \in Nat, NEW d \in Nat,
           NEW m \in MapType(K, V, c, d), NEW k, NEW t \in Nat, Sound(m, t),
           m.size = Cardinality(Occupied(m))
    PROVE  map_delete(m, k, t).size = Cardinality(Occupied(map_delete(m, k, t)))
<1>1. IsMap(m)
    BY TypedMap
<1>2. ASSUME NEW i \in Hits(m, k, t)
      PROVE  Clear(m, i).size = Cardinality(Occupied(Clear(m, i)))
    <2>1. i \in Live(m, t) /\ i \in Occupied(m)
        BY <1>1, LiveSets DEF Hits
    <2>2. m.size > 0
        BY <1>1, <2>1, LiveCounted DEF Sound
    <2>3. IsClear(m, Clear(m, i), i, t)
        BY <2>1, <2>2, ClearEffect
    <2>4. Cardinality(Occupied(m) \ {i}) = Cardinality(Occupied(m)) - 1
        BY <1>1, <2>1, SlotSets, FS_RemoveElement
    <2> QED BY <2>3, <2>4 DEF IsClear
<1> QED BY <1>1, <1>2, DeleteCases

=============================================================================
