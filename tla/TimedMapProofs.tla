--------------------------- MODULE TimedMapProofs ---------------------------
(* Theorems about the state machine TimedMap, for every capacity, timeout, *)
(* key set, value set and clock skew.                                      *)
EXTENDS TimedMap, MapLemmas

(* The inductive invariant: the type of the state, and what MapLemmas      *)
(* shows every operation of Map.tla to keep.                               *)
IInv == TypeOK /\ SizeBounds /\ UniqueKeys

LEMMA IInvSound ==
    ASSUME IInv
    PROVE  /\ map \in MapType(Key, Value, max_size, timeout)
           /\ IsMap(map) /\ map.max_size = max_size /\ map.timeout = timeout
           /\ Sound(map, now)
           /\ now \in Nat
    BY TypedMap, ConstAssumption DEF IInv, TypeOK, SizeBounds, UniqueKeys, Sound

LEMMA InitIInv == Init => IInv
<1> SUFFICES ASSUME Init PROVE IInv
    OBVIOUS
<1>1. max_size \in Nat /\ timeout \in Nat /\ now \in Nat
    BY ConstAssumption DEF Init
<1>2. map \in MapType(Key, Value, max_size, timeout) /\ Sound(map, now)
    BY <1>1, SoundInit DEF Init
<1> QED BY <1>2 DEF Init, IInv, TypeOK, SizeBounds, UniqueKeys, Sound

(* What map_get hands out is a value somebody stored. *)
LEMMA GetType ==
    ASSUME IInv, NEW k \in Key
    PROVE  map_get(map, k, now) \in Value \cup {NULL}
<1>1. CASE Hits(map, k, now) = {}
    BY <1>1 DEF map_get
<1>2. CASE Hits(map, k, now) # {}
    <2>1. First(Hits(map, k, now)) \in Hits(map, k, now)
        BY <1>2, IInvSound, Searches
    <2>2. First(Hits(map, k, now)) \in 0 .. max_size - 1
        BY <2>1, IInvSound DEF Hits, Live, Slots
    <2> QED BY <1>2, <2>2, IInvSound DEF map_get, MapType
<1> QED BY <1>1, <1>2

LEMMA GetKeeps ==
    ASSUME IInv, NEW k \in Key, Get(k)
    PROVE  IInv'
<1>1. out' \in Value \cup {NULL}
    BY GetType DEF Get
<1>2. map' = map /\ now' = now
    BY DEF Get
<1> QED BY <1>1, <1>2 DEF IInv, TypeOK, SizeBounds, UniqueKeys

LEMMA SetKeeps ==
    ASSUME IInv, NEW k \in Key, NEW v \in Value, Set(k, v)
    PROVE  IInv'
<1>1. PICK u \in Instants : /\ map' = map_set(map, k, v, now, u)
                            /\ out' = map_set_ret(map, k, now, u)
                            /\ now' = u
    BY DEF Set
<1>2. u \in Nat \ {0} /\ now <= u
    BY ConstAssumption DEF Instants, IInv, TypeOK
<1>3. /\ map' \in MapType(Key, Value, max_size, timeout)
      /\ Sound(map', u)
    BY <1>1, <1>2, IInvSound, SoundSet, ConstAssumption
<1>4. out' \in {0, -1}
    BY <1>1 DEF map_set_ret
<1> QED BY <1>1, <1>2, <1>3, <1>4 DEF IInv, TypeOK, SizeBounds, UniqueKeys, Sound

LEMMA DeleteKeeps ==
    ASSUME IInv, NEW k \in Key, Delete(k)
    PROVE  IInv'
<1>1. /\ map' \in MapType(Key, Value, max_size, timeout)
      /\ Sound(map', now)
    BY IInvSound, SoundDelete, ConstAssumption DEF Delete
<1> QED BY <1>1 DEF Delete, IInv, TypeOK, SizeBounds, UniqueKeys, Sound

LEMMA TickKeeps ==
    ASSUME IInv, Tick
    PROVE  IInv'
<1>1. now + 1 \in Nat \ {0} /\ now <= now + 1
    BY DEF IInv, TypeOK
<1>2. Sound(map, now + 1)
    BY <1>1, IInvSound, SoundLater
<1> QED BY <1>1, <1>2 DEF Tick, IInv, TypeOK, SizeBounds, UniqueKeys, Sound

LEMMA NextKeeps == IInv /\ [Next]_vars => IInv'
<1> SUFFICES ASSUME IInv, [Next]_vars PROVE IInv'
    OBVIOUS
<1>1. ASSUME NEW k \in Key, Get(k) PROVE IInv'
    BY <1>1, GetKeeps
<1>2. ASSUME NEW k \in Key, NEW v \in Value, Set(k, v) PROVE IInv'
    BY <1>2, SetKeeps
<1>3. ASSUME NEW k \in Key, Delete(k) PROVE IInv'
    BY <1>3, DeleteKeeps
<1>4. CASE Tick
    BY <1>4, TickKeeps
<1>5. CASE UNCHANGED vars
    BY <1>5 DEF vars, IInv, TypeOK, SizeBounds, UniqueKeys
<1> QED BY <1>1, <1>2, <1>3, <1>4, <1>5 DEF Next

LEMMA IInvHolds == Spec => []IInv
    BY InitIInv, NextKeeps, PTL DEF Spec

(* Type correctness of the map, the clock and the results. *)
THEOREM TypeCorrect == Spec => []TypeOK
<1>1. IInv => TypeOK
    BY DEF IInv
<1> QED BY <1>1, IInvHolds, PTL

(* size stays between the number of slots in use and the capacity.         *)
THEOREM SizeBoundsHold == Spec => []SizeBounds
<1>1. IInv => SizeBounds
    BY DEF IInv
<1> QED BY <1>1, IInvHolds, PTL

(* The first-match search is never ambiguous. *)
THEOREM UniqueKeysHold == Spec => []UniqueKeys
<1>1. IInv => UniqueKeys
    BY DEF IInv
<1> QED BY <1>1, IInvHolds, PTL

(* The last return -1 of map_set is dead code. *)
THEOREM SlotBelowCapacityHolds == Spec => []SlotBelowCapacity
<1>1. IInv => SlotBelowCapacity
    <2> SUFFICES ASSUME IInv, map.size < max_size PROVE Free(map, now) # {}
        BY DEF SlotBelowCapacity
    <2> QED BY IInvSound, FreeBelowCapacity DEF Sound
<1> QED BY <1>1, IInvHolds, PTL

-----------------------------------------------------------------------------
(* A map that is at its capacity with every entry expired stays so: no     *)
(* call, and no amount of waiting, frees a slot.                           *)
THEOREM ExhaustionIsForeverHolds == Spec => ExhaustionIsForever
<1>1. IInv /\ [Next]_vars => [Exhausted => Exhausted']_vars
    <2> SUFFICES ASSUME IInv, Next, Exhausted PROVE Exhausted'
        BY DEF Exhausted
    <2>1. map.size = map.max_size /\ \A k : Hits(map, k, now) = {}
        BY IInvSound DEF Exhausted, Hits
    <2>2. map' = map
        BY <2>1 DEF Next, Get, Set, Delete, Tick, map_set, map_delete
    <2>3. now' \in Nat /\ now <= now'
        BY IInvSound, ConstAssumption DEF Next, Get, Set, Delete, Tick, Instants
    <2>4. Live(map, now') \subseteq Live(map, now)
        BY <2>3, IInvSound, LiveShrinks
    <2> QED BY <2>2, <2>4 DEF Exhausted
<1> QED BY <1>1, IInvHolds, PTL DEF Spec, ExhaustionIsForever

-----------------------------------------------------------------------------
(* TimedMap implements ExpiringDict: initial states map to initial states, *)
(* and every step to the step of the same name.                            *)
LEMMA RefineInit == Init => Dict!Init
<1> SUFFICES ASSUME Init PROVE Entries(map, now) = {} /\ map.size = 0
    BY DEF Init, Dict!Init
<1>1. Live(map, now) = {}
    BY DEF Init, map_init, Live, Slots, map_entry_valid, Fresh
<1> QED BY <1>1 DEF Entries, Init, map_init

LEMMA AliveLasts ==
    ASSUME IInv, NEW e, NEW u
    PROVE  Lasts(map, e, u) <=> Dict!Alive(e, u)
    BY IInvSound DEF Lasts, Dict!Alive

LEMMA PresentHits ==
    ASSUME NEW k
    PROVE  Dict!Present(k) <=> Hits(map, k, now) # {}
    BY EntriesHit DEF Dict!Present

LEMMA RefineGet ==
    ASSUME IInv, NEW k \in Key, Get(k)
    PROVE  Dict!Get(k)
<1>1. CASE Hits(map, k, now) = {}
    BY <1>1, PresentHits DEF Dict!Get, Get, map_get
<1>2. CASE Hits(map, k, now) # {}
    <2>1. PICK i \in Hits(map, k, now) : out' = map.data[i].value
        BY <1>2, IInvSound, Searches DEF Get, map_get
    <2>2. map.data[i] \in Entries(map, now) /\ map.data[i].key = k
        BY DEF Hits, Entries
    <2> QED BY <2>1, <2>2 DEF Dict!Get, Get
<1> QED BY <1>1, <1>2

LEMMA RefineSet ==
    ASSUME IInv, NEW k \in Key, NEW v \in Value, Set(k, v)
    PROVE  Dict!Set(k, v)
<1>1. PICK u \in Instants : /\ map' = map_set(map, k, v, now, u)
                            /\ out' = map_set_ret(map, k, now, u)
                            /\ now' = u
    BY DEF Set
<1>2. u \in Nat \ {0} /\ now <= u /\ u \in Dict!Instants
    BY ConstAssumption DEF Instants, Dict!Instants, IInv, TypeOK
<1>3. Dict!Others(k, u) = Survivors(map, k, now, u)
    BY AliveLasts DEF Dict!Others, Survivors
<1>4. Absent(map, k, now) <=> ~Dict!Present(k)
    BY DEF Absent, Dict!Present
<1>5. CASE Bound(map, map', k, v, now, u)
    <2>1. Dict!Bind(k, v, u)
        BY <1>1, <1>3, <1>5 DEF Bound, Dict!Bind
    <2> QED BY <1>1, <1>2, <1>4, <1>5, <2>1, IInvSound DEF Bound, Dict!Set
<1>6. CASE Refused(map, map', k, now, u)
    BY <1>1, <1>2, <1>3, <1>4, <1>6, IInvSound DEF Refused, Dict!Set
<1>7. Bound(map, map', k, v, now, u) \/ Refused(map, map', k, now, u)
    BY <1>1, <1>2, IInvSound, EntriesSet, ConstAssumption
<1> QED BY <1>5, <1>6, <1>7

LEMMA RefineDelete ==
    ASSUME IInv, NEW k \in Key, Delete(k)
    PROVE  Dict!Delete(k)
<1>1. Absent(map, k, now) <=> ~Dict!Present(k)
    BY DEF Absent, Dict!Present
<1>2. Removed(map, map_delete(map, k, now), k, now)
    BY IInvSound, EntriesDelete, ConstAssumption
<1> QED BY <1>1, <1>2 DEF Removed, Delete, Dict!Delete

LEMMA RefineTick ==
    ASSUME IInv, Tick
    PROVE  Dict!Tick
<1>1. IsMap(map) /\ now \in Nat /\ now + 1 \in Nat /\ now <= now + 1
    BY IInvSound
<1>2. Entries(map, now + 1) = {e \in Entries(map, now) : Lasts(map, e, now + 1)}
    BY <1>1, EntriesLater
<1> QED BY <1>2, AliveLasts DEF Tick, Dict!Tick

(* Every behaviour of the slots is a behaviour of the expiring dictionary. *)
THEOREM ImplementsDictHolds == Spec => ImplementsDict
<1>1. IInv /\ [Next]_vars => [Dict!Next]_(Dict!vars)
    <2> SUFFICES ASSUME IInv, [Next]_vars
                 PROVE  Dict!Next \/ UNCHANGED Dict!vars
        OBVIOUS
    <2>1. CASE UNCHANGED vars
        BY <2>1 DEF vars, Dict!vars
    <2>2. CASE Next
        BY <2>2, RefineGet, RefineSet, RefineDelete, RefineTick DEF Next, Dict!Next
    <2> QED BY <2>1, <2>2
<1> QED BY <1>1, RefineInit, IInvHolds, PTL DEF Spec, ImplementsDict, Dict!Spec

=============================================================================
