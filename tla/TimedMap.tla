------------------------------ MODULE TimedMap ------------------------------
(***************************************************************************)
(* One map_t of src/map.c and the wall clock, driven by any sequence of    *)
(* the calls its users make: map_get, map_set, map_delete, map_size.       *)
(* The operators are those of Map.tla; this module is the state machine    *)
(* they are checked and proved on.                                         *)
(***************************************************************************)
EXTENDS Map

CONSTANTS Key, Value,
          max_size,    \* capacity, as map_init computed it
          timeout,     \* seconds; 0: entries never expire
          MaxSkew,     \* seconds the clock may advance inside one map_set
          MaxTime      \* bound on the clock

ASSUME ConstAssumption ==
    /\ max_size \in Nat \ {0}
    /\ timeout \in Nat
    /\ MaxSkew \in Nat
    /\ MaxTime \in Nat \ {0}
    /\ NULL \notin Key \cup Value

VARIABLES map,         \* the map_t
          now,         \* what time(NULL) returns; it does not step back
          out          \* result of the last call

vars == <<map, now, out>>

Init ==
    /\ map = map_init(max_size, timeout)
    /\ now = 1
    /\ out = NULL

(* The seconds at which a call that starts now may write its time stamp. *)
Instants == {u \in now .. now + MaxSkew : u <= MaxTime}

Get(k) ==
    /\ out' = map_get(map, k, now)
    /\ UNCHANGED <<map, now>>

Set(k, v) ==
    \E u \in Instants :
        /\ map' = map_set(map, k, v, now, u)
        /\ out' = map_set_ret(map, k, now, u)
        /\ now' = u

Delete(k) ==
    /\ map' = map_delete(map, k, now)
    /\ out' = NULL
    /\ UNCHANGED now

Tick ==
    /\ now < MaxTime
    /\ now' = now + 1
    /\ UNCHANGED <<map, out>>

Next ==
    \/ \E k \in Key : Get(k) \/ Delete(k) \/ \E v \in Value : Set(k, v)
    \/ Tick

Spec == Init /\ [][Next]_vars

-----------------------------------------------------------------------------
(* Type correctness of the map, the clock and the result of the last call. *)
TypeOK ==
    /\ map \in MapType(Key, Value, max_size, timeout)
    /\ now \in Nat \ {0}
    /\ out \in Value \cup {NULL, 0, -1}
    /\ StampedBy(map, now)
    /\ Filled(map)

(* size never falls below the number of entries written and not deleted,   *)
(* and never exceeds the capacity.  This is what makes the last return -1  *)
(* of map_set dead code and keeps size, an unsigned, from wrapping below 0 *)
(* in map_delete, whatever expires between the insertion and the deletion. *)
SizeBounds == Accounted(map)

(* The first-match search of map_get is never ambiguous: no key is live in *)
(* two slots, even after its old entry expired and the key was inserted    *)
(* again into another slot.                                                *)
UniqueKeys == KeysUnique(map, now)

(* A call that passed the size test of map_set always finds a slot.        *)
SlotBelowCapacity == map.size < max_size => Free(map, now) # {}

(* Once size has reached the capacity and every entry has expired, no call *)
(* and no amount of waiting makes the map usable again.                    *)
Exhausted == map.size = max_size /\ Live(map, now) = {}
ExhaustionIsForever == [][Exhausted => Exhausted']_vars

(* The documentation of the field size, map.h:16, and of map_size,         *)
(* map.c:30: the current size of the map.  Read leniently, expired entries *)
(* that still sit in a slot may be counted or not; even so it is false     *)
(* with a timeout, because an entry that takes over the slot of an expired *)
(* one is counted on top of it.                                            *)
SizeIsCurrent ==
    /\ Cardinality(Live(map, now)) <= map_size(map)
    /\ map_size(map) <= Cardinality(Occupied(map))

-----------------------------------------------------------------------------
Dict == INSTANCE ExpiringDict
          WITH dict <- Entries(map, now), charged <- map.size,
               Quota <- max_size, Timeout <- timeout

(* The slots, their reuse and the first-match search implement the         *)
(* expiring dictionary with an insertion budget: every call has the effect *)
(* and the result ExpiringDict gives it.                                   *)
ImplementsDict == Dict!Spec

=============================================================================
