-------------------------------- MODULE Map --------------------------------
(***************************************************************************)
(* The generic key/value container of the stack (src/map.c), as operators  *)
(* on a map record.  The byte array of the code is the function data from  *)
(* slots to entries; an entry with time = 0 is one that memset or          *)
(* map_delete has cleared.  Every operator takes the clock value(s) that   *)
(* the code reads with time(NULL).                                         *)
(*                                                                         *)
(* One scan of the C code reads the clock once per entry; here it reads it *)
(* once.  Under a clock that does not step back a scan over several        *)
(* seconds finds what a scan at its last second finds.  map_set scans      *)
(* twice, and the clock may advance between the two: hence t and u.        *)
(***************************************************************************)
EXTENDS Integers, FiniteSets

CONSTANT NULL      \* the NULL pointer; no key and no value is NULL

First(S) == CHOOSE i \in S : \A j \in S : i <= j

(* The capacity map_init settles on: the one asked for, unless that is 0   *)
(* or does not fit into MAP_MAX_LEN bytes.                                 *)
Capacity(max_size, entry_len, MAP_MAX_LEN) ==
    IF max_size = 0 \/ max_size * entry_len > MAP_MAX_LEN
    THEN MAP_MAX_LEN \div entry_len
    ELSE max_size

map_init(max_size, timeout) ==
    [ max_size |-> max_size,
      timeout  |-> timeout,
      size     |-> 0,
      data     |-> [i \in 0 .. max_size - 1 |->
                      [key |-> NULL, value |-> NULL, time |-> 0]] ]

MapType(K, V, max_size, timeout) ==
    [ max_size : {max_size},
      timeout  : {timeout},
      size     : Nat,
      data     : [0 .. max_size - 1 ->
                    [key : K \cup {NULL}, value : V \cup {NULL}, time : Nat]] ]

map_size(m) == m.size

(* The positions for which map_entry_get returns an entry. *)
Slots(m) == 0 .. m.max_size - 1

(* A variant of Fresh that expires an entry one second early. *)
Fresh_strict(s, timeout, t) == s # 0 /\ (timeout = 0 \/ s + timeout > t)

(* Whether an entry written at second s is still valid at second t. *)
Fresh(s, timeout, t) == s # 0 /\ (timeout = 0 \/ s + timeout >= t)

map_entry_valid(m, i, t) == Fresh(m.data[i].time, m.timeout, t)

(* The slots map_foreach would visit, and the slots written and not yet    *)
(* deleted.                                                                *)
Live(m, t)  == {i \in Slots(m) : map_entry_valid(m, i, t)}
Occupied(m) == {i \in Slots(m) : m.data[i].time # 0}
Hits(m, k, t) == {i \in Live(m, t) : m.data[i].key = k}
Free(m, t)  == Slots(m) \ Live(m, t)

map_get(m, k, t) ==
    IF Hits(m, k, t) = {} THEN NULL ELSE m.data[First(Hits(m, k, t))].value

(* Refreshing a valid entry and filling an invalid one, at second u, and   *)
(* clearing a valid one.  The operators with longer names are variants     *)
(* that forget a part: to store the value, to count, to clear the time     *)
(* stamp, to count down.                                                   *)
Update_stamp_only(m, i, v, u) == [m EXCEPT !.data[i] = [@ EXCEPT !.time = u]]
Update(m, i, v, u) ==
    [m EXCEPT !.data[i] = [key |-> m.data[i].key, value |-> v, time |-> u]]
Insert_uncounted(m, i, k, v, u) ==
    [m EXCEPT !.data[i] = [key |-> k, value |-> v, time |-> u]]
Insert(m, i, k, v, u) ==
    [m EXCEPT !.data[i] = [key |-> k, value |-> v, time |-> u],
              !.size = @ + 1]
Clear_keep_stamp(m, i) == [m EXCEPT !.size = @ - 1]
Clear_keep_size(m, i)  == [m EXCEPT !.data[i] = [@ EXCEPT !.time = 0]]
Clear(m, i) ==
    [m EXCEPT !.data[i] = [@ EXCEPT !.time = 0], !.size = @ - 1]

(* Variants of map_set: without the lookup, without the test of size.      *)
map_set_no_lookup(m, k, v, t, u) ==
    IF m.size = m.max_size \/ Free(m, u) = {} THEN m
    ELSE Insert(m, First(Free(m, u)), k, v, u)
map_set_no_limit(m, k, v, t, u) ==
    IF Hits(m, k, t) # {} THEN Update(m, First(Hits(m, k, t)), v, u)
    ELSE IF Free(m, u) = {} THEN m
    ELSE Insert(m, First(Free(m, u)), k, v, u)

(* map_set: looks the key up at second t, and otherwise takes the first    *)
(* invalid slot at second u.  size counts every insertion, also the one    *)
(* that reuses an expired entry which size already counts.                 *)
map_set(m, k, v, t, u) ==
    IF Hits(m, k, t) # {} THEN Update(m, First(Hits(m, k, t)), v, u)
    ELSE IF m.size = m.max_size \/ Free(m, u) = {} THEN m
    ELSE Insert(m, First(Free(m, u)), k, v, u)

map_set_ret(m, k, t, u) ==
    IF Hits(m, k, t) = {} /\ (m.size = m.max_size \/ Free(m, u) = {})
    THEN -1 ELSE 0

(* A variant of map_delete that counts down whether or not the key is there. *)
map_delete_count_always(m, k, t) ==
    IF Hits(m, k, t) = {} THEN [m EXCEPT !.size = @ - 1]
    ELSE Clear(m, First(Hits(m, k, t)))

map_delete(m, k, t) ==
    IF Hits(m, k, t) = {} THEN m ELSE Clear(m, First(Hits(m, k, t)))

-----------------------------------------------------------------------------
(* What the users of a map rely on.  No slot is stamped after second t.    *)
StampedBy(m, t) == \A i \in Slots(m) : m.data[i].time <= t

(* size counts at least every slot written and not deleted, and no more    *)
(* than there are.                                                         *)
Accounted(m) ==
    /\ Cardinality(Occupied(m)) <= m.size
    /\ m.size <= m.max_size

(* At second t no key is live in two slots. *)
KeysUnique(m, t) ==
    \A i, j \in Live(m, t) : m.data[i].key = m.data[j].key => i = j

(* Every slot in use holds a key and a value. *)
Filled(m) ==
    \A i \in Occupied(m) : m.data[i].key # NULL /\ m.data[i].value # NULL

(* The entries a search can find, without the slots they are in. *)
Entries(m, t) == {m.data[i] : i \in Live(m, t)}

=============================================================================
