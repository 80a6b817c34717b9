---------------------------- MODULE ExpiringDict ----------------------------
(***************************************************************************)
(* What a map of src/map.c promises its users: a dictionary from keys to   *)
(* values whose entries vanish Timeout seconds after they were written     *)
(* last, and a budget of Quota insertions.  An insertion is charged to the *)
(* budget, and only an explicit removal of an entry that has not vanished  *)
(* is credited: an entry that vanishes takes its charge with it.  There    *)
(* are no slots here and no search.  TimedMap.tla implements this module.  *)
(***************************************************************************)
EXTENDS Integers

CONSTANTS Key, Value, NULL,
          Quota,       \* insertions that may be outstanding
          Timeout,     \* seconds; 0: entries never vanish
          MaxSkew,     \* seconds the clock may advance during one call
          MaxTime      \* bound on the clock

VARIABLES dict,        \* a set of entries [key, value, time], one per key
          charged,     \* insertions outstanding
          now,         \* time(NULL)
          out          \* result of the last call

vars == <<dict, charged, now, out>>

Init ==
    /\ dict = {}
    /\ charged = 0
    /\ now = 1
    /\ out = NULL

Alive(e, t) == Timeout = 0 \/ e.time + Timeout >= t
Present(k)  == \E e \in dict : e.key = k

Others(k, t) == {e \in dict : e.key # k /\ Alive(e, t)}
Instants     == {u \in now .. now + MaxSkew : u <= MaxTime}

(* Whatever k was bound to, from second u on it is bound to v. *)
Bind(k, v, u) ==
    /\ dict' = Others(k, u) \cup {[key |-> k, value |-> v, time |-> u]}
    /\ out' = 0

Set(k, v) ==
    \E u \in Instants :
        /\ now' = u
        /\ \/ Present(k) /\ Bind(k, v, u) /\ UNCHANGED charged
           \/ ~Present(k) /\ charged # Quota /\ Bind(k, v, u)
              /\ charged' = charged + 1
           \/ ~Present(k) /\ charged = Quota
              /\ dict' = Others(k, u) /\ out' = -1 /\ UNCHANGED charged

Get(k) ==
    /\ \/ \E e \in dict : e.key = k /\ out' = e.value
       \/ ~Present(k) /\ out' = NULL
    /\ UNCHANGED <<dict, charged, now>>

Delete(k) ==
    /\ dict' = {e \in dict : e.key # k}
    /\ charged' = IF Present(k) THEN charged - 1 ELSE charged
    /\ out' = NULL
    /\ UNCHANGED now

Tick ==
    /\ now < MaxTime
    /\ now' = now + 1
    /\ dict' = {e \in dict : Alive(e, now + 1)}
    /\ UNCHANGED <<charged, out>>

Next ==
    \/ \E k \in Key : Get(k) \/ Delete(k) \/ \E v \in Value : Set(k, v)
    \/ Tick

Spec == Init /\ [][Next]_vars

=============================================================================
