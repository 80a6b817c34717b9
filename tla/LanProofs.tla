----------------------------- MODULE LanProofs -----------------------------
(***************************************************************************)
(* A theorem about hosts that resolve each other's addresses, for every    *)
(* number of hosts, every capacity and timeout of their maps, and any      *)
(* number of requests that cross.                                          *)
(*                                                                         *)
(* As in IpOutProofs, the invariant speaks of the entries a search can     *)
(* find, and what the map operations do to them comes from MapLemmas.      *)
(***************************************************************************)
EXTENDS Lan, MapLemmas

TableNow == ARP_TIMEOUT_SEC + 2
BufNow   == ARP_MIN_INTERVAL + 2

Known(h)  == Entries(arp_table[h], TableNow)
Queue(h)  == Entries(arp_buf[h], BufNow)

(* A frame from g is on its way to h; a request of h for g is.             *)
Coming(h, g) == \E f \in medium : f.from = g /\ f.to = h
Asked(h, g)  == \E f \in medium : f.from = h /\ f.to = g /\ f.asks

(* The entry e of an arp_table is no older than the entry b of an arp_buf.  *)
NoOlder(e, b) == e.time + ARP_MIN_INTERVAL >= b.time + ARP_TIMEOUT_SEC

MapsInv ==
    \A h \in Host :
      /\ arp_table[h] \in MapType(Host, Host, table_size, ARP_TIMEOUT_SEC)
      /\ Sound(arp_table[h], TableNow)
      /\ arp_buf[h] \in MapType(Host, {Packet}, buf_size, ARP_MIN_INTERVAL)
      /\ Sound(arp_buf[h], BufNow)

(* The goal: a frame is under way that will release a waiting packet.      *)
ReleaseInv ==
    \A h \in Host : \A g \in Host \ {h} : \A b \in Queue(h) :
      b.key = g => Coming(h, g) \/ Asked(h, g)

(* It is kept when the request is ignored, since of two hosts whose        *)
(* packets wait for each other both have a frame coming.                   *)
CrossInv ==
    \A h \in Host : \A g \in Host \ {h} : \A b \in Queue(h), c \in Queue(g) :
      b.key = g /\ c.key = h => Coming(h, g)

(* And this is so because the host that asks later has not seen the first  *)
(* request: it would know the address, at least as long as g's packet      *)
(* waits.                                                                  *)
LearntInv ==
    \A h \in Host : \A g \in Host \ {h} : \A b \in Queue(g) :
      b.key = h /\ ~Asked(g, h) =>
        \E e \in Known(h) : e.key = g /\ NoOlder(e, b)

LanIInv ==
    /\ TypeOK /\ MapsInv
    /\ ~spoilt => ReleaseInv /\ CrossInv /\ LearntInv

-----------------------------------------------------------------------------
LEMMA Sizes ==
    /\ table_size \in Nat /\ buf_size \in Nat
    /\ ARP_TIMEOUT_SEC \in Nat \ {0} /\ ARP_MIN_INTERVAL \in Nat \ {0}
    /\ ARP_MIN_INTERVAL <= ARP_TIMEOUT_SEC
    /\ TableNow \in Nat \ {0} /\ BufNow \in Nat \ {0}
    /\ TableNow = ARP_TIMEOUT_SEC + 2 /\ BufNow = ARP_MIN_INTERVAL + 2
    /\ NULL \notin Host /\ NULL # Packet
    BY LanAssumption DEF TableNow, BufNow

(* n is m one second later. *)
Aged(m, n, t) ==
    /\ \A e \in Entries(n, t) :
         \E f \in Entries(m, t) : f.key = e.key /\ f.time = e.time + 1
    /\ \A f \in Entries(m, t) :
         f.time > 2 => \E e \in Entries(n, t) : e.key = f.key /\ f.time = e.time + 1

(* A second passes: the entries that are left are one second older, and    *)
(* only the oldest are not left.                                           *)
LEMMA OlderMap ==
    ASSUME NEW K, NEW V, NEW c \in Nat, NEW d \in Nat \ {0},
           NEW m \in MapType(K, V, c, d), NEW t \in Nat, t = d + 2, Sound(m, t)
    PROVE  /\ Older(m) \in MapType(K, V, c, d) /\ Sound(Older(m), t)
           /\ Aged(m, Older(m), t)
<1> DEFINE n == Older(m)
<1>1. /\ m.timeout = d /\ m.max_size = c /\ m.size \in Nat /\ t \in Nat
      /\ Slots(m) = 0 .. c - 1
      /\ m.data \in [0 .. c - 1 ->
                       [key : K \cup {NULL}, value : V \cup {NULL}, time : Nat]]
    BY DEF MapType, Slots
<1>2. /\ n.timeout = d /\ n.max_size = c /\ n.size = m.size
      /\ DOMAIN n = DOMAIN m
      /\ n.data = [i \in Slots(m) |->
           [m.data[i] EXCEPT !.time = IF @ > 1 THEN @ - 1 ELSE @]]
    BY <1>1 DEF Older, MapType
<1>3. Slots(n) = Slots(m)
    BY <1>1, <1>2 DEF Slots
<1>4. ASSUME NEW i \in Slots(m)
      PROVE  /\ n.data[i] \in [key : K \cup {NULL}, value : V \cup {NULL}, time : Nat]
             /\ n.data[i].key = m.data[i].key /\ n.data[i].value = m.data[i].value
             /\ n.data[i].time = IF m.data[i].time > 1 THEN m.data[i].time - 1
                                 ELSE m.data[i].time
             /\ m.data[i].time \in Nat
    <2>1. m.data[i] \in [key : K \cup {NULL}, value : V \cup {NULL}, time : Nat]
        BY <1>1
    <2>2. n.data[i] = [m.data[i] EXCEPT !.time = IF @ > 1 THEN @ - 1 ELSE @]
        BY <1>2
    <2> QED BY <2>1, <2>2
<1>5. n \in MapType(K, V, c, d)
    <2>1. n.data \in [0 .. c - 1 ->
                       [key : K \cup {NULL}, value : V \cup {NULL}, time : Nat]]
        BY <1>1, <1>2, <1>4
    <2> QED BY <1>1, <1>2, <2>1 DEF Older, MapType
<1> HIDE DEF n
<1>6. \A i \in Slots(m) : i \in Live(n, t) <=> i \in Live(m, t) /\ m.data[i].time > 2
    BY <1>1, <1>2, <1>3, <1>4 DEF Live, map_entry_valid, Fresh
<1>7. Live(n, t) \subseteq Slots(m) /\ Live(m, t) \subseteq Slots(m)
    BY <1>3 DEF Live
<1>8. Occupied(n) = Occupied(m)
    BY <1>3, <1>4 DEF Occupied
<1>9. Sound(n, t)
    <2>1. StampedBy(n, t)
        BY <1>1, <1>3, <1>4 DEF Sound, StampedBy
    <2>2. Filled(n)
        BY <1>4, <1>8 DEF Sound, Filled, Occupied
    <2>3. Accounted(n)
        BY <1>1, <1>2, <1>8 DEF Sound, Accounted
    <2>4. KeysUnique(n, t)
        BY <1>4, <1>6, <1>7 DEF Sound, KeysUnique
    <2> QED BY <2>1, <2>2, <2>3, <2>4 DEF Sound
<1>10. ASSUME NEW e \in Entries(n, t)
       PROVE  \E f \in Entries(m, t) : f.key = e.key /\ f.time = e.time + 1
    <2>1. PICK i \in Live(n, t) : e = n.data[i]
        BY DEF Entries
    <2>2. i \in Slots(m) /\ i \in Live(m, t) /\ m.data[i].time > 2
        BY <1>6, <1>7
    <2>3. m.data[i] \in Entries(m, t)
        BY <2>2 DEF Entries
    <2>4. m.data[i].key = e.key /\ m.data[i].time = e.time + 1
        BY <1>4, <2>1, <2>2
    <2> QED BY <2>3, <2>4
<1>11. ASSUME NEW f \in Entries(m, t), f.time > 2
       PROVE  \E e \in Entries(n, t) : e.key = f.key /\ f.time = e.time + 1
    <2>1. PICK i \in Live(m, t) : f = m.data[i]
        BY DEF Entries
    <2>2. i \in Slots(m) /\ i \in Live(n, t)
        BY <1>6, <1>7, <1>11, <2>1
    <2>3. n.data[i] \in Entries(n, t)
        BY <2>2 DEF Entries
    <2>4. n.data[i].key = f.key /\ f.time = n.data[i].time + 1
        BY <1>4, <1>11, <2>1, <2>2
    <2> QED BY <2>3, <2>4
<1> QED BY <1>5, <1>9, <1>10, <1>11 DEF n, Aged

(* map_get, map_set and map_delete as Lan uses them, on the entries.       *)
LEMMA Gets ==
    ASSUME NEW K, NEW V, NULL \notin V, NEW c \in Nat, NEW d \in Nat,
           NEW m \in MapType(K, V, c, d), NEW t \in Nat, t = d + 2, Sound(m, t), NEW k
    PROVE  get(m, k) # NULL <=> \E e \in Entries(m, t) : e.key = k
<1>1. t \in Nat /\ Now(m) = t /\ IsMap(m) /\ KeysUnique(m, t)
    BY TypedMap DEF Now, Sound
<1>2. \A e \in Entries(m, t) : e.value \in V
    BY <1>1, EntryType
<1>3. \A e \in Entries(m, t) : e.key = k => get(m, k) = e.value
    BY <1>1, GetEntry DEF get
<1>4. Absent(m, k, t) => get(m, k) = NULL
    BY <1>1, GetEntry DEF get
<1> QED BY <1>2, <1>3, <1>4 DEF Absent

LEMMA Sets ==
    ASSUME NEW K, NEW V, NULL \notin K \cup V, NEW c \in Nat, NEW d \in Nat,
           NEW m \in MapType(K, V, c, d), NEW t \in Nat, t = d + 2, Sound(m, t),
           NEW k \in K, NEW v \in V
    PROVE  /\ set(m, k, v) \in MapType(K, V, c, d) /\ Sound(set(m, k, v), t)
           /\ ~fails(m, k) =>
                Entries(set(m, k, v), t) = {e \in Entries(m, t) : e.key # k}
                                             \cup {[key |-> k, value |-> v, time |-> t]}
<1>1. t \in Nat /\ t # 0 /\ t <= t /\ Now(m) = t /\ m.timeout = d
    BY TypedMap DEF Now
<1>2. set(m, k, v) \in MapType(K, V, c, d) /\ Sound(set(m, k, v), t)
    BY <1>1, SoundSet DEF set
<1>3. \A e \in Entries(m, t) : Lasts(m, e, t)
    BY <1>1, EntryType DEF Lasts
<1>4. Survivors(m, k, t, t) = {e \in Entries(m, t) : e.key # k}
    BY <1>3 DEF Survivors
<1>5. \/ Bound(m, set(m, k, v), k, v, t, t)
      \/ Refused(m, set(m, k, v), k, t, t)
    BY <1>1, EntriesSet DEF set
<1>6. ~fails(m, k) => ~Refused(m, set(m, k, v), k, t, t)
    BY <1>1 DEF fails, Refused
<1> QED BY <1>2, <1>4, <1>5, <1>6 DEF Bound

LEMMA Deletes ==
    ASSUME NEW K, NEW V, NEW c \in Nat, NEW d \in Nat,
           NEW m \in MapType(K, V, c, d), NEW t \in Nat, t = d + 2, Sound(m, t), NEW k
    PROVE  /\ map_delete(m, k, Now(m)) \in MapType(K, V, c, d)
           /\ Sound(map_delete(m, k, Now(m)), t)
           /\ Removed(m, map_delete(m, k, Now(m)), k, t)
<1>1. t \in Nat /\ Now(m) = t
    BY TypedMap DEF Now
<1> QED BY <1>1, SoundDelete, EntriesDelete

-----------------------------------------------------------------------------
(* The same of the maps of a host. *)
LEMMA WaitingIs ==
    ASSUME MapsInv, NEW h \in Host, NEW g
    PROVE  Waiting(h, g) <=> \E b \in Queue(h) : b.key = g
    BY Sizes, Gets DEF MapsInv, Waiting, Queue, BufNow

LEMMA ResolvedIs ==
    ASSUME MapsInv, NEW h \in Host, NEW g
    PROVE  get(arp_table[h], g) # NULL <=> \E e \in Known(h) : e.key = g
    BY Sizes, Gets DEF MapsInv, Known, TableNow

LEMMA QueueStamps ==
    ASSUME MapsInv, NEW h \in Host, NEW b \in Queue(h)
    PROVE  b.time \in Nat /\ 2 <= b.time /\ b.time <= BufNow
<1>1. /\ arp_buf[h] \in MapType(Host, {Packet}, buf_size, ARP_MIN_INTERVAL)
      /\ Sound(arp_buf[h], BufNow)
    BY DEF MapsInv
<1>2. /\ b \in [key : Host, value : {Packet}, time : Nat \ {0}]
      /\ b.time <= BufNow
      /\ (ARP_MIN_INTERVAL = 0 \/ b.time + ARP_MIN_INTERVAL >= BufNow)
    BY <1>1, Sizes, EntryType DEF Queue
<1> QED BY <1>2, Sizes DEF BufNow

LEMMA KnownStamps ==
    ASSUME MapsInv, NEW h \in Host, NEW e \in Known(h)
    PROVE  e.time \in Nat
<1>1. /\ arp_table[h] \in MapType(Host, Host, table_size, ARP_TIMEOUT_SEC)
      /\ Sound(arp_table[h], TableNow)
    BY DEF MapsInv
<1>2. e \in [key : Host, value : Host, time : Nat \ {0}]
    BY <1>1, Sizes, EntryType DEF Known
<1> QED BY <1>2

-----------------------------------------------------------------------------
LEMMA InitLan == Init => LanIInv
<1> SUFFICES ASSUME Init PROVE LanIInv
    OBVIOUS
<1>1. /\ arp_table = [h \in Host |-> empty_table] /\ arp_buf = [h \in Host |-> empty_buf]
      /\ medium = UNION {arp_req(h, h) : h \in Host} /\ spoilt = FALSE
    BY DEF Init
<1>2. /\ empty_table \in MapType(Host, Host, table_size, ARP_TIMEOUT_SEC)
      /\ Sound(empty_table, TableNow)
      /\ empty_buf \in MapType(Host, {Packet}, buf_size, ARP_MIN_INTERVAL)
      /\ Sound(empty_buf, BufNow)
    BY Sizes, SoundInit DEF empty_table, empty_buf
<1>3. MapsInv
    BY <1>1, <1>2 DEF MapsInv
<1>4. TypeOK
    <2>1. medium \subseteq Frame
        BY <1>1 DEF arp_req
    <2> QED BY <1>1, <1>2, <2>1 DEF TypeOK
<1>5. Live(empty_buf, BufNow) = {}
    BY Sizes DEF empty_buf, map_init, Live, Slots, map_entry_valid, Fresh
<1>6. \A h \in Host : Queue(h) = {}
    BY <1>1, <1>5 DEF Queue, Entries
<1> QED BY <1>3, <1>4, <1>6 DEF LanIInv, ReleaseInv, CrossInv, LearntInv

(* What each step does to the maps, to their entries and to the medium.    *)
LEMMA OutDoes ==
    ASSUME LanIInv, NEW h \in Host, NEW g \in Host, h # g, arp_out(h, g)
    PROVE  /\ TypeOK' /\ MapsInv'
           /\ ~spoilt' =>
                /\ ~spoilt
                /\ ~ \E e \in Known(h) : e.key = g
                /\ \A x \in Host : Known(x)' = Known(x)
                /\ \A x \in Host : x # h => Queue(x)' = Queue(x)
                /\ \A b \in Queue(h)' : b \in Queue(h) \/ b.key = g
                /\ medium \subseteq medium'
                /\ \E f \in medium' : f.from = h /\ f.to = g /\ f.asks
<1>1. /\ get(arp_table[h], g) = NULL
      /\ arp_buf' = [arp_buf EXCEPT ![h] = set(@, g, Packet)]
      /\ medium' = medium \cup arp_req(h, g)
      /\ spoilt' = (spoilt \/ fails(arp_buf[h], g))
      /\ arp_table' = arp_table
    BY DEF arp_out
<1>2. TypeOK /\ MapsInv
    BY DEF LanIInv
<1>3. /\ arp_buf'[h] = set(arp_buf[h], g, Packet)
      /\ \A x \in Host : x # h => arp_buf'[x] = arp_buf[x]
      /\ DOMAIN arp_buf' = Host
    BY <1>1, <1>2 DEF TypeOK
<1>4. /\ arp_buf'[h] \in MapType(Host, {Packet}, buf_size, ARP_MIN_INTERVAL)
      /\ Sound(arp_buf'[h], BufNow)
      /\ ~fails(arp_buf[h], g) =>
           Entries(arp_buf'[h], BufNow) =
             {e \in Queue(h) : e.key # g}
               \cup {[key |-> g, value |-> Packet, time |-> BufNow]}
    <2>1. /\ arp_buf[h] \in MapType(Host, {Packet}, buf_size, ARP_MIN_INTERVAL)
          /\ Sound(arp_buf[h], BufNow)
        BY <1>2 DEF MapsInv
    <2>2. NULL \notin Host \cup {Packet} /\ Packet \in {Packet}
        BY Sizes
    <2>3. /\ buf_size \in Nat /\ ARP_MIN_INTERVAL \in Nat
          /\ BufNow \in Nat /\ BufNow = ARP_MIN_INTERVAL + 2
        BY Sizes
    <2>4. /\ set(arp_buf[h], g, Packet)
                \in MapType(Host, {Packet}, buf_size, ARP_MIN_INTERVAL)
          /\ Sound(set(arp_buf[h], g, Packet), BufNow)
          /\ ~fails(arp_buf[h], g) =>
               Entries(set(arp_buf[h], g, Packet), BufNow) =
                 {e \in Entries(arp_buf[h], BufNow) : e.key # g}
                   \cup {[key |-> g, value |-> Packet, time |-> BufNow]}
        BY <2>1, <2>2, <2>3, Sets
    <2> QED BY <1>3, <2>4 DEF Queue
<1>5. MapsInv'
    BY <1>1, <1>2, <1>3, <1>4 DEF MapsInv
<1>6. TypeOK'
    <2>1. arp_req(h, g) \subseteq Frame
        BY DEF arp_req
    <2>2. spoilt' \in BOOLEAN
        BY <1>1, <1>2 DEF TypeOK
    <2>3. arp_buf' \in [Host -> MapType(Host, {Packet}, buf_size, ARP_MIN_INTERVAL)]
        BY <1>1, <1>2, <1>4 DEF TypeOK
    <2> QED BY <1>1, <1>2, <2>1, <2>2, <2>3 DEF TypeOK
<1>7. [from |-> h, to |-> g, asks |-> TRUE] \in arp_req(h, g)
    BY DEF arp_req, Frame
<1>8. \E f \in medium' : f.from = h /\ f.to = g /\ f.asks
    BY <1>1, <1>7
<1>9. ~ \E e \in Known(h) : e.key = g
    BY <1>1, <1>2, ResolvedIs
<1>10. \A x \in Host : Known(x)' = Known(x)
    BY <1>1 DEF Known
<1>11. \A x \in Host : x # h => Queue(x)' = Queue(x)
    BY <1>3 DEF Queue
<1>12. ~spoilt' => ~spoilt /\ ~fails(arp_buf[h], g)
    BY <1>1
<1>13. ~spoilt' => \A b \in Queue(h)' : b \in Queue(h) \/ b.key = g
    BY <1>4, <1>12 DEF Queue
<1> QED BY <1>1, <1>5, <1>6, <1>8, <1>9, <1>10, <1>11, <1>12, <1>13

LEMMA InDoes ==
    ASSUME LanIInv, NEW h \in Host, NEW g \in Host, NEW f \in Frame,
           f.from = g, f.to = h, arp_in(f)
    PROVE  /\ TypeOK' /\ MapsInv'
           /\ ~spoilt' =>
                /\ ~spoilt
                /\ \A x \in Host : x # h => Known(x)' = Known(x)
                /\ \A e \in Known(h) : e.key # g => e \in Known(h)'
                /\ \E e \in Known(h)' : e.key = g /\ e.time = TableNow
                /\ \A x \in Host : x # h => Queue(x)' = Queue(x)
                /\ Queue(h)' = {b \in Queue(h) : b.key # g}
                /\ medium \ {f} \subseteq medium'
                /\ f.asks /\ (\A b \in Queue(h) : b.key # g) =>
                     \E r \in medium' : r.from = h /\ r.to = g
<1> DEFINE answers == ~(get(arp_buf[h], g) # NULL) /\ f.asks
<1>1. /\ arp_table' = [arp_table EXCEPT ![h] = set(@, g, g)]
      /\ spoilt' = (spoilt \/ fails(arp_table[h], g))
      /\ arp_buf' = [arp_buf EXCEPT ![h] = map_delete(@, g, Now(@))]
      /\ medium' = (medium \ {f}) \cup (IF answers THEN arp_resp(h, g) ELSE {})
    BY DEF arp_in
<1>2. TypeOK /\ MapsInv
    BY DEF LanIInv
<1>3. /\ arp_table'[h] = set(arp_table[h], g, g)
      /\ \A x \in Host : x # h => arp_table'[x] = arp_table[x]
      /\ arp_buf'[h] = map_delete(arp_buf[h], g, Now(arp_buf[h]))
      /\ \A x \in Host : x # h => arp_buf'[x] = arp_buf[x]
    BY <1>1, <1>2 DEF TypeOK
<1>4. /\ arp_table'[h] \in MapType(Host, Host, table_size, ARP_TIMEOUT_SEC)
      /\ Sound(arp_table'[h], TableNow)
      /\ ~fails(arp_table[h], g) =>
           Entries(arp_table'[h], TableNow) =
             {e \in Known(h) : e.key # g}
               \cup {[key |-> g, value |-> g, time |-> TableNow]}
    BY <1>2, <1>3, Sizes, Sets DEF MapsInv, Known, TableNow
<1>5. /\ arp_buf'[h] \in MapType(Host, {Packet}, buf_size, ARP_MIN_INTERVAL)
      /\ Sound(arp_buf'[h], BufNow)
      /\ Entries(arp_buf'[h], BufNow) = {b \in Queue(h) : b.key # g}
    <2>1. /\ arp_buf[h] \in MapType(Host, {Packet}, buf_size, ARP_MIN_INTERVAL)
          /\ Sound(arp_buf[h], BufNow)
        BY <1>2 DEF MapsInv
    <2>2. /\ buf_size \in Nat /\ ARP_MIN_INTERVAL \in Nat
          /\ BufNow \in Nat /\ BufNow = ARP_MIN_INTERVAL + 2
        BY Sizes
    <2> DEFINE n == map_delete(arp_buf[h], g, Now(arp_buf[h]))
    <2>3. /\ n \in MapType(Host, {Packet}, buf_size, ARP_MIN_INTERVAL)
          /\ Sound(n, BufNow)
          /\ Removed(arp_buf[h], n, g, BufNow)
        BY <2>1, <2>2, Deletes
    <2> QED BY <1>3, <2>3 DEF Queue, Removed
<1>6. MapsInv'
    BY <1>2, <1>3, <1>4, <1>5 DEF MapsInv
<1>7. TypeOK'
    <2>1. g # h
        BY DEF Frame
    <2>2. medium' \subseteq Frame
        <3>1. [from |-> h, to |-> g, asks |-> FALSE] \in Frame
            BY <2>1 DEF Frame
        <3> QED BY <1>1, <1>2, <3>1 DEF TypeOK, arp_resp
    <2>3. spoilt' \in BOOLEAN
        BY <1>1, <1>2 DEF TypeOK
    <2>4. arp_table' \in [Host -> MapType(Host, Host, table_size, ARP_TIMEOUT_SEC)]
        BY <1>1, <1>2, <1>4 DEF TypeOK
    <2>5. arp_buf' \in [Host -> MapType(Host, {Packet}, buf_size, ARP_MIN_INTERVAL)]
        BY <1>1, <1>2, <1>5 DEF TypeOK
    <2> QED BY <2>2, <2>3, <2>4, <2>5 DEF TypeOK
<1>8. ~spoilt' => ~spoilt /\ ~fails(arp_table[h], g)
    BY <1>1
<1>9. \A x \in Host : x # h => Known(x)' = Known(x) /\ Queue(x)' = Queue(x)
    BY <1>3 DEF Known, Queue
<1>10. Queue(h)' = {b \in Queue(h) : b.key # g}
    BY <1>5 DEF Queue
<1>11. ~spoilt' =>
         Known(h)' = {e \in Known(h) : e.key # g}
                       \cup {[key |-> g, value |-> g, time |-> TableNow]}
    BY <1>4, <1>8 DEF Known
<1>12. f.asks /\ (\A b \in Queue(h) : b.key # g) =>
         \E r \in medium' : r.from = h /\ r.to = g
    <2> SUFFICES ASSUME f.asks, \A b \in Queue(h) : b.key # g
                 PROVE  \E r \in medium' : r.from = h /\ r.to = g
        OBVIOUS
    <2>1. ~Waiting(h, g)
        BY <1>2, WaitingIs
    <2>2. answers
        BY <2>1 DEF Waiting
    <2>3. [from |-> h, to |-> g, asks |-> FALSE] \in medium'
        BY <1>1, <2>2 DEF arp_resp
    <2> QED BY <2>3
<1>13. medium \ {f} \subseteq medium'
    BY <1>1
<1>14. ~spoilt' =>
         /\ \A e \in Known(h) : e.key # g => e \in Known(h)'
         /\ \E e \in Known(h)' : e.key = g /\ e.time = TableNow
    <2> SUFFICES ASSUME ~spoilt'
                 PROVE  /\ \A e \in Known(h) : e.key # g => e \in Known(h)'
                        /\ \E e \in Known(h)' : e.key = g /\ e.time = TableNow
        OBVIOUS
    <2>1. [key |-> g, value |-> g, time |-> TableNow] \in Known(h)'
        BY <1>11
    <2>2. \A e \in Known(h) : e.key # g => e \in Known(h)'
        BY <1>11
    <2> QED BY <2>1, <2>2
<1> QED BY <1>6, <1>7, <1>8, <1>9, <1>10, <1>12, <1>13, <1>14

LEMMA TickDoes ==
    ASSUME LanIInv, Tick
    PROVE  /\ TypeOK' /\ MapsInv' /\ medium' = medium /\ spoilt' = spoilt
           /\ \A x \in Host : \A b \in Queue(x)' :
                \E a \in Queue(x) : a.key = b.key /\ a.time = b.time + 1
           /\ \A x \in Host : \A e \in Known(x) :
                e.time > 2 => \E d \in Known(x)' : d.key = e.key /\ e.time = d.time + 1
<1>1. /\ arp_table' = [h \in Host |-> Older(arp_table[h])]
      /\ arp_buf' = [h \in Host |-> Older(arp_buf[h])]
      /\ medium' = medium /\ spoilt' = spoilt
    BY DEF Tick
<1>2. TypeOK /\ MapsInv
    BY DEF LanIInv
<1>3. ASSUME NEW x \in Host
      PROVE  /\ arp_table'[x] \in MapType(Host, Host, table_size, ARP_TIMEOUT_SEC)
             /\ Sound(arp_table'[x], TableNow)
             /\ \A e \in Known(x) :
                  e.time > 2 =>
                    \E d \in Entries(arp_table'[x], TableNow) :
                      d.key = e.key /\ e.time = d.time + 1
    <2>1. arp_table'[x] = Older(arp_table[x])
        BY <1>1
    <2>2. /\ arp_table[x] \in MapType(Host, Host, table_size, ARP_TIMEOUT_SEC)
          /\ Sound(arp_table[x], TableNow)
        BY <1>2 DEF MapsInv
    <2>3. /\ table_size \in Nat /\ ARP_TIMEOUT_SEC \in Nat \ {0}
          /\ TableNow \in Nat /\ TableNow = ARP_TIMEOUT_SEC + 2
        BY Sizes
    <2>4. /\ Older(arp_table[x]) \in MapType(Host, Host, table_size, ARP_TIMEOUT_SEC)
          /\ Sound(Older(arp_table[x]), TableNow)
          /\ Aged(arp_table[x], Older(arp_table[x]), TableNow)
        BY <2>2, <2>3, OlderMap
    <2> QED BY <2>1, <2>4 DEF Known, Aged
<1>4. ASSUME NEW x \in Host
      PROVE  /\ arp_buf'[x] \in MapType(Host, {Packet}, buf_size, ARP_MIN_INTERVAL)
             /\ Sound(arp_buf'[x], BufNow)
             /\ \A b \in Entries(arp_buf'[x], BufNow) :
                  \E a \in Queue(x) : a.key = b.key /\ a.time = b.time + 1
    <2>1. arp_buf'[x] = Older(arp_buf[x])
        BY <1>1
    <2>2. /\ arp_buf[x] \in MapType(Host, {Packet}, buf_size, ARP_MIN_INTERVAL)
          /\ Sound(arp_buf[x], BufNow)
        BY <1>2 DEF MapsInv
    <2>3. /\ buf_size \in Nat /\ ARP_MIN_INTERVAL \in Nat \ {0}
          /\ BufNow \in Nat /\ BufNow = ARP_MIN_INTERVAL + 2
        BY Sizes
    <2>4. /\ Older(arp_buf[x]) \in MapType(Host, {Packet}, buf_size, ARP_MIN_INTERVAL)
          /\ Sound(Older(arp_buf[x]), BufNow)
          /\ Aged(arp_buf[x], Older(arp_buf[x]), BufNow)
        BY <2>2, <2>3, OlderMap
    <2> QED BY <2>1, <2>4 DEF Queue, Aged
<1>5. MapsInv'
    BY <1>3, <1>4 DEF MapsInv
<1>6. TypeOK'
    <2>1. arp_table' \in [Host -> MapType(Host, Host, table_size, ARP_TIMEOUT_SEC)]
        BY <1>1, <1>3
    <2>2. arp_buf' \in [Host -> MapType(Host, {Packet}, buf_size, ARP_MIN_INTERVAL)]
        BY <1>1, <1>4
    <2> QED BY <1>1, <1>2, <2>1, <2>2 DEF TypeOK
<1> QED BY <1>1, <1>3, <1>4, <1>5, <1>6 DEF Known, Queue

-----------------------------------------------------------------------------
(* A host that begins to wait has just asked, and does not know the        *)
(* address: if the other host waits for it too, that host's request is     *)
(* still on its way.                                                       *)
LEMMA OutKeeps ==
    ASSUME LanIInv, NEW h \in Host, NEW g \in Host, h # g, arp_out(h, g)
    PROVE  LanIInv'
<1>1. /\ TypeOK' /\ MapsInv'
      /\ ~spoilt' =>
           /\ ~spoilt
           /\ ~ \E e \in Known(h) : e.key = g
           /\ \A x \in Host : Known(x)' = Known(x)
           /\ \A x \in Host : x # h => Queue(x)' = Queue(x)
           /\ \A b \in Queue(h)' : b \in Queue(h) \/ b.key = g
           /\ medium \subseteq medium'
           /\ \E f \in medium' : f.from = h /\ f.to = g /\ f.asks
    BY OutDoes
<1>2. SUFFICES ASSUME ~spoilt' PROVE ReleaseInv' /\ CrossInv' /\ LearntInv'
    BY <1>1 DEF LanIInv
<1>3. /\ ~ \E e \in Known(h) : e.key = g
      /\ \A x \in Host : Known(x)' = Known(x)
      /\ \A x \in Host : \A b \in Queue(x)' : b \in Queue(x) \/ (x = h /\ b.key = g)
      /\ medium \subseteq medium'
      /\ \E f \in medium' : f.from = h /\ f.to = g /\ f.asks
      /\ ReleaseInv /\ CrossInv /\ LearntInv
    BY <1>1, <1>2 DEF LanIInv
<1>4. /\ \A x, y : (Coming(x, y) => Coming(x, y)') /\ (Asked(x, y) => Asked(x, y)')
      /\ Asked(h, g)' /\ Coming(g, h)'
    BY <1>3 DEF Coming, Asked
<1>5. ReleaseInv'
    <2> SUFFICES ASSUME NEW x \in Host, NEW y \in Host \ {x}, NEW b \in Queue(x)',
                        b.key = y
                 PROVE  Coming(x, y)' \/ Asked(x, y)'
        BY DEF ReleaseInv
    <2>1. CASE b \in Queue(x)
        BY <1>3, <1>4, <2>1 DEF ReleaseInv
    <2>2. CASE x = h /\ b.key = g
        BY <1>4, <2>2
    <2> QED BY <1>3, <2>1, <2>2
<1>6. CrossInv'
    <2> SUFFICES ASSUME NEW x \in Host, NEW y \in Host \ {x},
                        NEW b \in Queue(x)', NEW c \in Queue(y)',
                        b.key = y, c.key = x
                 PROVE  Coming(x, y)'
        BY DEF CrossInv
    <2>1. CASE b \in Queue(x) /\ c \in Queue(y)
        BY <1>3, <1>4, <2>1 DEF CrossInv
    <2>2. CASE x = h /\ b.key = g
        <3>1. y = g /\ c \in Queue(g)
            BY <1>3, <2>2
        <3>2. Asked(g, h)
            BY <1>3, <2>2, <3>1 DEF LearntInv
        <3> QED BY <1>4, <2>2, <3>1, <3>2 DEF Coming, Asked
    <2>3. CASE y = h /\ c.key = g
        BY <1>4, <2>3
    <2> QED BY <1>3, <2>1, <2>2, <2>3
<1>7. LearntInv'
    <2> SUFFICES ASSUME NEW x \in Host, NEW y \in Host \ {x}, NEW b \in Queue(y)',
                        b.key = x, ~Asked(y, x)'
                 PROVE  \E e \in Known(x)' : e.key = y /\ NoOlder(e, b)
        BY DEF LearntInv, NoOlder
    <2>1. b \in Queue(y) /\ ~Asked(y, x)
        BY <1>3, <1>4
    <2> QED BY <1>3, <2>1 DEF LearntInv
<1> QED BY <1>5, <1>6, <1>7

(* A frame that arrives releases the packet that waits for its sender; if  *)
(* it is a request and is ignored, the other frame of CrossInv remains.    *)
LEMMA InKeeps ==
    ASSUME LanIInv, NEW f \in Frame, arp_in(f)
    PROVE  LanIInv'
<1>0. PICK h \in Host, g \in Host : f.from = g /\ f.to = h /\ g # h
    BY DEF Frame
<1>1. /\ TypeOK' /\ MapsInv'
      /\ ~spoilt' =>
           /\ ~spoilt
           /\ \A x \in Host : x # h => Known(x)' = Known(x)
           /\ \A e \in Known(h) : e.key # g => e \in Known(h)'
           /\ \E e \in Known(h)' : e.key = g /\ e.time = TableNow
           /\ \A x \in Host : x # h => Queue(x)' = Queue(x)
           /\ Queue(h)' = {b \in Queue(h) : b.key # g}
           /\ medium \ {f} \subseteq medium'
           /\ f.asks /\ (\A b \in Queue(h) : b.key # g) =>
                \E r \in medium' : r.from = h /\ r.to = g
    BY <1>0, InDoes
<1>2. SUFFICES ASSUME ~spoilt' PROVE ReleaseInv' /\ CrossInv' /\ LearntInv'
    BY <1>1 DEF LanIInv
<1>3. /\ \A x \in Host : x # h => Known(x)' = Known(x)
      /\ \A e \in Known(h) : e.key # g => e \in Known(h)'
      /\ \E e \in Known(h)' : e.key = g /\ e.time = TableNow
      /\ \A x \in Host : \A b \in Queue(x)' :
           b \in Queue(x) /\ ~(x = h /\ b.key = g)
      /\ medium \ {f} \subseteq medium'
      /\ f.asks /\ (\A b \in Queue(h) : b.key # g) => Coming(g, h)'
      /\ ReleaseInv /\ CrossInv /\ LearntInv /\ MapsInv
    BY <1>1, <1>2 DEF LanIInv, Coming
<1>4. /\ \A x, y : Coming(x, y) /\ ~(x = h /\ y = g) => Coming(x, y)'
      /\ \A x, y : Asked(x, y) /\ ~(x = g /\ y = h /\ f.asks) => Asked(x, y)'
    BY <1>0, <1>3 DEF Coming, Asked
<1>5. ReleaseInv'
    <2> SUFFICES ASSUME NEW x \in Host, NEW y \in Host \ {x}, NEW b \in Queue(x)',
                        b.key = y
                 PROVE  Coming(x, y)' \/ Asked(x, y)'
        BY DEF ReleaseInv
    <2>1. b \in Queue(x) /\ ~(x = h /\ y = g)
        BY <1>3
    <2>2. CASE Coming(x, y)
        BY <1>4, <2>1, <2>2
    <2>3. CASE Asked(x, y) /\ ~(x = g /\ y = h /\ f.asks)
        BY <1>4, <2>3
    <2>4. CASE x = g /\ y = h /\ f.asks
        <3>1. CASE \E c \in Queue(h) : c.key = g
            <4>1. Coming(x, y)
                BY <1>3, <2>1, <2>4, <3>1 DEF CrossInv
            <4> QED BY <1>4, <2>1, <4>1
        <3>2. CASE \A c \in Queue(h) : c.key # g
            BY <1>3, <2>4, <3>2
        <3> QED BY <3>1, <3>2
    <2>5. Coming(x, y) \/ Asked(x, y)
        BY <1>3, <2>1 DEF ReleaseInv
    <2> QED BY <2>2, <2>3, <2>4, <2>5
<1>6. CrossInv'
    <2> SUFFICES ASSUME NEW x \in Host, NEW y \in Host \ {x},
                        NEW b \in Queue(x)', NEW c \in Queue(y)',
                        b.key = y, c.key = x
                 PROVE  Coming(x, y)'
        BY DEF CrossInv
    <2>1. b \in Queue(x) /\ c \in Queue(y) /\ ~(x = h /\ y = g)
        BY <1>3
    <2>2. Coming(x, y)
        BY <1>3, <2>1 DEF CrossInv
    <2> QED BY <1>4, <2>1, <2>2
<1>7. LearntInv'
    <2> SUFFICES ASSUME NEW x \in Host, NEW y \in Host \ {x}, NEW b \in Queue(y)',
                        b.key = x, ~Asked(y, x)'
                 PROVE  \E e \in Known(x)' : e.key = y /\ NoOlder(e, b)
        BY DEF LearntInv, NoOlder
    <2>1. b \in Queue(y)
        BY <1>3
    <2>2. CASE x = h /\ y = g
        <3>1. PICK e \in Known(h)' : e.key = g /\ e.time = TableNow
            BY <1>3
        <3>2. b.time \in Nat /\ b.time <= BufNow
            BY <1>3, <2>1, QueueStamps
        <3>3. NoOlder(e, b)
            BY <3>1, <3>2, Sizes DEF NoOlder
        <3> QED BY <2>2, <3>1, <3>3
    <2>3. CASE ~(x = h /\ y = g)
        <3>1. ~Asked(y, x)
            BY <1>4, <2>3
        <3>2. PICK e \in Known(x) : e.key = y /\ NoOlder(e, b)
            BY <1>3, <2>1, <3>1 DEF LearntInv
        <3>3. e \in Known(x)'
            BY <1>3, <2>3, <3>2
        <3> QED BY <3>2, <3>3
    <2> QED BY <2>2, <2>3
<1> QED BY <1>5, <1>6, <1>7

(* A waiting packet expires no later than the address the other host has   *)
(* learnt from its request.                                                *)
LEMMA TickKeeps ==
    ASSUME LanIInv, Tick
    PROVE  LanIInv'
<1>1. /\ TypeOK' /\ MapsInv' /\ medium' = medium /\ spoilt' = spoilt
      /\ \A x \in Host : \A b \in Queue(x)' :
           \E a \in Queue(x) : a.key = b.key /\ a.time = b.time + 1
      /\ \A x \in Host : \A e \in Known(x) :
           e.time > 2 => \E d \in Known(x)' : d.key = e.key /\ e.time = d.time + 1
    BY TickDoes
<1>2. SUFFICES ASSUME ~spoilt' PROVE ReleaseInv' /\ CrossInv' /\ LearntInv'
    BY <1>1 DEF LanIInv
<1>3. ReleaseInv /\ CrossInv /\ LearntInv /\ MapsInv
    BY <1>1, <1>2 DEF LanIInv
<1>4. \A x, y : (Coming(x, y)' <=> Coming(x, y)) /\ (Asked(x, y)' <=> Asked(x, y))
    BY <1>1 DEF Coming, Asked
<1>5. ReleaseInv'
    <2> SUFFICES ASSUME NEW x \in Host, NEW y \in Host \ {x}, NEW b \in Queue(x)',
                        b.key = y
                 PROVE  Coming(x, y)' \/ Asked(x, y)'
        BY DEF ReleaseInv
    <2>1. PICK a \in Queue(x) : a.key = b.key
        BY <1>1
    <2> QED BY <1>3, <1>4, <2>1 DEF ReleaseInv
<1>6. CrossInv'
    <2> SUFFICES ASSUME NEW x \in Host, NEW y \in Host \ {x},
                        NEW b \in Queue(x)', NEW c \in Queue(y)',
                        b.key = y, c.key = x
                 PROVE  Coming(x, y)'
        BY DEF CrossInv
    <2>1. PICK a \in Queue(x) : a.key = b.key
        BY <1>1
    <2>2. PICK d \in Queue(y) : d.key = c.key
        BY <1>1
    <2> QED BY <1>3, <1>4, <2>1, <2>2 DEF CrossInv
<1>7. LearntInv'
    <2> SUFFICES ASSUME NEW x \in Host, NEW y \in Host \ {x}, NEW b \in Queue(y)',
                        b.key = x, ~Asked(y, x)'
                 PROVE  \E e \in Known(x)' : e.key = y /\ NoOlder(e, b)
        BY DEF LearntInv, NoOlder
    <2>1. PICK a \in Queue(y) : a.key = b.key /\ a.time = b.time + 1
        BY <1>1
    <2>2. PICK e \in Known(x) : e.key = y /\ NoOlder(e, a)
        BY <1>3, <1>4, <2>1 DEF LearntInv
    <2>3. b.time \in Nat /\ 2 <= b.time
        <3>1. arp_buf'[y] \in MapType(Host, {Packet}, buf_size, ARP_MIN_INTERVAL)
              /\ Sound(arp_buf'[y], BufNow) /\ b \in Entries(arp_buf'[y], BufNow)
            BY <1>1 DEF MapsInv, Queue
        <3>2. /\ b \in [key : Host, value : {Packet}, time : Nat \ {0}]
              /\ (ARP_MIN_INTERVAL = 0 \/ b.time + ARP_MIN_INTERVAL >= BufNow)
            BY <3>1, Sizes, EntryType
        <3> QED BY <3>2, Sizes
    <2>4. e.time \in Nat
        BY <1>3, KnownStamps
    <2>5. e.time > 2
        BY <2>1, <2>2, <2>3, <2>4, Sizes DEF NoOlder
    <2>6. PICK d \in Known(x)' : d.key = e.key /\ e.time = d.time + 1
        BY <1>1, <2>5
    <2>7. d.time \in Nat
        <3>1. arp_table'[x] \in MapType(Host, Host, table_size, ARP_TIMEOUT_SEC)
              /\ Sound(arp_table'[x], TableNow) /\ d \in Entries(arp_table'[x], TableNow)
            BY <1>1 DEF MapsInv, Known
        <3>2. d \in [key : Host, value : Host, time : Nat \ {0}]
            BY <3>1, Sizes, EntryType
        <3> QED BY <3>2
    <2>8. NoOlder(d, b)
        BY <2>1, <2>2, <2>3, <2>4, <2>6, <2>7, Sizes DEF NoOlder
    <2> QED BY <2>2, <2>6, <2>8
<1> QED BY <1>5, <1>6, <1>7

(* A lost frame or a restart spoils the promise and nothing else.          *)
LEMMA SpoilKeeps ==
    ASSUME LanIInv, \/ \E f \in Frame : Lose(f)
                    \/ \E h \in Host : arp_init(h)
    PROVE  LanIInv'
<1>1. TypeOK /\ MapsInv
    BY DEF LanIInv
<1>2. CASE \E f \in Frame : Lose(f)
    BY <1>1, <1>2 DEF Lose, LanIInv, TypeOK, MapsInv
<1>3. ASSUME NEW h \in Host, arp_init(h)
      PROVE  LanIInv'
    <2>1. /\ empty_table \in MapType(Host, Host, table_size, ARP_TIMEOUT_SEC)
          /\ Sound(empty_table, TableNow)
          /\ empty_buf \in MapType(Host, {Packet}, buf_size, ARP_MIN_INTERVAL)
          /\ Sound(empty_buf, BufNow)
        BY Sizes, SoundInit DEF empty_table, empty_buf
    <2>2. /\ arp_table' = [arp_table EXCEPT ![h] = empty_table]
          /\ arp_buf' = [arp_buf EXCEPT ![h] = empty_buf]
          /\ medium' = medium \cup arp_req(h, h) /\ spoilt' = TRUE
        BY <1>3 DEF arp_init
    <2>3. MapsInv'
        BY <1>1, <2>1, <2>2 DEF MapsInv, TypeOK
    <2>4. TypeOK'
        <3>1. medium' \subseteq Frame
            BY <1>1, <2>2 DEF TypeOK, arp_req
        <3> QED BY <1>1, <2>1, <2>2, <3>1 DEF TypeOK
    <2> QED BY <2>2, <2>3, <2>4 DEF LanIInv
<1> QED BY <1>2, <1>3

LEMMA LanNextKeeps == LanIInv /\ [Next]_vars => LanIInv'
<1> SUFFICES ASSUME LanIInv, [Next]_vars PROVE LanIInv'
    OBVIOUS
<1>1. CASE UNCHANGED vars
    BY <1>1 DEF vars, LanIInv, TypeOK, MapsInv, ReleaseInv, CrossInv, LearntInv,
        Known, Queue, Coming, Asked
<1>2. CASE Next
    BY <1>2, OutKeeps, InKeeps, TickKeeps, SpoilKeeps DEF Next
<1> QED BY <1>1, <1>2

LEMMA LanIInvHolds == Spec => []LanIInv
    BY InitLan, LanNextKeeps, PTL DEF Spec

-----------------------------------------------------------------------------
(* Types of the maps of all hosts and of the medium. *)
THEOREM LanTypeCorrect == Spec => []TypeOK
<1>1. LanIInv => TypeOK
    BY DEF LanIInv
<1> QED BY <1>1, LanIInvHolds, PTL

(* Requests that cross are not lost on each other (arp.c:137): as long as  *)
(* no frame is lost, no host starts again and no map is full, a packet     *)
(* waits only while a frame is under way that will release it.             *)
THEOREM SomethingUnderWayHolds == Spec => []SomethingUnderWay
<1>1. LanIInv => SomethingUnderWay
    <2> SUFFICES ASSUME LanIInv, ~spoilt, NEW h \in Host, NEW g \in Host \ {h},
                        Waiting(h, g)
                 PROVE  \E f \in medium :
                          \/ f.from = g /\ f.to = h
                          \/ f.asks /\ f.from = h /\ f.to = g
        BY DEF SomethingUnderWay
    <2>1. \E b \in Queue(h) : b.key = g
        BY WaitingIs DEF LanIInv
    <2>2. Coming(h, g) \/ Asked(h, g)
        BY <2>1 DEF LanIInv, ReleaseInv
    <2> QED BY <2>2 DEF Coming, Asked
<1> QED BY <1>1, LanIInvHolds, PTL

=============================================================================
