---------------------------- MODULE IpOutProofs ----------------------------
(***************************************************************************)
(* Theorems about the sending of IP datagrams.  The first part is about    *)
(* address resolution alone: for every set of addresses, every capacity    *)
(* and timeout of the two maps, and every clock.  Its invariant speaks of  *)
(* the entries a search can find in the two maps, not of the slots they    *)
(* are in; what each map operation does to them is taken from MapLemmas.   *)
(*                                                                         *)
(* The second part is about ip_out, for datagrams and fragments of every   *)
(* length: it uses Arp as Arp may be used, so that all that is proved of   *)
(* Arp holds for it; what it hands over can be put together again; and of  *)
(* a datagram that a request has interrupted, no more goes out than a      *)
(* beginning.                                                              *)
(***************************************************************************)
EXTENDS IpOut, MapLemmas

(* ---- Address resolution ----------------------------------------------- *)


Known   == Entries(arp_table, now)
Waiting == Entries(arp_buf, now)
InArpIn == pc \in {"in_lookup", "in_delete"}

MapsInv == Sound(arp_table, now) /\ Sound(arp_buf, now)

(* arp_out looks at the buffer only for an address it found unresolved,    *)
(* with a packet that never went out.                                      *)
OutInv == pc = "out_buf" => Absent(arp_table, cur.ip, now) /\ sends[handed] = 0

(* Only while arp_in is at work for an address can that address be         *)
(* resolved and have a packet waiting.                                     *)
ApartInv ==
    \A e \in Known, f \in Waiting : e.key = f.key => InArpIn /\ f.key = cur.ip

(* A waiting packet was handed over for that address, and it has not been  *)
(* sent except if arp_in is about to delete it.                            *)
WaitInv ==
    \A f \in Waiting :
      /\ f.value <= handed
      /\ pc = "out_buf" => f.value # handed
      /\ dest[f.value] = f.key
      /\ sends[f.value] = IF pc = "in_delete" /\ f.key = cur.ip THEN 1 ELSE 0

SendInv == \A p \in Packet : sends[p] <= 1 /\ (p > handed => sends[p] = 0)

(* No packet younger than a waiting one for the same address went out.     *)
OrderInv ==
    \A f \in Waiting : \A q \in Packet :
      q > f.value /\ dest[q] = f.key => sends[q] = 0

(* The table holds the last claim of an address or nothing. *)
ClaimInv == \A e \in Known : heard[e.key] = [mac |-> e.value, time |-> e.time]

(* While arp_in is at work its arguments are the last claim; it is younger *)
(* than the waiting packets and the requests, and the table has it unless  *)
(* a map_set failed or it has expired.                                     *)
CallInv ==
    InArpIn =>
      /\ heard[cur.ip].mac = cur.mac
      /\ asked[cur.ip] <= heard[cur.ip].time
      /\ \A f \in Waiting : f.time <= heard[cur.ip].time
      /\ ~refused /\ now <= heard[cur.ip].time + ARP_TIMEOUT_SEC =>
           \E e \in Known : e.key = cur.ip /\ e.time = heard[cur.ip].time

(* For ARP_MIN_INTERVAL after a request either a packet waits or the       *)
(* address is resolved, unless a map_set failed.                           *)
AskInv ==
    \A ip \in Ip :
      /\ asked[ip] <= now
      /\ ~refused /\ asked[ip] # 0 /\ now <= asked[ip] + ARP_MIN_INTERVAL =>
           \E e \in Known \cup Waiting : e.key = ip /\ e.time >= asked[ip]

IInv ==
    /\ TypeOK /\ MapsInv /\ OutInv /\ ApartInv /\ WaitInv
    /\ SendInv /\ OrderInv /\ ClaimInv /\ CallInv /\ AskInv

-----------------------------------------------------------------------------
LEMMA Maps ==
    ASSUME TypeOK, MapsInv
    PROVE  /\ arp_table \in MapType(Ip, Mac, table_size, ARP_TIMEOUT_SEC)
           /\ arp_buf \in MapType(Ip, Packet, buf_size, ARP_MIN_INTERVAL)
           /\ IsMap(arp_table) /\ arp_table.timeout = ARP_TIMEOUT_SEC
           /\ IsMap(arp_buf) /\ arp_buf.timeout = ARP_MIN_INTERVAL
           /\ Sound(arp_table, now) /\ KeysUnique(arp_table, now)
           /\ Sound(arp_buf, now) /\ KeysUnique(arp_buf, now)
           /\ now \in Nat \ {0}
<1>1. /\ arp_table \in MapType(Ip, Mac, table_size, ARP_TIMEOUT_SEC)
      /\ arp_buf \in MapType(Ip, Packet, buf_size, ARP_MIN_INTERVAL)
      /\ now \in Nat \ {0}
    BY DEF TypeOK
<1>2. IsMap(arp_table) /\ arp_table.timeout = ARP_TIMEOUT_SEC
    BY <1>1, TypedMap, ArpAssumption
<1>3. IsMap(arp_buf) /\ arp_buf.timeout = ARP_MIN_INTERVAL
    BY <1>1, TypedMap, ArpAssumption
<1> QED BY <1>1, <1>2, <1>3 DEF MapsInv, Sound

LEMMA KnownType ==
    ASSUME TypeOK, MapsInv, NEW e \in Known
    PROVE  /\ e \in [key : Ip, value : Mac, time : Nat \ {0}]
           /\ e.time <= now /\ now <= e.time + ARP_TIMEOUT_SEC
<1>1. ARP_TIMEOUT_SEC # 0 /\ ARP_TIMEOUT_SEC \in Nat /\ table_size \in Nat
    BY ArpAssumption
<1>2. /\ e \in [key : Ip, value : Mac, time : Nat \ {0}]
      /\ e.time <= now /\ (ARP_TIMEOUT_SEC = 0 \/ e.time + ARP_TIMEOUT_SEC >= now)
    BY <1>1, Maps, EntryType DEF Known
<1> QED BY <1>1, <1>2, Maps

LEMMA WaitingType ==
    ASSUME TypeOK, MapsInv, NEW f \in Waiting
    PROVE  /\ f \in [key : Ip, value : Packet, time : Nat \ {0}]
           /\ f.time <= now /\ now <= f.time + ARP_MIN_INTERVAL
<1>1. ARP_MIN_INTERVAL # 0 /\ ARP_MIN_INTERVAL \in Nat /\ buf_size \in Nat
    BY ArpAssumption
<1>2. /\ f \in [key : Ip, value : Packet, time : Nat \ {0}]
      /\ f.time <= now /\ (ARP_MIN_INTERVAL = 0 \/ f.time + ARP_MIN_INTERVAL >= now)
    BY <1>1, Maps, EntryType DEF Waiting
<1> QED BY <1>1, <1>2, Maps

LEMMA OneWaits ==
    ASSUME TypeOK, MapsInv, NEW f \in Waiting, NEW g \in Waiting, f.key = g.key
    PROVE  f = g
    BY Maps, OneEntry DEF Waiting

(* What map_get returns, in terms of the entries. *)
LEMMA GetKnown ==
    ASSUME TypeOK, MapsInv, NEW ip
    PROVE  /\ map_get(arp_table, ip, now) = NULL <=> Absent(arp_table, ip, now)
           /\ map_get(arp_table, ip, now) # NULL =>
                \E e \in Known : e.key = ip /\ e.value = map_get(arp_table, ip, now)
           /\ \A e \in Known : e.key = ip => map_get(arp_table, ip, now) = e.value
<1>1. /\ \A e \in Known : e.key = ip => map_get(arp_table, ip, now) = e.value
      /\ Absent(arp_table, ip, now) => map_get(arp_table, ip, now) = NULL
    BY Maps, GetEntry DEF Known
<1>2. \A e \in Known : e.value # NULL
    BY KnownType, ArpAssumption
<1> QED BY <1>1, <1>2 DEF Absent, Known

LEMMA GetWaiting ==
    ASSUME TypeOK, MapsInv, NEW ip
    PROVE  /\ map_get(arp_buf, ip, now) = NULL <=> Absent(arp_buf, ip, now)
           /\ map_get(arp_buf, ip, now) # NULL =>
                \E f \in Waiting : f.key = ip /\ f.value = map_get(arp_buf, ip, now)
           /\ \A f \in Waiting : f.key = ip => map_get(arp_buf, ip, now) = f.value
<1>1. /\ \A f \in Waiting : f.key = ip => map_get(arp_buf, ip, now) = f.value
      /\ Absent(arp_buf, ip, now) => map_get(arp_buf, ip, now) = NULL
    BY Maps, GetEntry DEF Waiting
<1>2. \A f \in Waiting : f.value # NULL
    BY WaitingType, ArpAssumption DEF Packet
<1> QED BY <1>1, <1>2 DEF Absent, Waiting

-----------------------------------------------------------------------------
(* What a step does to the entries.  Time that passes takes those away     *)
(* that expire.                                                            *)
LEMMA KnownLater ==
    ASSUME TypeOK, MapsInv, arp_table' = arp_table, now' \in Nat, now <= now'
    PROVE  /\ arp_table' \in MapType(Ip, Mac, table_size, ARP_TIMEOUT_SEC)
           /\ Sound(arp_table', now')
           /\ Known' = {e \in Known : now' <= e.time + ARP_TIMEOUT_SEC}
<1>1. Sound(arp_table, now')
    BY Maps, SoundLater
<1>2. Entries(arp_table, now') = {e \in Known : Lasts(arp_table, e, now')}
    BY Maps, EntriesLater DEF Known
<1>3. \A e \in Known : Lasts(arp_table, e, now') <=> now' <= e.time + ARP_TIMEOUT_SEC
    BY Maps, KnownType, ArpAssumption DEF Lasts
<1> QED BY <1>1, <1>2, <1>3, Maps DEF Known

LEMMA WaitingLater ==
    ASSUME TypeOK, MapsInv, arp_buf' = arp_buf, now' \in Nat, now <= now'
    PROVE  /\ arp_buf' \in MapType(Ip, Packet, buf_size, ARP_MIN_INTERVAL)
           /\ Sound(arp_buf', now')
           /\ Waiting' = {f \in Waiting : now' <= f.time + ARP_MIN_INTERVAL}
<1>1. Sound(arp_buf, now')
    BY Maps, SoundLater
<1>2. Entries(arp_buf, now') = {f \in Waiting : Lasts(arp_buf, f, now')}
    BY Maps, EntriesLater DEF Waiting
<1>3. \A f \in Waiting : Lasts(arp_buf, f, now') <=> now' <= f.time + ARP_MIN_INTERVAL
    BY Maps, WaitingType, ArpAssumption DEF Lasts
<1> QED BY <1>1, <1>2, <1>3, Maps DEF Waiting

LEMMA SameKnown ==
    ASSUME TypeOK, MapsInv, arp_table' = arp_table, now' = now
    PROVE  /\ arp_table' \in MapType(Ip, Mac, table_size, ARP_TIMEOUT_SEC)
           /\ Sound(arp_table', now') /\ Known' = Known
    BY Maps DEF Known

LEMMA SameWaiting ==
    ASSUME TypeOK, MapsInv, arp_buf' = arp_buf, now' = now
    PROVE  /\ arp_buf' \in MapType(Ip, Packet, buf_size, ARP_MIN_INTERVAL)
           /\ Sound(arp_buf', now') /\ Waiting' = Waiting
    BY Maps DEF Waiting

(* A claim is bound in the table, or the table has no room for a new       *)
(* address.                                                                *)
LEMMA Claimed ==
    ASSUME TypeOK, MapsInv, NEW ip \in Ip, NEW mac \in Mac,
           now' \in Nat, now <= now',
           arp_table' = map_set(arp_table, ip, mac, now, now')
    PROVE  /\ arp_table' \in MapType(Ip, Mac, table_size, ARP_TIMEOUT_SEC)
           /\ Sound(arp_table', now')
           /\ \E S :
                /\ S = {e \in Known : e.key # ip /\ now' <= e.time + ARP_TIMEOUT_SEC}
                /\ \/ /\ map_set_ret(arp_table, ip, now, now') = 0
                      /\ Known' = S \cup {[key |-> ip, value |-> mac, time |-> now']}
                   \/ /\ map_set_ret(arp_table, ip, now, now') = -1
                      /\ Known' = S
<1>1. table_size \in Nat /\ ARP_TIMEOUT_SEC \in Nat /\ NULL \notin Ip \cup Mac
    BY ArpAssumption
<1>2. now \in Nat /\ now' # 0
    BY Maps
<1>3. /\ map_set(arp_table, ip, mac, now, now') \in MapType(Ip, Mac, table_size, ARP_TIMEOUT_SEC)
      /\ Sound(map_set(arp_table, ip, mac, now, now'), now')
    BY <1>1, <1>2, Maps, SoundSet
<1>4. \/ Bound(arp_table, arp_table', ip, mac, now, now')
      \/ Refused(arp_table, arp_table', ip, now, now')
    BY <1>1, <1>2, Maps, EntriesSet
<1>5. Survivors(arp_table, ip, now, now')
        = {e \in Known : e.key # ip /\ now' <= e.time + ARP_TIMEOUT_SEC}
    <2>1. \A e \in Known : Lasts(arp_table, e, now') <=> now' <= e.time + ARP_TIMEOUT_SEC
        BY Maps, KnownType, ArpAssumption DEF Lasts
    <2> QED BY <2>1 DEF Survivors, Known
<1> QED BY <1>3, <1>4, <1>5 DEF Bound, Refused, Known

(* A packet for an address without one is stored, or arp_buf has no room.  *)
LEMMA Stored ==
    ASSUME TypeOK, MapsInv, NEW ip \in Ip, NEW p \in Packet,
           Absent(arp_buf, ip, now), now' = now,
           arp_buf' = map_set(arp_buf, ip, p, now, now)
    PROVE  /\ arp_buf' \in MapType(Ip, Packet, buf_size, ARP_MIN_INTERVAL)
           /\ Sound(arp_buf', now')
           /\ \/ /\ map_set_ret(arp_buf, ip, now, now) = 0
                 /\ Waiting' = Waiting \cup {[key |-> ip, value |-> p, time |-> now]}
              \/ /\ map_set_ret(arp_buf, ip, now, now) = -1
                 /\ Waiting' = Waiting
<1>1. buf_size \in Nat /\ ARP_MIN_INTERVAL \in Nat /\ NULL \notin Ip \cup Packet
    BY ArpAssumption DEF Packet
<1>2. now \in Nat /\ now # 0 /\ now <= now
    BY Maps
<1>3. /\ map_set(arp_buf, ip, p, now, now) \in MapType(Ip, Packet, buf_size, ARP_MIN_INTERVAL)
      /\ Sound(map_set(arp_buf, ip, p, now, now), now)
    BY <1>1, <1>2, Maps, SoundSet
<1>4. \/ Bound(arp_buf, arp_buf', ip, p, now, now)
      \/ Refused(arp_buf, arp_buf', ip, now, now)
    BY <1>1, <1>2, Maps, EntriesSet
<1>5. Survivors(arp_buf, ip, now, now) = Waiting
    <2>1. \A f \in Waiting : Lasts(arp_buf, f, now)
        BY Maps, WaitingType, ArpAssumption DEF Lasts
    <2> QED BY <2>1 DEF Survivors, Absent, Waiting
<1> QED BY <1>3, <1>4, <1>5 DEF Bound, Refused, Waiting

LEMMA Deleted ==
    ASSUME TypeOK, MapsInv, NEW ip, now' = now,
           arp_buf' = map_delete(arp_buf, ip, now)
    PROVE  /\ arp_buf' \in MapType(Ip, Packet, buf_size, ARP_MIN_INTERVAL)
           /\ Sound(arp_buf', now')
           /\ Waiting' = {f \in Waiting : f.key # ip}
<1>1. buf_size \in Nat /\ ARP_MIN_INTERVAL \in Nat /\ now \in Nat
    BY ArpAssumption, Maps
<1>2. /\ map_delete(arp_buf, ip, now) \in MapType(Ip, Packet, buf_size, ARP_MIN_INTERVAL)
      /\ Sound(map_delete(arp_buf, ip, now), now)
    BY <1>1, Maps, SoundDelete
<1>3. Removed(arp_buf, map_delete(arp_buf, ip, now), ip, now)
    BY <1>1, Maps, EntriesDelete
<1> QED BY <1>2, <1>3 DEF Removed, Waiting

-----------------------------------------------------------------------------
LEMMA InitIInv == Init => IInv
<1> SUFFICES ASSUME Init PROVE IInv
    OBVIOUS
<1>1. /\ arp_table \in MapType(Ip, Mac, table_size, ARP_TIMEOUT_SEC)
      /\ Sound(arp_table, now)
    BY SoundInit, ArpAssumption DEF Init
<1>2. /\ arp_buf \in MapType(Ip, Packet, buf_size, ARP_MIN_INTERVAL)
      /\ Sound(arp_buf, now)
    BY SoundInit, ArpAssumption DEF Init
<1>3. Known = {} /\ Waiting = {}
    BY DEF Init, Known, Waiting, Entries, Live, map_init, Slots, map_entry_valid, Fresh
<1>4. TypeOK
    <2>1. heard \in [Ip -> [mac : Mac \cup {NULL}, time : Nat]]
        BY DEF Init
    <2>2. asked \in [Ip -> Nat] /\ sends \in [Packet -> Nat] /\ dest \in [Packet -> Ip \cup {NULL}]
        BY DEF Init
    <2>3. now \in Nat \ {0} /\ handed \in 0 .. MaxPackets /\ frame = NULL
        BY ArpAssumption DEF Init
    <2>4. refused \in BOOLEAN
        BY DEF Init
    <2>5. pc = "idle" /\ cur = NoCall
        BY DEF Init
    <2> QED BY <1>1, <1>2, <2>1, <2>2, <2>3, <2>4, <2>5 DEF TypeOK
<1> QED BY <1>1, <1>2, <1>3, <1>4, ArpAssumption
    DEF Init, IInv, MapsInv, OutInv, ApartInv, WaitInv, SendInv, OrderInv,
        ClaimInv, CallInv, AskInv, InArpIn

-----------------------------------------------------------------------------
(* Each step keeps the invariant. *)
LEMMA OutKeeps ==
    ASSUME IInv, NEW ip \in Ip, arp_out(ip)
    PROVE  IInv'
<1> DEFINE p == handed + 1
           mac == map_get(arp_table, ip, now)
<1> USE DEF IInv
<1>1. /\ pc = "idle" /\ ~InArpIn /\ handed \in Nat /\ p \in Packet /\ handed' = p
      /\ dest' = [dest EXCEPT ![p] = ip]
      /\ UNCHANGED <<arp_table, arp_buf, now, heard, asked, refused>>
    BY ArpAssumption DEF arp_out, TypeOK, Packet, InArpIn
<1>2. /\ arp_table' \in MapType(Ip, Mac, table_size, ARP_TIMEOUT_SEC)
      /\ arp_buf' \in MapType(Ip, Packet, buf_size, ARP_MIN_INTERVAL)
      /\ MapsInv' /\ Known' = Known /\ Waiting' = Waiting
    BY <1>1, SameKnown, SameWaiting DEF MapsInv
<1>3. \A f \in Waiting :
        /\ f.value \in Packet /\ f.value <= p /\ f.value # p
        /\ dest[f.value] = f.key /\ sends[f.value] = 0
    BY <1>1, WaitingType DEF WaitInv, Packet
<1>4. dest' \in [Packet -> Ip \cup {NULL}] /\ dest'[p] = ip
      /\ \A q \in Packet : q # p => dest'[q] = dest[q]
    BY <1>1 DEF TypeOK
<1>5. CASE mac # NULL /\ SendData(p, mac) /\ Return
    <2>1. PICK e \in Known : e.key = ip /\ e.value = mac
        BY <1>5, GetKnown
    <2>2. mac \in Mac /\ \A f \in Waiting : f.key # ip
        BY <2>1, <1>1, KnownType DEF ApartInv
    <2>3. /\ sends' = [sends EXCEPT ![p] = 1] /\ sends' \in [Packet -> Nat]
          /\ \A q \in Packet : sends'[q] = IF q = p THEN 1 ELSE sends[q]
          /\ frame' = DataFrame(p, mac)
          /\ pc' = "idle" /\ cur' = NoCall /\ ~InArpIn'
        <3>1. sends[p] = 0
            BY <1>1 DEF SendInv
        <3>2. sends' = [sends EXCEPT ![p] = 1]
            BY <1>5, <3>1 DEF SendData
        <3>3. sends \in [Packet -> Nat]
            BY DEF TypeOK
        <3>4. /\ sends' \in [Packet -> Nat]
              /\ \A q \in Packet : sends'[q] = IF q = p THEN 1 ELSE sends[q]
            BY <1>1, <3>2, <3>3
        <3>5. frame' = DataFrame(p, mac) /\ pc' = "idle" /\ cur' = NoCall
            BY <1>5 DEF SendData, Return
        <3> QED BY <3>2, <3>4, <3>5 DEF InArpIn
    <2>4. TypeOK'
        <3>1. frame' \in Frame
            BY <1>1, <2>2, <2>3 DEF Frame
        <3>2. refused' \in BOOLEAN
            BY <1>1 DEF TypeOK
        <3> QED BY <1>1, <1>2, <1>4, <2>3, <3>1, <3>2 DEF TypeOK, Packet
    <2>5. OutInv' /\ CallInv'
        BY <2>3 DEF OutInv, CallInv
    <2>6. ApartInv'
        BY <1>1, <1>2 DEF ApartInv
    <2>7. WaitInv'
        BY <1>1, <1>2, <1>3, <1>4, <2>3 DEF WaitInv
    <2>8. SendInv'
        BY <1>1, <2>3 DEF SendInv, TypeOK, Packet
    <2>9. OrderInv'
        BY <1>2, <1>4, <2>2, <2>3 DEF OrderInv, TypeOK
    <2>10. ClaimInv' /\ AskInv'
        BY <1>1, <1>2 DEF ClaimInv, AskInv
    <2> QED BY <1>2, <2>4, <2>5, <2>6, <2>7, <2>8, <2>9, <2>10
<1>6. CASE /\ mac = NULL
           /\ pc' = "out_buf"
           /\ cur' = [NoCall EXCEPT !.ip = ip, !.pkt = handed + 1]
           /\ frame' = NULL /\ UNCHANGED sends
    <2>1. cur' = [ip |-> ip, pkt |-> p, mac |-> NULL, asks |-> FALSE]
        BY <1>6 DEF NoCall
    <2>2. cur' # NoCall /\ cur'.ip = ip /\ cur'.pkt = p /\ cur'.asks = FALSE
        BY <2>1, ArpAssumption DEF NoCall
    <2>3. TypeOK'
        <3>1. refused' \in BOOLEAN
            BY <1>1 DEF TypeOK
        <3>2. sends' \in [Packet -> Nat] /\ handed' \in 0 .. MaxPackets /\ handed' # 0
            BY <1>1, <1>6 DEF TypeOK, Packet
        <3>3. cur'.asks \in BOOLEAN
            BY <2>2
        <3> QED BY <1>1, <1>2, <1>4, <1>6, <2>2, <3>1, <3>2, <3>3 DEF TypeOK
    <2>4. Absent(arp_table', ip, now')
        BY <1>1, <1>6, GetKnown
    <2>5. OutInv'
        BY <1>1, <1>6, <2>2, <2>4 DEF OutInv, SendInv, Packet
    <2>6. ApartInv' /\ CallInv'
        BY <1>1, <1>2, <1>6 DEF ApartInv, CallInv, InArpIn
    <2>7. WaitInv'
        BY <1>1, <1>2, <1>3, <1>4, <1>6 DEF WaitInv
    <2>8. SendInv'
        BY <1>1, <1>6 DEF SendInv, Packet
    <2>9. OrderInv'
        BY <1>1, <1>2, <1>4, <1>6 DEF OrderInv, SendInv, Packet
    <2>10. ClaimInv' /\ AskInv'
        BY <1>1, <1>2 DEF ClaimInv, AskInv
    <2> QED BY <1>2, <2>3, <2>5, <2>6, <2>7, <2>8, <2>9, <2>10
<1> QED BY <1>5, <1>6 DEF arp_out

LEMMA OutBufKeeps ==
    ASSUME IInv, arp_out_buf
    PROVE  IInv'
<1> DEFINE ip == cur.ip
           p == cur.pkt
           new == [key |-> ip, value |-> p, time |-> now]
<1> USE DEF IInv
<1>1. /\ pc = "out_buf" /\ ~InArpIn /\ ip \in Ip
      /\ handed \in Nat /\ p = handed /\ p \in Packet /\ dest[p] = ip
      /\ UNCHANGED <<arp_table, now, handed, dest, sends, heard>>
      /\ pc' = "idle" /\ cur' = NoCall /\ ~InArpIn'
    BY ArpAssumption DEF arp_out_buf, TypeOK, Packet, InArpIn, Return
<1>2. Absent(arp_table, ip, now) /\ sends[p] = 0
    BY <1>1 DEF OutInv
<1>3. /\ arp_table' \in MapType(Ip, Mac, table_size, ARP_TIMEOUT_SEC)
      /\ Sound(arp_table', now') /\ Known' = Known
    BY <1>1, SameKnown
<1>4. /\ arp_buf' \in MapType(Ip, Packet, buf_size, ARP_MIN_INTERVAL)
      /\ Sound(arp_buf', now')
      /\ Waiting' \subseteq Waiting \cup {new} /\ Waiting \subseteq Waiting'
      /\ asked' \in [Ip -> Nat]
      /\ frame' \in Frame \cup {NULL}
      /\ \/ asked' = asked /\ refused' = refused
         \/ asked' = [asked EXCEPT ![ip] = now] /\ (refused' \/ new \in Waiting')
      /\ refused' \in BOOLEAN /\ (refused => refused')
    <2>1. CASE frame' = NULL /\ UNCHANGED <<arp_buf, asked, refused>>
        <3>1. refused' \in BOOLEAN /\ (refused => refused')
            BY <2>1 DEF TypeOK
        <3>2. asked' \in [Ip -> Nat]
            BY <2>1 DEF TypeOK
        <3> QED BY <1>1, <2>1, <3>1, <3>2, SameWaiting
    <2>2. CASE /\ map_get(arp_buf, ip, now) = NULL
               /\ arp_buf' = map_set(arp_buf, ip, p, now, now)
               /\ refused' = (refused \/ map_set_ret(arp_buf, ip, now, now) = -1)
               /\ frame' = RequestFrame(ip)
               /\ asked' = [asked EXCEPT ![ip] = now]
        <3>1. Absent(arp_buf, ip, now)
            BY <2>2, GetWaiting
        <3>2. /\ arp_buf' \in MapType(Ip, Packet, buf_size, ARP_MIN_INTERVAL)
              /\ Sound(arp_buf', now')
              /\ \/ /\ map_set_ret(arp_buf, ip, now, now) = 0
                    /\ Waiting' = Waiting \cup {new}
                 \/ /\ map_set_ret(arp_buf, ip, now, now) = -1
                    /\ Waiting' = Waiting
            BY <1>1, <2>2, <3>1, Stored
        <3>3. refused' \in BOOLEAN /\ (refused => refused')
            BY <2>2
        <3>4. asked' \in [Ip -> Nat]
            <4>1. asked \in [Ip -> Nat] /\ now \in Nat
                BY DEF TypeOK
            <4> QED BY <1>1, <2>2, <4>1
        <3>5. frame' \in Frame
            BY <1>1, <2>2 DEF Frame
        <3>6. refused' \/ new \in Waiting'
            BY <2>2, <3>2
        <3> QED BY <2>2, <3>2, <3>3, <3>4, <3>5, <3>6
    <2> QED BY <2>1, <2>2 DEF arp_out_buf
<1>5. TypeOK'
    <2>1. sends' \in [Packet -> Nat] /\ dest' \in [Packet -> Ip \cup {NULL}]
        BY <1>1 DEF TypeOK
    <2>2. heard' \in [Ip -> [mac : Mac \cup {NULL}, time : Nat]]
        BY <1>1 DEF TypeOK
    <2>3. now' \in Nat \ {0} /\ handed' \in 0 .. MaxPackets
        BY <1>1 DEF TypeOK
    <2>4. /\ asked' \in [Ip -> Nat] /\ refused' \in BOOLEAN
          /\ frame' \in Frame \cup {NULL}
          /\ arp_buf' \in MapType(Ip, Packet, buf_size, ARP_MIN_INTERVAL)
        BY <1>4
    <2> QED BY <1>1, <1>3, <2>1, <2>2, <2>3, <2>4 DEF TypeOK
<1>6. MapsInv' /\ OutInv' /\ CallInv'
    BY <1>1, <1>3, <1>4 DEF MapsInv, OutInv, CallInv
<1>7. ApartInv'
    BY <1>1, <1>2, <1>3, <1>4 DEF ApartInv, Absent, Known
<1>8. WaitInv'
    BY <1>1, <1>2, <1>4 DEF WaitInv
<1>9. SendInv'
    BY <1>1 DEF SendInv
<1>10. OrderInv'
    <2> SUFFICES ASSUME NEW f \in Waiting', NEW q \in Packet, q > f.value, dest[q] = f.key
                 PROVE  sends[q] = 0
        BY <1>1 DEF OrderInv
    <2>1. CASE f \in Waiting
        BY <2>1 DEF OrderInv
    <2>2. CASE f = new
        BY <1>1, <2>2 DEF SendInv
    <2> QED BY <1>4, <2>1, <2>2
<1>11. ClaimInv'
    BY <1>1, <1>3 DEF ClaimInv
<1>12. AskInv'
    <2> SUFFICES ASSUME NEW i \in Ip
                 PROVE  /\ asked'[i] <= now
                        /\ ~refused' /\ asked'[i] # 0 /\ now <= asked'[i] + ARP_MIN_INTERVAL =>
                             \E e \in Known \cup Waiting' : e.key = i /\ e.time >= asked'[i]
        BY <1>1, <1>3 DEF AskInv
    <2>1. asked \in [Ip -> Nat] /\ now \in Nat
        BY DEF TypeOK
    <2>2. CASE asked'[i] = asked[i]
        BY <1>4, <2>2 DEF AskInv
    <2>3. CASE i = ip /\ asked'[i] = now /\ (refused' \/ new \in Waiting')
        BY <2>1, <2>3
    <2> QED BY <1>4, <2>1, <2>2, <2>3
<1> QED BY <1>5, <1>6, <1>7, <1>8, <1>9, <1>10, <1>11, <1>12

LEMMA InKeeps ==
    ASSUME IInv, NEW ip \in Ip, NEW mac \in Mac, NEW asks \in BOOLEAN,
           arp_in(ip, mac, asks)
    PROVE  IInv'
<1> DEFINE new == [key |-> ip, value |-> mac, time |-> now']
           kept == {e \in Known : e.key # ip /\ now' <= e.time + ARP_TIMEOUT_SEC}
<1> USE DEF IInv
<1>1. /\ pc = "idle" /\ ~InArpIn /\ pc' = "in_lookup" /\ frame' = NULL
      /\ UNCHANGED <<arp_buf, handed, dest, sends, asked>>
      /\ arp_table' = map_set(arp_table, ip, mac, now, now')
      /\ refused' = (refused \/ map_set_ret(arp_table, ip, now, now') = -1)
      /\ heard' = [heard EXCEPT ![ip] = [mac |-> mac, time |-> now']]
      /\ cur' = [NoCall EXCEPT !.ip = ip, !.mac = mac, !.asks = asks]
    BY DEF arp_in, InArpIn
<1>2. now \in Nat /\ now' \in Nat /\ now <= now'
    BY ArpAssumption DEF arp_in, TypeOK
<1>3. /\ cur' # NoCall /\ cur'.ip = ip /\ cur'.mac = mac /\ cur'.asks = asks
    BY <1>1, ArpAssumption DEF NoCall
<1>4. /\ arp_buf' \in MapType(Ip, Packet, buf_size, ARP_MIN_INTERVAL)
      /\ Sound(arp_buf', now')
      /\ Waiting' = {f \in Waiting : now' <= f.time + ARP_MIN_INTERVAL}
    BY <1>1, <1>2, WaitingLater
<1>5. /\ arp_table' \in MapType(Ip, Mac, table_size, ARP_TIMEOUT_SEC)
      /\ Sound(arp_table', now')
      /\ \/ map_set_ret(arp_table, ip, now, now') = 0 /\ Known' = kept \cup {new}
         \/ map_set_ret(arp_table, ip, now, now') = -1 /\ Known' = kept
    BY <1>1, <1>2, Claimed
<1>6. kept \subseteq Known' /\ Known' \subseteq kept \cup {new}
    BY <1>5
<1>7. ~refused' => ~refused /\ new \in Known'
    BY <1>1, <1>5
<1>8. heard \in [Ip -> [mac : Mac \cup {NULL}, time : Nat]]
    BY DEF TypeOK
<1>9. heard'[ip] = [mac |-> mac, time |-> now'] /\ \A i \in Ip : i # ip => heard'[i] = heard[i]
    BY <1>1, <1>8
<1>10. TypeOK'
    <2>1. refused' \in BOOLEAN
        BY <1>1
    <2>2. heard' \in [Ip -> [mac : Mac \cup {NULL}, time : Nat]]
        BY <1>1, <1>2, <1>8
    <2>3. now' \in Nat \ {0}
        BY <1>2 DEF TypeOK
    <2>4. /\ handed' \in 0 .. MaxPackets /\ dest' \in [Packet -> Ip \cup {NULL}]
          /\ sends' \in [Packet -> Nat] /\ asked' \in [Ip -> Nat]
        BY <1>1 DEF TypeOK
    <2>5. cur'.asks \in BOOLEAN
        BY <1>3
    <2> QED BY <1>1, <1>3, <1>4, <1>5, <2>1, <2>2, <2>3, <2>4, <2>5 DEF TypeOK
<1>11. MapsInv' /\ OutInv'
    BY <1>1, <1>4, <1>5 DEF MapsInv, OutInv
<1>12. ApartInv'
    BY <1>1, <1>3, <1>4, <1>6 DEF ApartInv, InArpIn
<1>13. WaitInv'
    BY <1>1, <1>4 DEF WaitInv
<1>14. SendInv' /\ OrderInv'
    BY <1>1, <1>4 DEF SendInv, OrderInv
<1>15. ClaimInv'
    <2> SUFFICES ASSUME NEW e \in Known'
                 PROVE  heard'[e.key] = [mac |-> e.value, time |-> e.time]
        BY DEF ClaimInv
    <2>1. CASE e \in kept
        <3>1. e \in Known /\ e.key \in Ip /\ e.key # ip
            BY <2>1, KnownType
        <3> QED BY <1>9, <3>1 DEF ClaimInv
    <2>2. CASE e = new
        BY <1>9, <2>2
    <2> QED BY <1>6, <2>1, <2>2
<1>16. CallInv'
    <2>1. asked'[ip] <= now'
        <3>1. asked[ip] <= now /\ asked[ip] \in Nat
            BY DEF AskInv, TypeOK
        <3> QED BY <1>1, <1>2, <3>1
    <2>2. \A f \in Waiting' : f.time <= now'
        BY <1>2, <1>4, WaitingType
    <2> QED BY <1>3, <1>7, <1>9, <2>1, <2>2 DEF CallInv
<1>17. AskInv'
    <2> SUFFICES ASSUME NEW i \in Ip
                 PROVE  /\ asked[i] <= now'
                        /\ ~refused' /\ asked[i] # 0 /\ now' <= asked[i] + ARP_MIN_INTERVAL =>
                             \E e \in Known' \cup Waiting' : e.key = i /\ e.time >= asked[i]
        BY <1>1 DEF AskInv
    <2>1. asked[i] \in Nat /\ asked[i] <= now
        BY DEF AskInv, TypeOK
    <2>2. ASSUME ~refused', asked[i] # 0, now' <= asked[i] + ARP_MIN_INTERVAL
          PROVE  \E e \in Known' \cup Waiting' : e.key = i /\ e.time >= asked[i]
        <3>1. CASE i = ip
            BY <1>2, <1>7, <2>1, <2>2, <3>1
        <3>2. CASE i # ip
            <4>1. now <= asked[i] + ARP_MIN_INTERVAL
                BY <1>2, <2>1, <2>2, ArpAssumption
            <4>2. PICK e \in Known \cup Waiting : e.key = i /\ e.time >= asked[i]
                BY <1>7, <2>2, <4>1 DEF AskInv
            <4>3. CASE e \in Known
                <5>1. e.time \in Nat
                    BY <4>3, KnownType
                <5>2. now' <= e.time + ARP_TIMEOUT_SEC
                    BY <1>2, <2>1, <2>2, <4>2, <5>1, ArpAssumption
                <5> QED BY <1>6, <3>2, <4>2, <4>3, <5>2
            <4>4. CASE e \in Waiting
                <5>1. e.time \in Nat
                    BY <4>4, WaitingType
                <5>2. now' <= e.time + ARP_MIN_INTERVAL
                    BY <1>2, <2>1, <2>2, <4>2, <5>1, ArpAssumption
                <5> QED BY <1>4, <4>2, <4>4, <5>2
            <4> QED BY <4>2, <4>3, <4>4
        <3> QED BY <3>1, <3>2
    <2> QED BY <1>2, <2>1, <2>2
<1> QED BY <1>10, <1>11, <1>12, <1>13, <1>14, <1>15, <1>16, <1>17

LEMMA LookupKeeps ==
    ASSUME IInv, arp_in_lookup
    PROVE  IInv'
<1> DEFINE ip == cur.ip
           p == map_get(arp_buf, ip, now)
<1> USE DEF IInv
<1>1. /\ pc = "in_lookup" /\ InArpIn /\ ip \in Ip /\ cur.mac \in Mac
      /\ UNCHANGED <<arp_table, arp_buf, now, handed, dest, heard, asked, refused>>
    BY DEF arp_in_lookup, TypeOK, InArpIn
<1>2. /\ arp_table' \in MapType(Ip, Mac, table_size, ARP_TIMEOUT_SEC)
      /\ arp_buf' \in MapType(Ip, Packet, buf_size, ARP_MIN_INTERVAL)
      /\ MapsInv' /\ Known' = Known /\ Waiting' = Waiting
    BY <1>1, SameKnown, SameWaiting DEF MapsInv
<1>3. /\ now' \in Nat \ {0} /\ handed' \in 0 .. MaxPackets
      /\ dest' \in [Packet -> Ip \cup {NULL}] /\ asked' \in [Ip -> Nat]
      /\ heard' \in [Ip -> [mac : Mac \cup {NULL}, time : Nat]]
    BY <1>1 DEF TypeOK
<1>4. refused' \in BOOLEAN
    BY <1>1 DEF TypeOK
<1>5. ClaimInv' /\ AskInv'
    BY <1>1, <1>2 DEF ClaimInv, AskInv
<1>6. CASE p # NULL /\ SendData(p, cur.mac) /\ pc' = "in_delete" /\ UNCHANGED cur
    <2>1. PICK f \in Waiting : f.key = ip /\ f.value = p
        BY <1>6, GetWaiting
    <2>2. p \in Packet /\ p <= handed /\ dest[p] = ip /\ sends[p] = 0
        BY <1>1, <2>1, WaitingType DEF WaitInv
    <2>3. sends \in [Packet -> Nat]
        BY DEF TypeOK
    <2>4. /\ sends' \in [Packet -> Nat]
          /\ \A q \in Packet : sends'[q] = IF q = p THEN 1 ELSE sends[q]
        BY <1>6, <2>2, <2>3 DEF SendData
    <2>5. \A g \in Waiting : g.value \in Packet /\ (g.value = p <=> g.key = ip)
        BY <2>1, <2>2, WaitingType, OneWaits DEF WaitInv
    <2>6. frame' \in Frame
        BY <1>1, <1>6, <2>2 DEF SendData, Frame
    <2>7. TypeOK'
        <3>1. cur.asks \in BOOLEAN
            BY <1>1 DEF TypeOK
        <3>2. cur # NoCall
            BY <1>1 DEF TypeOK
        <3> QED BY <1>1, <1>2, <1>3, <1>4, <1>6, <2>4, <2>6, <3>1, <3>2 DEF TypeOK
    <2>8. OutInv' /\ ApartInv' /\ CallInv'
        BY <1>1, <1>2, <1>6 DEF OutInv, ApartInv, CallInv, InArpIn
    <2>9. WaitInv'
        BY <1>1, <1>2, <1>6, <2>4, <2>5 DEF WaitInv
    <2>10. SendInv'
        BY <1>1, <2>2, <2>4 DEF SendInv, Packet, TypeOK
    <2>11. OrderInv'
        BY <1>1, <1>2, <2>2, <2>4, <2>5 DEF OrderInv, Packet
    <2> QED BY <1>2, <1>5, <2>7, <2>8, <2>9, <2>10, <2>11
<1>7. CASE /\ p = NULL
           /\ frame' = IF cur.asks THEN ReplyFrame(ip, cur.mac) ELSE NULL
           /\ Return /\ UNCHANGED sends
    <2>1. \A f \in Waiting : f.key # ip
        BY <1>7, GetWaiting DEF Absent, Waiting
    <2>2. frame' \in Frame \cup {NULL}
        BY <1>1, <1>7 DEF Frame
    <2>3. pc' = "idle" /\ cur' = NoCall /\ ~InArpIn'
        BY <1>7 DEF Return, InArpIn
    <2>4. sends' = sends /\ sends' \in [Packet -> Nat]
        BY <1>7 DEF TypeOK
    <2>5. TypeOK'
        BY <1>2, <1>3, <1>4, <2>2, <2>3, <2>4 DEF TypeOK
    <2>6. OutInv' /\ CallInv' /\ ApartInv'
        BY <1>2, <2>1, <2>3 DEF OutInv, CallInv, ApartInv
    <2>7. WaitInv' /\ SendInv' /\ OrderInv'
        BY <1>1, <1>2, <2>3, <2>4 DEF WaitInv, SendInv, OrderInv
    <2> QED BY <1>2, <1>5, <2>5, <2>6, <2>7
<1> QED BY <1>6, <1>7 DEF arp_in_lookup

LEMMA DeleteKeeps ==
    ASSUME IInv, arp_in_delete
    PROVE  IInv'
<1> DEFINE ip == cur.ip
<1> USE DEF IInv
<1>1. /\ pc = "in_delete" /\ InArpIn /\ ip \in Ip
      /\ pc' = "idle" /\ cur' = NoCall /\ ~InArpIn' /\ frame' = NULL
      /\ arp_buf' = map_delete(arp_buf, ip, now)
      /\ UNCHANGED <<arp_table, now, handed, dest, sends, heard, asked, refused>>
    BY DEF arp_in_delete, TypeOK, InArpIn, Return, history
<1>2. /\ arp_table' \in MapType(Ip, Mac, table_size, ARP_TIMEOUT_SEC)
      /\ Sound(arp_table', now') /\ Known' = Known
    BY <1>1, SameKnown
<1>3. /\ arp_buf' \in MapType(Ip, Packet, buf_size, ARP_MIN_INTERVAL)
      /\ Sound(arp_buf', now')
      /\ Waiting' = {f \in Waiting : f.key # ip}
    BY <1>1, Deleted
<1>4. TypeOK'
    <2>1. /\ now' \in Nat \ {0} /\ handed' \in 0 .. MaxPackets
          /\ dest' \in [Packet -> Ip \cup {NULL}] /\ asked' \in [Ip -> Nat]
          /\ heard' \in [Ip -> [mac : Mac \cup {NULL}, time : Nat]]
        BY <1>1 DEF TypeOK
    <2>2. refused' \in BOOLEAN
        BY <1>1 DEF TypeOK
    <2>3. sends' \in [Packet -> Nat]
        BY <1>1 DEF TypeOK
    <2> QED BY <1>1, <1>2, <1>3, <2>1, <2>2, <2>3 DEF TypeOK
<1>5. MapsInv' /\ OutInv' /\ CallInv'
    BY <1>1, <1>2, <1>3 DEF MapsInv, OutInv, CallInv
<1>6. ApartInv'
    BY <1>1, <1>2, <1>3 DEF ApartInv
<1>7. WaitInv' /\ SendInv' /\ OrderInv' /\ ClaimInv'
    BY <1>1, <1>2, <1>3 DEF WaitInv, SendInv, OrderInv, ClaimInv
<1>8. AskInv'
    <2> SUFFICES ASSUME NEW i \in Ip
                 PROVE  /\ asked[i] <= now
                        /\ ~refused /\ asked[i] # 0 /\ now <= asked[i] + ARP_MIN_INTERVAL =>
                             \E e \in Known \cup Waiting' : e.key = i /\ e.time >= asked[i]
        BY <1>1, <1>2 DEF AskInv
    <2>1. asked[i] \in Nat /\ now \in Nat /\ heard[i].time \in Nat
        BY DEF TypeOK
    <2>2. ASSUME ~refused, asked[i] # 0, now <= asked[i] + ARP_MIN_INTERVAL
          PROVE  \E e \in Known \cup Waiting' : e.key = i /\ e.time >= asked[i]
        <3>1. CASE i = ip
            <4>1. asked[i] <= heard[i].time
                BY <1>1, <3>1 DEF CallInv
            <4>2. now <= heard[i].time + ARP_TIMEOUT_SEC
                BY <2>1, <2>2, <4>1, ArpAssumption
            <4> QED BY <1>1, <2>1, <2>2, <3>1, <4>1, <4>2 DEF CallInv
        <3>2. CASE i # ip
            BY <1>3, <2>2, <3>2 DEF AskInv
        <3> QED BY <3>1, <3>2
    <2> QED BY <2>2 DEF AskInv
<1> QED BY <1>4, <1>5, <1>6, <1>7, <1>8

LEMMA TickKeeps ==
    ASSUME IInv, Tick
    PROVE  IInv'
<1> USE DEF IInv
<1>1. /\ UNCHANGED <<arp_table, arp_buf, pc, cur>>
      /\ UNCHANGED <<handed, dest, sends, heard, asked, refused>>
      /\ frame' = NULL /\ now \in Nat /\ now' \in Nat \ {0} /\ now <= now'
    BY DEF Tick, TypeOK, history
<1>2. /\ arp_table' \in MapType(Ip, Mac, table_size, ARP_TIMEOUT_SEC)
      /\ Sound(arp_table', now')
      /\ Known' = {e \in Known : now' <= e.time + ARP_TIMEOUT_SEC}
    BY <1>1, KnownLater
<1>3. /\ arp_buf' \in MapType(Ip, Packet, buf_size, ARP_MIN_INTERVAL)
      /\ Sound(arp_buf', now')
      /\ Waiting' = {f \in Waiting : now' <= f.time + ARP_MIN_INTERVAL}
    BY <1>1, WaitingLater
<1>4. TypeOK'
    <2>1. /\ handed' \in 0 .. MaxPackets
          /\ dest' \in [Packet -> Ip \cup {NULL}] /\ asked' \in [Ip -> Nat]
          /\ heard' \in [Ip -> [mac : Mac \cup {NULL}, time : Nat]]
        BY <1>1 DEF TypeOK
    <2>2. refused' \in BOOLEAN
        BY <1>1 DEF TypeOK
    <2>3. sends' \in [Packet -> Nat]
        BY <1>1 DEF TypeOK
    <2>4. /\ pc' \in {"idle", "out_buf", "in_lookup", "in_delete"}
          /\ pc' = "idle" <=> cur' = NoCall
          /\ pc' # "idle" => cur'.ip \in Ip /\ cur'.asks \in BOOLEAN
          /\ pc' = "out_buf" => cur'.pkt = handed' /\ handed' # 0 /\ dest'[handed'] = cur'.ip
          /\ pc' \in {"in_lookup", "in_delete"} => cur'.mac \in Mac
        BY <1>1 DEF TypeOK
    <2> QED BY <1>1, <1>2, <1>3, <2>1, <2>2, <2>3, <2>4 DEF TypeOK
<1>5. MapsInv' /\ ApartInv' /\ WaitInv' /\ SendInv' /\ OrderInv' /\ ClaimInv'
    BY <1>1, <1>2, <1>3
    DEF MapsInv, ApartInv, WaitInv, SendInv, OrderInv, ClaimInv, InArpIn
<1>6. OutInv'
    BY <1>1, <1>2 DEF OutInv, Absent, Known
<1>7. CallInv'
    <2> SUFFICES ASSUME InArpIn
                 PROVE  /\ heard[cur.ip].mac = cur.mac
                        /\ asked[cur.ip] <= heard[cur.ip].time
                        /\ \A f \in Waiting' : f.time <= heard[cur.ip].time
                        /\ ~refused /\ now' <= heard[cur.ip].time + ARP_TIMEOUT_SEC =>
                             \E e \in Known' : e.key = cur.ip /\ e.time = heard[cur.ip].time
        BY <1>1 DEF CallInv, InArpIn
    <2>1. cur.ip \in Ip /\ heard[cur.ip].time \in Nat
        BY DEF TypeOK, InArpIn
    <2>2. ASSUME ~refused, now' <= heard[cur.ip].time + ARP_TIMEOUT_SEC
          PROVE  \E e \in Known' : e.key = cur.ip /\ e.time = heard[cur.ip].time
        <3>1. now <= heard[cur.ip].time + ARP_TIMEOUT_SEC
            BY <1>1, <2>1, <2>2, ArpAssumption
        <3> QED BY <1>2, <2>2, <3>1 DEF CallInv
    <2> QED BY <1>3, <2>2 DEF CallInv
<1>8. AskInv'
    <2> SUFFICES ASSUME NEW i \in Ip
                 PROVE  /\ asked[i] <= now'
                        /\ ~refused /\ asked[i] # 0 /\ now' <= asked[i] + ARP_MIN_INTERVAL =>
                             \E e \in Known' \cup Waiting' : e.key = i /\ e.time >= asked[i]
        BY <1>1 DEF AskInv
    <2>1. asked[i] \in Nat /\ asked[i] <= now
        BY DEF AskInv, TypeOK
    <2>2. ASSUME ~refused, asked[i] # 0, now' <= asked[i] + ARP_MIN_INTERVAL
          PROVE  \E e \in Known' \cup Waiting' : e.key = i /\ e.time >= asked[i]
        <3>1. now <= asked[i] + ARP_MIN_INTERVAL
            BY <1>1, <2>1, <2>2, ArpAssumption
        <3>2. PICK e \in Known \cup Waiting : e.key = i /\ e.time >= asked[i]
            BY <2>2, <3>1 DEF AskInv
        <3>3. e.time \in Nat
            BY <3>2, KnownType, WaitingType
        <3>4. now' <= e.time + ARP_MIN_INTERVAL /\ now' <= e.time + ARP_TIMEOUT_SEC
            BY <1>1, <2>1, <2>2, <3>2, <3>3, ArpAssumption
        <3> QED BY <1>2, <1>3, <3>2, <3>4
    <2> QED BY <1>1, <2>1, <2>2
<1> QED BY <1>4, <1>5, <1>6, <1>7, <1>8

LEMMA NextKeeps == IInv /\ [Next]_vars => IInv'
<1> SUFFICES ASSUME IInv, [Next]_vars PROVE IInv'
    OBVIOUS
<1>1. CASE UNCHANGED vars
    BY <1>1 DEF vars, code, history, IInv, TypeOK, MapsInv, OutInv, ApartInv,
        WaitInv, SendInv, OrderInv, ClaimInv, CallInv, AskInv, InArpIn, Known, Waiting
<1>2. CASE Next
    BY <1>2, OutKeeps, OutBufKeeps, InKeeps, LookupKeeps, DeleteKeeps, TickKeeps
    DEF Next
<1> QED BY <1>1, <1>2

LEMMA IInvHolds == Spec => []IInv
    BY InitIInv, NextKeeps, PTL DEF Spec

-----------------------------------------------------------------------------
(* Types of the maps, of the handler in progress and of the history. *)
THEOREM TypeCorrect == Spec => []TypeOK
<1>1. IInv => TypeOK
    BY DEF IInv
<1> QED BY <1>1, IInvHolds, PTL

(* No packet goes out twice, even when its entry expires between the       *)
(* lookup that sends it and the map_delete that should remove it.          *)
THEOREM SentAtMostOnceHolds == Spec => []SentAtMostOnce
<1>1. IInv => SentAtMostOnce
    BY DEF IInv, SendInv, SentAtMostOnce
<1> QED BY <1>1, IInvHolds, PTL

(* Between two calls no packet waits for an address that is resolved. *)
THEOREM NoneWaitsResolvedHolds == Spec => []NoneWaitsResolved
<1>1. IInv => NoneWaitsResolved
    <2> SUFFICES ASSUME IInv, pc = "idle", NEW ip \in Ip,
                        Pending(ip) # NULL, Resolved(ip) # NULL
                 PROVE  FALSE
        BY DEF NoneWaitsResolved
    <2>1. TypeOK /\ MapsInv /\ ApartInv
        BY DEF IInv
    <2>2. PICK f \in Waiting : f.key = ip
        BY <2>1, GetWaiting DEF Pending
    <2>3. PICK e \in Known : e.key = ip
        BY <2>1, GetKnown DEF Resolved
    <2> QED BY <2>1, <2>2, <2>3 DEF ApartInv, InArpIn
<1> QED BY <1>1, IInvHolds, PTL

(* Whoever sends a data frame is arp_out, with the packet in hand, for a   *)
(* resolved address, or arp_in, with the packet that waits for the sender. *)
Direct(p, mac) ==
    /\ pc = "idle" /\ p = handed + 1 /\ p \in Packet
    /\ dest' = [dest EXCEPT ![p] = dest'[p]]
    /\ \E e \in Known : e.key = dest'[p] /\ e.value = mac
    /\ UNCHANGED <<now, heard>>

Released(p, mac) ==
    /\ pc = "in_lookup" /\ mac = cur.mac
    /\ \E f \in Waiting : f.key = cur.ip /\ f.value = p
    /\ UNCHANGED <<now, dest, heard>>

Sends(p, mac) ==
    /\ frame' = DataFrame(p, mac)
    /\ sends' = [sends EXCEPT ![p] = @ + 1]
    /\ Direct(p, mac) \/ Released(p, mac)

SendsNothing == sends' = sends /\ (frame' = NULL \/ frame'.kind # "ip")

LEMMA OutSends ==
    ASSUME IInv, NEW ip \in Ip, arp_out(ip)
    PROVE  SendsNothing \/ \E p \in Packet, mac \in Mac : Sends(p, mac)
<1> DEFINE p == handed + 1
           mac == map_get(arp_table, ip, now)
<1> USE DEF IInv
<1>1. CASE mac # NULL /\ SendData(p, mac)
    <2>1. /\ pc = "idle" /\ p \in Packet /\ dest' = [dest EXCEPT ![p] = ip]
          /\ UNCHANGED <<now, heard>>
        BY ArpAssumption DEF arp_out, TypeOK, Packet
    <2>2. dest'[p] = ip
        BY <2>1 DEF TypeOK
    <2>3. PICK e \in Known : e.key = ip /\ e.value = mac
        BY <1>1, GetKnown
    <2>4. mac \in Mac
        BY <2>3, KnownType
    <2>5. Direct(p, mac)
        BY <2>1, <2>2, <2>3 DEF Direct
    <2>6. Sends(p, mac)
        BY <1>1, <2>5 DEF SendData, Sends
    <2> QED BY <2>1, <2>4, <2>6
<1>2. CASE frame' = NULL /\ UNCHANGED sends
    BY <1>2 DEF SendsNothing
<1> QED BY <1>1, <1>2 DEF arp_out

LEMMA LookupSends ==
    ASSUME IInv, arp_in_lookup
    PROVE  SendsNothing \/ \E p \in Packet, mac \in Mac : Sends(p, mac)
<1> DEFINE p == map_get(arp_buf, cur.ip, now)
<1> USE DEF IInv
<1>1. CASE p # NULL /\ SendData(p, cur.mac)
    <2>1. pc = "in_lookup" /\ cur.mac \in Mac /\ UNCHANGED <<now, dest, heard>>
        BY DEF arp_in_lookup, TypeOK
    <2>2. PICK f \in Waiting : f.key = cur.ip /\ f.value = p
        BY <1>1, GetWaiting
    <2>3. p \in Packet
        BY <2>2, WaitingType
    <2>4. Released(p, cur.mac)
        BY <2>1, <2>2 DEF Released
    <2>5. Sends(p, cur.mac)
        BY <1>1, <2>4 DEF SendData, Sends
    <2> QED BY <2>1, <2>3, <2>5
<1>2. CASE /\ frame' = IF cur.asks THEN ReplyFrame(cur.ip, cur.mac) ELSE NULL
           /\ UNCHANGED sends
    BY <1>2 DEF SendsNothing, ReplyFrame
<1> QED BY <1>1, <1>2 DEF arp_in_lookup

LEMMA NextSends ==
    ASSUME IInv, Next
    PROVE  SendsNothing \/ \E p \in Packet, mac \in Mac : Sends(p, mac)
<1>1. arp_out_buf => SendsNothing
    BY DEF arp_out_buf, RequestFrame, SendsNothing
<1>2. arp_in_delete \/ Tick => SendsNothing
    BY DEF arp_in_delete, Tick, SendsNothing, history
<1>3. \A ip \in Ip, mac \in Mac, asks \in BOOLEAN : arp_in(ip, mac, asks) => SendsNothing
    BY DEF arp_in, SendsNothing
<1> QED BY <1>1, <1>2, <1>3, OutSends, LookupSends DEF Next

(* Packets for one address go out in the order they were handed over. *)
THEOREM InOrderHolds == Spec => InOrder
<1> DEFINE A == \A p \in Packet :
                  sends'[p] > sends[p] =>
                    \A q \in Packet : q > p /\ dest[q] = dest'[p] => sends[q] = 0
<1>1. IInv /\ [Next]_vars => [A]_vars
    <2> SUFFICES ASSUME IInv, Next, NEW p \in Packet, sends'[p] > sends[p],
                        NEW q \in Packet, q > p, dest[q] = dest'[p]
                 PROVE  sends[q] = 0
        OBVIOUS
    <2> USE DEF IInv
    <2>1. sends \in [Packet -> Nat] /\ dest \in [Packet -> Ip \cup {NULL}]
        BY DEF TypeOK
    <2>2. PICK mac \in Mac : Sends(p, mac)
        <3>1. PICK r \in Packet, mac \in Mac : Sends(r, mac)
            BY <2>1, NextSends DEF SendsNothing
        <3>2. r = p
            BY <2>1, <3>1 DEF Sends
        <3> QED BY <3>1, <3>2
    <2>3. CASE Direct(p, mac)
        BY <2>3 DEF Direct, SendInv, Packet, TypeOK
    <2>4. CASE Released(p, mac)
        <3>1. PICK f \in Waiting : f.key = cur.ip /\ f.value = p
            BY <2>4 DEF Released
        <3>2. dest[q] = f.key
            BY <2>4, <3>1 DEF Released, WaitInv
        <3> QED BY <3>1, <3>2 DEF OrderInv
    <2> QED BY <2>2, <2>3, <2>4 DEF Sends
<1> QED BY <1>1, IInvHolds, PTL DEF Spec, InOrder

(* Every data frame is addressed to the MAC that claimed the destination   *)
(* last, no longer than ARP_TIMEOUT_SEC ago.                               *)
THEOREM LastClaimWinsHolds == Spec => LastClaimWins
<1> DEFINE A == frame' # NULL /\ frame'.kind = "ip" =>
                  LET claim == heard'[dest'[frame'.pkt]]
                  IN  /\ frame'.mac = claim.mac
                      /\ claim.time + ARP_TIMEOUT_SEC >= now
<1>1. IInv /\ [Next]_vars => [A]_vars
    <2> SUFFICES ASSUME IInv, Next, frame' # NULL, frame'.kind = "ip"
                 PROVE  /\ frame'.mac = heard'[dest'[frame'.pkt]].mac
                        /\ heard'[dest'[frame'.pkt]].time + ARP_TIMEOUT_SEC >= now
        OBVIOUS
    <2> USE DEF IInv
    <2>1. PICK p \in Packet, mac \in Mac : Sends(p, mac)
        BY NextSends DEF SendsNothing
    <2>2. frame'.pkt = p /\ frame'.mac = mac
        BY <2>1 DEF Sends, DataFrame
    <2>3. CASE Direct(p, mac)
        <3>1. PICK e \in Known : e.key = dest'[p] /\ e.value = mac
            BY <2>3 DEF Direct
        <3>2. heard'[dest'[p]] = [mac |-> e.value, time |-> e.time]
            BY <2>3, <3>1 DEF Direct, ClaimInv
        <3>3. e.time \in Nat /\ now <= e.time + ARP_TIMEOUT_SEC
            BY KnownType
        <3>4. now \in Nat /\ ARP_TIMEOUT_SEC \in Nat
            BY ArpAssumption DEF TypeOK
        <3> QED BY <2>2, <3>1, <3>2, <3>3, <3>4
    <2>4. CASE Released(p, mac)
        <3>1. PICK f \in Waiting : f.key = cur.ip /\ f.value = p
            BY <2>4 DEF Released
        <3>2. dest'[p] = cur.ip /\ heard' = heard /\ InArpIn /\ cur.ip \in Ip
            BY <2>4, <3>1 DEF Released, WaitInv, InArpIn, TypeOK
        <3>3. heard[cur.ip].mac = cur.mac /\ f.time <= heard[cur.ip].time
            BY <3>1, <3>2 DEF CallInv
        <3>4. f.time \in Nat /\ now <= f.time + ARP_MIN_INTERVAL
            BY WaitingType
        <3>5. heard[cur.ip].time \in Nat /\ now \in Nat
            BY <3>2 DEF TypeOK
        <3>6. now <= heard[cur.ip].time + ARP_TIMEOUT_SEC
            BY <3>3, <3>4, <3>5, ArpAssumption
        <3> QED BY <2>2, <2>4, <3>2, <3>3, <3>5, <3>6, ArpAssumption DEF Released
    <2> QED BY <2>1, <2>3, <2>4 DEF Sends
<1> QED BY <1>1, IInvHolds, PTL DEF Spec, LastClaimWins

(* Requests for one address are spaced as long as no map_set has failed. *)
THEOREM RequestsSpacedHolds == Spec => RequestsSpaced
<1> DEFINE A == frame' # NULL /\ frame'.kind = "request" /\ ~refused' =>
                  \/ asked[frame'.ip] = 0
                  \/ now - asked[frame'.ip] > ARP_MIN_INTERVAL
<1>1. IInv /\ [Next]_vars => [A]_vars
    <2> SUFFICES ASSUME IInv, Next, frame' # NULL, frame'.kind = "request", ~refused',
                        asked[frame'.ip] # 0
                 PROVE  now - asked[frame'.ip] > ARP_MIN_INTERVAL
        OBVIOUS
    <2> USE DEF IInv
    <2>1. arp_out_buf
        <3>1. \A ip \in Ip : ~arp_out(ip)
            BY DEF arp_out, SendData, DataFrame
        <3>2. \A ip \in Ip, mac \in Mac, asks \in BOOLEAN : ~arp_in(ip, mac, asks)
            BY DEF arp_in
        <3>3. ~arp_in_lookup
            BY DEF arp_in_lookup, SendData, DataFrame, ReplyFrame
        <3>4. ~arp_in_delete /\ ~Tick
            BY DEF arp_in_delete, Tick
        <3> QED BY <3>1, <3>2, <3>3, <3>4 DEF Next
    <2>2. /\ pc = "out_buf" /\ frame' = RequestFrame(cur.ip) /\ ~refused
          /\ map_get(arp_buf, cur.ip, now) = NULL
        BY <2>1 DEF arp_out_buf
    <2>3. frame'.ip = cur.ip /\ cur.ip \in Ip /\ now \in Nat /\ asked[cur.ip] \in Nat
        BY <2>2 DEF RequestFrame, TypeOK
    <2>4. \A e \in Known \cup Waiting : e.key # cur.ip
        BY <2>2, GetWaiting DEF OutInv, Absent, Known, Waiting
    <2>5. ~(now <= asked[cur.ip] + ARP_MIN_INTERVAL)
        BY <2>2, <2>3, <2>4 DEF AskInv
    <2> QED BY <2>3, <2>5, ArpAssumption
<1> QED BY <1>1, IInvHolds, PTL DEF Spec, RequestsSpaced

LEMMA PendingNext ==
    ASSUME (TypeOK /\ MapsInv)', NEW ip, NEW f \in Waiting', f.key = ip
    PROVE  Pending(ip)' = f.value
<1>1. /\ arp_buf' \in MapType(Ip, Packet, buf_size, ARP_MIN_INTERVAL)
      /\ KeysUnique(arp_buf', now') /\ now' \in Nat
    BY DEF TypeOK, MapsInv, Sound
<1>2. IsMap(arp_buf')
    BY <1>1, TypedMap, ArpAssumption
<1> QED BY <1>1, <1>2, GetEntry DEF Waiting, Pending

(* A waiting packet leaves the buffer only by being sent or by expiring. *)
THEOREM KeptUntilSentHolds == Spec => KeptUntilSent
<1> DEFINE A == \A ip \in Ip :
                  LET p == Pending(ip) IN
                  p # NULL /\ map_get(arp_buf, ip, now') = p =>
                    Pending(ip)' = p \/ sends'[p] = 1
<1>1. IInv /\ [Next]_vars => [A]_vars
    <2> SUFFICES ASSUME IInv, Next, NEW ip \in Ip, Pending(ip) # NULL,
                        map_get(arp_buf, ip, now') = Pending(ip)
                 PROVE  Pending(ip)' = Pending(ip) \/ sends'[Pending(ip)] = 1
        OBVIOUS
    <2> USE DEF IInv
    <2>1. PICK f \in Waiting : f.key = ip /\ f.value = Pending(ip)
        BY GetWaiting DEF Pending
    <2>2. IInv'
        BY NextKeeps
    <2>3. CASE UNCHANGED arp_buf
        BY <2>3 DEF Pending
    <2>4. CASE arp_out_buf
        <3>1. f \in Waiting'
            <4>1. CASE UNCHANGED arp_buf
                BY <4>1, <2>4, SameWaiting DEF arp_out_buf
            <4>2. CASE /\ map_get(arp_buf, cur.ip, now) = NULL
                       /\ arp_buf' = map_set(arp_buf, cur.ip, cur.pkt, now, now)
                <5>1. cur.ip \in Ip /\ cur.pkt \in Packet /\ now' = now
                    BY <2>4, ArpAssumption DEF arp_out_buf, TypeOK, Packet
                <5>2. Absent(arp_buf, cur.ip, now)
                    BY <4>2, GetWaiting
                <5> QED BY <4>2, <5>1, <5>2, Stored
            <4> QED BY <2>4, <4>1, <4>2 DEF arp_out_buf
        <3> QED BY <2>1, <2>2, <3>1, PendingNext
    <2>5. CASE arp_in_delete
        <3>1. CASE ip = cur.ip
            BY <2>1, <2>5, <3>1 DEF arp_in_delete, WaitInv, history
        <3>2. CASE ip # cur.ip
            <4>1. f \in Waiting'
                BY <2>1, <2>5, <3>2, Deleted DEF arp_in_delete
            <4> QED BY <2>1, <2>2, <4>1, PendingNext
        <3> QED BY <3>1, <3>2
    <2> QED BY <2>3, <2>4, <2>5 DEF Next, arp_out, arp_in, arp_in_lookup, Tick
<1> QED BY <1>1, IInvHolds, PTL DEF Spec, KeptUntilSent

-----------------------------------------------------------------------------
(* ---- ip_out on top of address resolution ------------------------------ *)


(* What of the datagram in hand has been handed over, up to its n-th byte. *)
CutTo(n) ==
    /\ IF current.first > handed THEN n = 0 ELSE frag[current.first].from = 0
    /\ \A p \in current.first .. handed :
         /\ frag[p].of = ip_id /\ frag[p].mf = 1
         /\ 8 * frag[p].offset = frag[p].from
         /\ frag[p].from + frag[p].len = IF p = handed THEN n ELSE frag[p + 1].from

(* And what is left of it in txbuf, unless a request has taken its place.  *)
RestFrom(n) ==
    txbuf.of # NULL =>
      txbuf.of = ip_id /\ txbuf.from = n /\ txbuf.from + txbuf.len = current.size

CallOK ==
    /\ ip_pc \in {"idle", "loop", "advance", "last", "end"}
    /\ ip_pc = "idle" <=> ip_call = NoIpCall
    /\ ip_pc # "idle" => ip_call.ip \in Ip /\ ip_call.offset \in Nat
    /\ ip_pc \in {"loop", "last"} => pc = "idle"
    /\ ip_id \in Nat /\ slow \subseteq 0 .. ip_id

BufOK ==
    /\ txbuf \in [of : Nat \cup {NULL}, from : Nat, len : Nat]
    /\ txbuf.of = NULL => txbuf.len <= max_len
    /\ current \in [size : Nat, first : Nat, started : Nat]

FragOK ==
    /\ DOMAIN frag = Packet
    /\ \A p \in Packet : IF p <= handed THEN frag[p] \in Fragment ELSE frag[p] = NULL

(* Where the call of ip_out stands in its datagram: offset is ahead of the *)
(* end, by a full fragment in the loop.                                    *)
PlaceInv ==
    ip_pc # "idle" =>
      /\ current.size <= 65535
      /\ current.first \in 1 .. handed + 1
      /\ ip_pc = "loop" => txbuf.len > max_len
      /\ ip_pc = "advance" =>
           /\ txbuf.of # NULL => txbuf.len > max_len
           /\ 8 * ip_call.offset + max_len < current.size
           /\ current.first <= handed
      /\ 8 * ip_call.offset < current.size

CutInv ==
    /\ ip_pc \in {"loop", "last"} =>
         RestFrom(8 * ip_call.offset)
           /\ (txbuf.of # NULL => CutTo(8 * ip_call.offset))
    /\ ip_pc = "advance" =>
         RestFrom(8 * ip_call.offset) /\ CutTo(8 * ip_call.offset + max_len)

Whole ==
    (\A p \in current.first .. handed : frag[p].of # NULL) =>
      /\ current.first <= handed
      /\ frag[current.first].from = 0
      /\ frag[handed].from + frag[handed].len = current.size
      /\ \A p \in current.first .. handed :
           /\ frag[p].of = ip_id
           /\ 8 * frag[p].offset = frag[p].from
           /\ frag[p].mf = 0 <=> p = handed
           /\ p # handed => frag[p + 1].from = frag[p].from + frag[p].len

IpIInv ==
    /\ CallOK /\ BufOK /\ FragOK /\ PlaceInv /\ CutInv
    /\ ip_pc = "end" => Whole

-----------------------------------------------------------------------------
(* What the lengths of the instance are like. *)
LEMMA Lengthy ==
    /\ max_len \in Nat /\ max_len > 0
    /\ max_len \div 8 \in Nat /\ 8 * (max_len \div 8) = max_len
    /\ ArpFrameLen \in Nat /\ ArpFrameLen > 0 /\ ArpFrameLen <= max_len
    /\ \A len \in Lengths : len \in Nat /\ len > 0 /\ len <= 65535
<1>1. max_len \in Nat /\ max_len > 0 /\ max_len % 8 = 0 /\ ArpFrameLen \in 1 .. max_len
    BY IpAssumption
<1>2. max_len \div 8 \in Nat /\ 8 * (max_len \div 8) = max_len
    BY <1>1
<1> QED BY <1>1, <1>2, IpAssumption

LEMMA ShortId == \A n \in Nat : n % 65536 \in Below(65536)
    BY DEF Below

(* Every step is one of Arp, or leaves its variables alone. *)
LEMMA StepsOfArp == CallOK /\ [IpNext]_allVars => [Next]_vars
<1> SUFFICES ASSUME CallOK, [IpNext]_allVars PROVE [Next]_vars
    OBVIOUS
<1>1. CASE ip_out_fragment
    <2>1. ip_call.ip \in Ip
        BY <1>1 DEF CallOK, ip_out_fragment
    <2> QED BY <1>1, <2>1 DEF ip_out_fragment, ip_fragment_out, Next
<1>2. CASE ip_out_last
    <2>1. ip_call.ip \in Ip
        BY <1>2 DEF CallOK, ip_out_last
    <2> QED BY <1>2, <2>1 DEF ip_out_last, ip_fragment_out, Next
<1>3. CASE ArpOut
    BY <1>3 DEF ArpOut, Next
<1>4. CASE ArpIn
    BY <1>4 DEF ArpIn, Next
<1>5. CASE Clock
    BY <1>5 DEF Clock, Next
<1>6. CASE \E ip \in Ip, len \in Lengths : ip_out(ip, len)
    BY <1>6 DEF ip_out
<1>7. CASE ip_out_advance \/ ip_out_end \/ UNCHANGED allVars
    BY <1>7 DEF ip_out_advance, ip_out_end, allVars
<1> QED BY <1>1, <1>2, <1>3, <1>4, <1>5, <1>6, <1>7 DEF IpNext

-----------------------------------------------------------------------------
LEMMA IpInitHolds == IpInit => IpIInv
<1> SUFFICES ASSUME IpInit PROVE IpIInv
    OBVIOUS
<1>1. /\ ip_pc = "idle" /\ ip_call = NoIpCall /\ ip_id = 0 /\ slow = {}
      /\ txbuf = ArpFrame /\ current = NoDatagram
      /\ frag = [p \in Packet |-> NULL] /\ handed = 0
    BY DEF IpInit, Init
<1>2. CallOK
    BY <1>1 DEF CallOK
<1>3. BufOK
    BY <1>1, Lengthy DEF BufOK, ArpFrame, NoDatagram
<1>4. FragOK
    BY <1>1 DEF FragOK, Packet
<1> QED BY <1>1, <1>2, <1>3, <1>4 DEF IpIInv, PlaceInv, CutInv

(* The steps of Arp: at most, a request or a reply takes the place of what *)
(* was in txbuf, and not while ip_out is about to read from it.            *)
LEMMA ArpStepKeeps ==
    ASSUME IpIInv, handed \in Nat,
           UNCHANGED <<handed, ip_pc, ip_call, ip_id, frag, current>>,
           txbuf' \in {txbuf, ArpFrame},
           slow' \subseteq 0 .. ip_id,
           ip_pc \in {"loop", "last"} => pc' = "idle" /\ txbuf' = txbuf
    PROVE  IpIInv'
<1>1. CallOK' /\ FragOK'
    BY DEF IpIInv, CallOK, FragOK
<1>2. BufOK'
    BY Lengthy DEF IpIInv, BufOK, ArpFrame
<1>3. PlaceInv'
    BY DEF IpIInv, PlaceInv, ArpFrame
<1>4. RestFrom(8 * ip_call.offset)' \/ ~RestFrom(8 * ip_call.offset)
    BY DEF RestFrom, ArpFrame
<1>5. \A n : CutTo(n)' <=> CutTo(n)
    BY DEF CutTo
<1>6. CutInv'
    <2>1. CASE ip_pc \in {"loop", "last"}
        BY <2>1, <1>4, <1>5 DEF IpIInv, CutInv, RestFrom, CallOK
    <2>2. CASE ip_pc = "advance"
        BY <2>2, <1>4, <1>5 DEF IpIInv, CutInv
    <2> QED BY <2>1, <2>2 DEF CutInv
<1>7. (ip_pc = "end" => Whole)'
    BY DEF IpIInv, Whole
<1> QED BY <1>1, <1>2, <1>3, <1>6, <1>7 DEF IpIInv

LEMMA CallKeeps ==
    ASSUME IpIInv, TypeOK, NEW ip \in Ip, NEW len \in Lengths, ip_out(ip, len)
    PROVE  IpIInv'
<1>1. handed \in Nat /\ now \in Nat
    BY DEF TypeOK
<1>2. /\ ip_pc = "idle" /\ pc = "idle"
      /\ txbuf' = [of |-> ip_id, from |-> 0, len |-> len]
      /\ ip_pc' = IF len > max_len THEN "loop" ELSE "last"
      /\ ip_call' = [ip |-> ip, offset |-> 0]
      /\ current' = [size |-> len, first |-> handed + 1, started |-> now]
      /\ UNCHANGED <<handed, pc, ip_id, frag, slow>>
    BY DEF ip_out, Datagram, vars, code, history
<1>3. len \in Nat /\ len > 0 /\ len <= 65535
    BY Lengthy
<1>4. ip_id \in Nat /\ ip_id # NULL
    BY ArpAssumption DEF IpIInv, CallOK
<1>5. CallOK'
    <2>1. ip_call' # NoIpCall /\ ip_pc' # "idle"
        BY <1>2, ArpAssumption DEF NoIpCall
    <2> QED BY <1>2, <2>1 DEF IpIInv, CallOK
<1>6. BufOK'
    BY <1>1, <1>2, <1>3, <1>4 DEF BufOK
<1>7. FragOK'
    BY <1>2 DEF IpIInv, FragOK
<1>8. PlaceInv'
    BY <1>1, <1>2, <1>3 DEF PlaceInv
<1>9. CutTo(0)'
    BY <1>1, <1>2 DEF CutTo
<1>10. RestFrom(0)'
    BY <1>2, <1>3 DEF RestFrom
<1>11. CutInv'
    <2>1. (8 * ip_call.offset)' = 0 /\ ip_pc' # "advance"
        BY <1>2
    <2> QED BY <1>9, <1>10, <2>1 DEF CutInv, CutTo, RestFrom
<1> QED BY <1>2, <1>5, <1>6, <1>7, <1>8, <1>11 DEF IpIInv

(* A fragment becomes the next packet. *)
LEMMA Hands ==
    ASSUME TypeOK, FragOK, NEW n, NEW mf, ip_fragment_out(n, mf)
    PROVE  /\ handed' = handed + 1 /\ handed + 1 \in Packet /\ handed \in Nat
           /\ now \in Nat
           /\ frag'[handed + 1] =
                [ of |-> txbuf.of, from |-> txbuf.from, len |-> n,
                  id |-> ip_id % 65536, offset |-> ip_call.offset, mf |-> mf,
                  call |-> ip_id, started |-> current.started ]
           /\ \A p \in Packet \ {handed + 1} : frag'[p] = frag[p]
<1>1. /\ handed \in Nat /\ handed < MaxPackets /\ handed' = handed + 1
      /\ now \in Nat
    BY DEF TypeOK, ip_fragment_out, arp_out
<1>2. handed + 1 \in Packet
    BY <1>1, ArpAssumption DEF Packet
<1> QED BY <1>1, <1>2 DEF FragOK, ip_fragment_out

(* What is known of a fragment once it is made. *)
LEMMA NewFragment ==
    ASSUME CallOK, BufOK, NEW n \in Nat, n > 0, NEW mf \in {0, 1}, ip_pc # "idle",
           8 * ip_call.offset < current.size, current.size <= 65535,
           NEW f, f = [ of |-> txbuf.of, from |-> txbuf.from, len |-> n,
                        id |-> ip_id % 65536, offset |-> ip_call.offset, mf |-> mf,
                        call |-> ip_id, started |-> current.started ]
    PROVE  f \in Fragment
<1>1. ip_call.offset \in Below(8192)
    BY DEF CallOK, BufOK, Below
<1>2. ip_id % 65536 \in Below(65536)
    BY ShortId DEF CallOK
<1>3. /\ txbuf.of \in Nat \cup {NULL} /\ txbuf.from \in Nat
      /\ current.started \in Nat /\ ip_id \in Nat /\ n \in Nat \ {0}
    BY DEF CallOK, BufOK
<1> QED BY <1>1, <1>2, <1>3 DEF Fragment

LEMMA FragOKKeeps ==
    ASSUME FragOK, handed' = handed + 1, handed \in Nat, DOMAIN frag' = Packet,
           \A p \in Packet \ {handed + 1} : frag'[p] = frag[p],
           frag'[handed + 1] \in Fragment
    PROVE  FragOK'
<1>1. SUFFICES ASSUME NEW p \in Packet
               PROVE  IF p <= handed + 1 THEN frag'[p] \in Fragment ELSE frag'[p] = NULL
    BY DEF FragOK
<1>2. p \in Nat
    BY ArpAssumption DEF Packet
<1> QED BY <1>2 DEF FragOK

LEMMA FragmentKeeps ==
    ASSUME IpIInv, TypeOK, ip_out_fragment
    PROVE  IpIInv'
<1> DEFINE n == 8 * ip_call.offset
           h == handed + 1
<1>1. CallOK /\ BufOK /\ FragOK /\ PlaceInv /\ CutInv
    BY DEF IpIInv
<1>2. /\ ip_pc = "loop" /\ ip_pc' = "advance" /\ ip_fragment_out(max_len, 1)
      /\ UNCHANGED <<txbuf, ip_call, ip_id, current, slow>>
    BY DEF ip_out_fragment
<1>3. /\ handed' = h /\ h \in Packet /\ handed \in Nat
      /\ frag'[h] = [ of |-> txbuf.of, from |-> txbuf.from, len |-> max_len,
                      id |-> ip_id % 65536, offset |-> ip_call.offset, mf |-> 1,
                      call |-> ip_id, started |-> current.started ]
      /\ \A p \in Packet \ {h} : frag'[p] = frag[p]
    BY <1>1, <1>2, Hands
<1>4. /\ ip_call.offset \in Nat /\ ip_id \in Nat
      /\ current.size \in Nat /\ current.first \in Nat
      /\ txbuf.from \in Nat /\ txbuf.len \in Nat
    BY <1>1, <1>2 DEF CallOK, BufOK
<1>5. /\ n < current.size /\ current.size <= 65535 /\ txbuf.len > max_len
      /\ current.first \in 1 .. handed + 1
    BY <1>1, <1>2 DEF PlaceInv
<1>6. /\ txbuf.of = ip_id /\ txbuf.from = n /\ n + txbuf.len = current.size
      /\ CutTo(n) /\ RestFrom(n)
    <2>1. txbuf.of # NULL
        BY <1>1, <1>4, <1>5, Lengthy DEF BufOK
    <2> QED BY <1>1, <1>2, <2>1 DEF CutInv, RestFrom
<1>7. CallOK'
    BY <1>1, <1>2 DEF CallOK
<1>8. BufOK'
    BY <1>1, <1>2 DEF BufOK
<1>9. FragOK'
    <2>1. frag'[h] \in Fragment
        BY <1>1, <1>2, <1>3, <1>5, Lengthy, NewFragment
    <2>2. DOMAIN frag' = Packet
        BY <1>1, <1>2 DEF FragOK, ip_fragment_out
    <2> QED BY <1>1, <1>3, <2>1, <2>2, FragOKKeeps
<1>10. PlaceInv'
    <2>1. n + max_len < current.size
        BY <1>4, <1>5, <1>6, Lengthy
    <2> QED BY <1>2, <1>3, <1>4, <1>5, <2>1 DEF PlaceInv
<1>11. CutTo(n + max_len)'
    <2>1. frag'[current.first].from = 0 /\ current.first <= h
        <3>1. CASE current.first = h
            BY <1>3, <1>6, <3>1 DEF CutTo
        <3>2. CASE current.first < h
            <4>1. current.first \in Packet \ {h} /\ ~(current.first > handed)
                BY <1>3, <1>4, <1>5, <3>2, ArpAssumption DEF Packet
            <4>2. frag[current.first].from = 0
                BY <1>6, <4>1 DEF CutTo
            <4> QED BY <1>3, <1>4, <3>2, <4>1, <4>2
        <3> QED BY <1>3, <1>4, <1>5, <3>1, <3>2
    <2>2. ASSUME NEW p \in current.first .. h
          PROVE  /\ frag'[p].of = ip_id /\ frag'[p].mf = 1
                 /\ 8 * frag'[p].offset = frag'[p].from
                 /\ frag'[p].from + frag'[p].len =
                      IF p = h THEN n + max_len ELSE frag'[p + 1].from
        <3>1. CASE p = h
            BY <1>3, <1>6, <3>1
        <3>2. CASE p # h
            <4>1. p \in current.first .. handed
                BY <1>3, <1>4, <3>2
            <4>2. p \in Packet /\ frag'[p] = frag[p]
                BY <1>3, <1>4, <1>5, <3>2, <4>1, ArpAssumption DEF Packet
            <4>3. CASE p = handed
                BY <1>3, <1>6, <3>2, <4>1, <4>2, <4>3 DEF CutTo
            <4>4. CASE p # handed
                <5>1. p + 1 \in Packet \ {h}
                    BY <1>3, <1>4, <1>5, <4>1, <4>4, ArpAssumption DEF Packet
                <5> QED BY <1>3, <1>6, <3>2, <4>1, <4>2, <4>4, <5>1 DEF CutTo
            <4> QED BY <4>3, <4>4
        <3> QED BY <3>1, <3>2
    <2> QED BY <1>2, <1>3, <1>4, <2>1, <2>2 DEF CutTo
<1>12. CutInv'
    <2>1. RestFrom(n)'
        BY <1>2, <1>6 DEF RestFrom
    <2> QED BY <1>2, <1>11, <2>1 DEF CutInv, RestFrom, CutTo
<1> QED BY <1>2, <1>7, <1>8, <1>9, <1>10, <1>12 DEF IpIInv

LEMMA AdvanceKeeps ==
    ASSUME IpIInv, TypeOK, ip_out_advance
    PROVE  IpIInv'
<1> DEFINE n == 8 * ip_call.offset
           rest == buf_remove_header(txbuf, max_len)
<1>1. CallOK /\ BufOK /\ FragOK /\ PlaceInv /\ CutInv
    BY DEF IpIInv
<1>2. /\ ip_pc = "advance" /\ pc = "idle"
      /\ txbuf' = rest
      /\ ip_call' = [ip_call EXCEPT !.offset = @ + max_len \div 8]
      /\ ip_pc' = IF rest.len > max_len THEN "loop" ELSE "last"
      /\ UNCHANGED <<handed, pc, ip_id, frag, current, slow>>
    BY DEF ip_out_advance, vars, code, history
<1>3. /\ ip_call.offset \in Nat /\ ip_id \in Nat /\ handed \in Nat
      /\ current.size \in Nat /\ current.first \in Nat
      /\ txbuf.from \in Nat /\ txbuf.len \in Nat
    BY <1>1, <1>2 DEF CallOK, BufOK, TypeOK
<1>4. /\ n + max_len < current.size /\ current.size <= 65535
      /\ current.first \in 1 .. handed + 1
      /\ txbuf.of # NULL => txbuf.len > max_len
    BY <1>1, <1>2 DEF PlaceInv
<1>5. RestFrom(n) /\ CutTo(n + max_len)
    BY <1>1, <1>2 DEF CutInv
<1>6. /\ ip_call'.offset = ip_call.offset + max_len \div 8
      /\ ip_call'.ip = ip_call.ip
      /\ (8 * ip_call.offset)' = n + max_len
    <2>1. DOMAIN ip_call = {"ip", "offset"} \/ DOMAIN ip_call # {"ip", "offset"}
        OBVIOUS
    <2> QED BY <1>2, <1>3, Lengthy
<1>7. rest \in [of : Nat \cup {NULL}, from : Nat, len : Nat] /\ rest.of = txbuf.of
    <2>1. txbuf.of \in Nat \cup {NULL}
          /\ txbuf \in [of : Nat \cup {NULL}, from : Nat, len : Nat]
        BY <1>1 DEF BufOK
    <2>2. CASE txbuf.len < max_len
        BY <2>1, <2>2 DEF buf_remove_header
    <2>3. CASE ~(txbuf.len < max_len)
        <3>1. txbuf.from + max_len \in Nat /\ txbuf.len - max_len \in Nat
            BY <1>3, <2>3, Lengthy
        <3>2. rest = [of |-> txbuf.of, from |-> txbuf.from + max_len,
                      len |-> txbuf.len - max_len]
            BY <2>1, <2>3 DEF buf_remove_header
        <3> QED BY <2>1, <3>1, <3>2
    <2> QED BY <2>2, <2>3
<1>8. txbuf.of = NULL => rest.len <= max_len
    BY <1>1, <1>3, Lengthy DEF buf_remove_header, BufOK
<1>9. txbuf.of # NULL => rest.from = n + max_len /\ rest.from + rest.len = current.size
                           /\ txbuf.of = ip_id
    BY <1>1, <1>3, <1>4, <1>5, Lengthy DEF buf_remove_header, BufOK, RestFrom
<1> HIDE DEF rest
<1>10. CallOK'
    BY <1>1, <1>2, <1>3, <1>6, Lengthy, ArpAssumption DEF CallOK, NoIpCall
<1>11. BufOK'
    BY <1>1, <1>2, <1>7, <1>8 DEF BufOK
<1>12. FragOK'
    BY <1>1, <1>2 DEF FragOK
<1>13. PlaceInv'
    BY <1>1, <1>2, <1>3, <1>4, <1>6 DEF PlaceInv
<1>14. /\ txbuf'.of # NULL =>
            /\ txbuf'.of = ip_id' /\ txbuf'.from = n + max_len
            /\ txbuf'.from + txbuf'.len = current'.size
       /\ IF current'.first > handed' THEN n + max_len = 0
          ELSE frag'[current'.first].from = 0
       /\ \A p \in current'.first .. handed' :
            /\ frag'[p].of = ip_id' /\ frag'[p].mf = 1
            /\ 8 * frag'[p].offset = frag'[p].from
            /\ frag'[p].from + frag'[p].len =
                 IF p = handed' THEN n + max_len ELSE frag'[p + 1].from
    BY <1>2, <1>5, <1>7, <1>9 DEF CutTo
<1>15. CutInv'
    BY <1>2, <1>6, <1>14 DEF CutInv, RestFrom, CutTo
<1> QED BY <1>2, <1>10, <1>11, <1>12, <1>13, <1>15 DEF IpIInv

LEMMA LastKeeps ==
    ASSUME IpIInv, TypeOK, ip_out_last
    PROVE  IpIInv'
<1> DEFINE n == 8 * ip_call.offset
           h == handed + 1
<1>1. CallOK /\ BufOK /\ FragOK /\ PlaceInv /\ CutInv
    BY DEF IpIInv
<1>2. /\ ip_pc = "last" /\ ip_pc' = "end" /\ ip_fragment_out(txbuf.len, 0)
      /\ txbuf.len > 0
      /\ UNCHANGED <<txbuf, ip_call, ip_id, current, slow>>
    BY DEF ip_out_last
<1>3. /\ handed' = h /\ h \in Packet /\ handed \in Nat
      /\ frag'[h] = [ of |-> txbuf.of, from |-> txbuf.from, len |-> txbuf.len,
                      id |-> ip_id % 65536, offset |-> ip_call.offset, mf |-> 0,
                      call |-> ip_id, started |-> current.started ]
      /\ \A p \in Packet \ {h} : frag'[p] = frag[p]
    BY <1>1, <1>2, Hands
<1>4. /\ ip_call.offset \in Nat /\ ip_id \in Nat
      /\ current.size \in Nat /\ current.first \in Nat
      /\ txbuf.from \in Nat /\ txbuf.len \in Nat
    BY <1>1, <1>2 DEF CallOK, BufOK
<1>5. /\ n < current.size /\ current.size <= 65535
      /\ current.first \in 1 .. handed + 1
    BY <1>1, <1>2 DEF PlaceInv
<1>6. CallOK'
    BY <1>1, <1>2 DEF CallOK
<1>7. BufOK'
    BY <1>1, <1>2 DEF BufOK
<1>8. FragOK'
    <2>1. frag'[h] \in Fragment
        BY <1>1, <1>2, <1>3, <1>4, <1>5, NewFragment
    <2>2. DOMAIN frag' = Packet
        BY <1>1, <1>2 DEF FragOK, ip_fragment_out
    <2> QED BY <1>1, <1>3, <2>1, <2>2, FragOKKeeps
<1>9. PlaceInv'
    BY <1>2, <1>3, <1>4, <1>5 DEF PlaceInv
<1>10. Whole'
    <2>1. SUFFICES ASSUME \A p \in current.first .. h : frag'[p].of # NULL
                   PROVE  /\ current.first <= h
                          /\ frag'[current.first].from = 0
                          /\ frag'[h].from + frag'[h].len = current.size
                          /\ \A p \in current.first .. h :
                               /\ frag'[p].of = ip_id
                               /\ 8 * frag'[p].offset = frag'[p].from
                               /\ frag'[p].mf = 0 <=> p = h
                               /\ p # h => frag'[p + 1].from = frag'[p].from + frag'[p].len
        BY <1>2, <1>3 DEF Whole
    <2>2. txbuf.of # NULL
        BY <1>3, <1>4, <1>5, <2>1
    <2>3. /\ txbuf.of = ip_id /\ txbuf.from = n /\ n + txbuf.len = current.size
          /\ CutTo(n)
        BY <1>1, <1>2, <2>2 DEF CutInv, RestFrom
    <2>4. frag'[current.first].from = 0 /\ current.first <= h
        <3>1. CASE current.first = h
            BY <1>3, <2>3, <3>1 DEF CutTo
        <3>2. CASE current.first < h
            <4>1. current.first \in Packet \ {h} /\ ~(current.first > handed)
                BY <1>3, <1>4, <1>5, <3>2, ArpAssumption DEF Packet
            <4>2. frag[current.first].from = 0
                BY <2>3, <4>1 DEF CutTo
            <4> QED BY <1>3, <1>4, <3>2, <4>1, <4>2
        <3> QED BY <1>3, <1>4, <1>5, <3>1, <3>2
    <2>5. ASSUME NEW p \in current.first .. h
          PROVE  /\ frag'[p].of = ip_id
                 /\ 8 * frag'[p].offset = frag'[p].from
                 /\ frag'[p].mf = 0 <=> p = h
                 /\ p # h => frag'[p + 1].from = frag'[p].from + frag'[p].len
        <3>1. CASE p = h
            BY <1>3, <2>3, <3>1
        <3>2. CASE p # h
            <4>1. p \in current.first .. handed
                BY <1>3, <1>4, <3>2
            <4>2. p \in Packet /\ frag'[p] = frag[p]
                BY <1>3, <1>4, <1>5, <3>2, <4>1, ArpAssumption DEF Packet
            <4>3. CASE p = handed
                BY <1>3, <2>3, <3>2, <4>1, <4>2, <4>3 DEF CutTo
            <4>4. CASE p # handed
                <5>1. p + 1 \in Packet \ {h}
                    BY <1>3, <1>4, <1>5, <4>1, <4>4, ArpAssumption DEF Packet
                <5> QED BY <1>3, <2>3, <3>2, <4>1, <4>2, <4>4, <5>1 DEF CutTo
            <4> QED BY <4>3, <4>4
        <3> QED BY <3>1, <3>2
    <2> QED BY <1>3, <2>3, <2>4, <2>5
<1> QED BY <1>2, <1>6, <1>7, <1>8, <1>9, <1>10 DEF IpIInv, CutInv

LEMMA EndKeeps ==
    ASSUME IpIInv, ip_out_end
    PROVE  IpIInv'
<1>1. /\ ip_id' = ip_id + 1 /\ ip_pc' = "idle" /\ ip_call' = NoIpCall
      /\ current' = NoDatagram /\ UNCHANGED <<handed, txbuf, frag, slow>>
    BY DEF ip_out_end, vars, code, history
<1>2. CallOK'
    BY <1>1 DEF IpIInv, CallOK
<1>3. BufOK'
    BY <1>1 DEF IpIInv, BufOK, NoDatagram
<1> QED BY <1>1, <1>2, <1>3 DEF IpIInv, FragOK, PlaceInv, CutInv

LEMMA ArpKeeps ==
    ASSUME IpIInv, TypeOK, ArpOut \/ ArpIn \/ Clock
    PROVE  IpIInv'
<1>1. handed \in Nat /\ CallOK
    BY DEF TypeOK, IpIInv
<1>2. CASE ArpOut
    BY <1>1, <1>2, ArpStepKeeps
    DEF ArpOut, arp_out_buf, BuildsArpFrame, CallOK
<1>3. CASE ArpIn
    BY <1>1, <1>3, ArpStepKeeps
    DEF ArpIn, arp_in, arp_in_lookup, arp_in_delete, BuildsArpFrame, CallOK, history
<1>4. CASE Clock
    BY <1>1, <1>4, ArpStepKeeps DEF Clock, Tick, CallOK, history
<1> QED BY <1>2, <1>3, <1>4

LEMMA IpNextKeeps == IpIInv /\ TypeOK /\ [IpNext]_allVars => IpIInv'
<1> SUFFICES ASSUME IpIInv, TypeOK, [IpNext]_allVars PROVE IpIInv'
    OBVIOUS
<1>1. CASE UNCHANGED allVars
    BY <1>1 DEF allVars, ipVars, vars, code, history, IpIInv, CallOK, BufOK, FragOK,
        PlaceInv, CutInv, CutTo, RestFrom, Whole
<1>2. CASE IpNext
    BY <1>2, CallKeeps, FragmentKeeps, AdvanceKeeps, LastKeeps, EndKeeps, ArpKeeps
    DEF IpNext
<1> QED BY <1>1, <1>2

(* The two invariants together: that of Arp is kept, since every step of   *)
(* IpOut is one of its steps.                                              *)
LEMMA BothHold == IpSpec => [](IInv /\ IpIInv)
<1>1. IpInit => IInv /\ IpIInv
    BY IpInitHolds, InitIInv DEF IpInit
<1>2. IInv /\ IpIInv /\ [IpNext]_allVars => (IInv /\ IpIInv)'
    BY IpNextKeeps, StepsOfArp, NextKeeps DEF IInv, IpIInv
<1> QED BY <1>1, <1>2, PTL DEF IpSpec

-----------------------------------------------------------------------------
(* ip_out uses address resolution as Arp specifies it, whatever it makes   *)
(* of the buffer: the behaviours of the composition are behaviours of Arp. *)
THEOREM ImplementsArp == IpSpec => Spec
<1>1. IpInit => Init
    BY DEF IpInit
<1>2. IpIInv /\ [IpNext]_allVars => [Next]_vars
    BY StepsOfArp DEF IpIInv
<1> QED BY <1>1, <1>2, BothHold, PTL DEF IpSpec, Spec

(* So no fragment goes out twice, and those for one address stay in order. *)
THEOREM FragmentsInOrder == IpSpec => []SentAtMostOnce /\ InOrder
    BY ImplementsArp, SentAtMostOnceHolds, InOrderHolds, PTL

(* Types, and the offset of every fragment fits into its 13 bits.          *)
THEOREM IpTypeCorrect == IpSpec => []IpTypeOK
<1>1. IInv /\ IpIInv => IpTypeOK
    <2> SUFFICES ASSUME IInv, IpIInv PROVE IpTypeOK
        OBVIOUS
    <2>1. CallOK /\ BufOK /\ FragOK /\ PlaceInv
        BY DEF IpIInv
    <2>2. ip_pc # "idle" => ip_call.offset \in Below(8192)
        BY <2>1 DEF CallOK, BufOK, PlaceInv, Below
    <2> QED BY <2>1, <2>2 DEF IpTypeOK, CallOK, BufOK, FragOK, PlaceInv
<1> QED BY <1>1, BothHold, PTL

(* A datagram that no request has interrupted is cut into fragments from   *)
(* which a receiver gets it back, for every length.                        *)
THEOREM ReassemblesHolds == IpSpec => []Reassembles
<1>1. IpIInv => Reassembles
    BY DEF IpIInv, Whole, Reassembles, FromArp
<1> QED BY <1>1, BothHold, PTL

-----------------------------------------------------------------------------
(* The history of several calls.  No search of the table finds ip;         *)
(* arp_out_buf stores no packet for it; p has gone out or still can.       *)
Unknown(ip) == \A e \in Known : e.key # ip
Blocked(ip) == arp_buf.size = buf_size \/ \E f \in Waiting : f.key = ip
Alive(p) == sends[p] > 0 \/ \E f \in Waiting : f.value = p

(* Whether packet p belongs to the call of ip_out in progress. *)
Present(p) == ip_pc # "idle" /\ current.first <= p

(* The packets of the present call come after all others, are for its      *)
(* address and have begun when it has.                                     *)
CallsInv ==
    /\ ip_pc # "idle" => current.started <= now /\ pc \in {"idle", "out_buf"}
    /\ pc = "out_buf" =>
         Present(handed) /\ cur.ip = ip_call.ip /\ frag[handed].of = txbuf.of
    /\ \A p \in Handed :
         /\ dest[p] \in Ip
         /\ IF Present(p)
            THEN /\ frag[p].call = ip_id /\ dest[p] = ip_call.ip
                 /\ frag[p].started = current.started
            ELSE frag[p].call < ip_id

(* A request has overwritten txbuf only because the address is unknown;    *)
(* since then arp_out_buf stores no packet for it, or the clock has moved  *)
(* on far enough for the one that waited to expire.                        *)
OverwrittenInv ==
    ip_pc # "idle" /\ txbuf.of = NULL =>
      /\ Unknown(ip_call.ip)
      /\ \/ arp_buf.size = buf_size
         \/ now > current.started + ARP_MIN_INTERVAL
         \/ \E f \in Waiting : f.key = ip_call.ip /\ f.time >= current.started

(* What carries an ARP frame and is not lost was stored late. *)
InsideInv ==
    \A p \in Handed :
      FromArp(p) /\ Alive(p) => asked[dest[p]] > frag[p].started + ARP_MIN_INTERVAL

(* As long as the second does not change within ip_out, either all its     *)
(* fragments so far have gone out, or none can be stored.                  *)
StalledInv ==
    ip_pc # "idle" /\ ip_id \notin slow =>
      \/ \A p \in Handed :
           Present(p) /\ ~(pc = "out_buf" /\ p = handed) => sends[p] > 0
      \/ Unknown(ip_call.ip) /\ Blocked(ip_call.ip)

(* No fragment has gone out, or can, if one before it has not. *)
BeforeInv ==
    \A p, q \in Handed :
      p < q /\ frag[p].call = frag[q].call /\ frag[q].call \notin slow /\ Alive(q) =>
        sends[p] > 0

HistInv == CallsInv /\ OverwrittenInv /\ InsideInv /\ StalledInv /\ BeforeInv

LEMMA HandedIn ==
    ASSUME TypeOK
    PROVE  /\ handed \in Nat /\ now \in Nat /\ Handed \subseteq Packet /\ Handed \subseteq Nat
           /\ sends \in [Packet -> Nat] /\ asked \in [Ip -> Nat]
           /\ ARP_MIN_INTERVAL \in Nat
    BY ArpAssumption DEF TypeOK, Handed, Packet

LEMMA HistInit == IpInit => HistInv
<1> SUFFICES ASSUME IpInit PROVE HistInv
    OBVIOUS
<1>1. ip_pc = "idle" /\ pc = "idle" /\ handed = 0
    BY DEF IpInit, Init
<1>2. Handed = {}
    BY <1>1 DEF Handed
<1> QED BY <1>1, <1>2
    DEF HistInv, CallsInv, OverwrittenInv, InsideInv, StalledInv, BeforeInv

(* A step after which no more packets can go out than before keeps what is *)
(* known of them.                                                          *)
LEMMA NoneRevived ==
    ASSUME InsideInv, BeforeInv,
           UNCHANGED <<handed, dest, asked, frag>>, slow \subseteq slow',
           \A p \in Handed : Alive(p)' => Alive(p),
           \A p \in Handed : sends[p] > 0 => sends'[p] > 0
    PROVE  InsideInv' /\ BeforeInv'
<1>1. Handed' = Handed
    BY DEF Handed
<1>2. InsideInv'
    BY <1>1 DEF InsideInv, FromArp
<1>3. BeforeInv'
    BY <1>1 DEF BeforeInv
<1> QED BY <1>2, <1>3

LEMMA CallHist ==
    ASSUME IInv, IpIInv, HistInv, NEW ip \in Ip, NEW len \in Lengths, ip_out(ip, len)
    PROVE  HistInv'
<1>1. /\ ip_pc = "idle" /\ pc = "idle" /\ ip_pc' # "idle"
      /\ txbuf' = [of |-> ip_id, from |-> 0, len |-> len]
      /\ current' = [size |-> len, first |-> handed + 1, started |-> now]
      /\ UNCHANGED <<vars, ip_id, frag, slow>>
    BY DEF ip_out, Datagram
<1>2. UNCHANGED <<arp_table, arp_buf, now, pc, cur, handed, dest, sends, asked>>
    BY <1>1 DEF vars, code, history
<1>3. handed \in Nat /\ now \in Nat /\ Handed' = Handed
    BY <1>2, HandedIn DEF IInv, Handed
<1>4. \A p \in Handed : ~Present(p) /\ ~Present(p)'
    BY <1>1, <1>3 DEF Present, Handed
<1>5. ip_id # NULL
    BY ArpAssumption DEF IpIInv, CallOK
<1>6. CallsInv'
    BY <1>1, <1>2, <1>3, <1>4 DEF HistInv, CallsInv
<1>7. OverwrittenInv' /\ StalledInv'
    BY <1>1, <1>3, <1>4, <1>5 DEF OverwrittenInv, StalledInv
<1>8. InsideInv' /\ BeforeInv'
    BY <1>1, <1>2, NoneRevived DEF HistInv, Alive, Waiting
<1> QED BY <1>6, <1>7, <1>8 DEF HistInv

LEMMA AdvanceHist ==
    ASSUME IInv, IpIInv, HistInv, ip_out_advance
    PROVE  HistInv'
<1>1. /\ ip_pc = "advance" /\ pc = "idle" /\ ip_pc' # "idle"
      /\ txbuf' = buf_remove_header(txbuf, max_len)
      /\ ip_call' = [ip_call EXCEPT !.offset = @ + max_len \div 8]
      /\ UNCHANGED <<vars, ip_id, frag, current, slow>>
    BY DEF ip_out_advance
<1>2. UNCHANGED <<arp_table, arp_buf, now, pc, cur, handed, dest, sends, asked>>
    BY <1>1 DEF vars, code, history
<1>3. /\ Known' = Known /\ Waiting' = Waiting /\ Handed' = Handed
      /\ \A p : Present(p)' <=> Present(p)
    BY <1>1, <1>2 DEF Known, Waiting, Handed, Present
<1>4. txbuf'.of = txbuf.of
    <2>1. txbuf \in [of : Nat \cup {NULL}, from : Nat, len : Nat]
        BY DEF IpIInv, BufOK
    <2> QED BY <1>1, <2>1 DEF buf_remove_header
<1>5. ip_call'.ip = ip_call.ip
    BY <1>1
<1>6. CallsInv'
    BY <1>1, <1>2, <1>3, <1>5 DEF HistInv, CallsInv
<1>7. OverwrittenInv'
    BY <1>1, <1>2, <1>3, <1>4, <1>5 DEF HistInv, OverwrittenInv, Unknown
<1>8. StalledInv'
    BY <1>1, <1>2, <1>3, <1>5 DEF HistInv, StalledInv, Unknown, Blocked
<1>9. InsideInv' /\ BeforeInv'
    BY <1>1, <1>2, <1>3, NoneRevived DEF HistInv, Alive
<1> QED BY <1>6, <1>7, <1>8, <1>9 DEF HistInv

LEMMA EndHist ==
    ASSUME IInv, IpIInv, HistInv, ip_out_end
    PROVE  HistInv'
<1>1. /\ ip_id' = ip_id + 1 /\ ip_pc' = "idle" /\ ip_id \in Nat /\ pc = "idle"
      /\ UNCHANGED <<vars, frag, slow>>
    BY DEF ip_out_end, IpIInv, CallOK
<1>2. UNCHANGED <<arp_table, arp_buf, now, pc, cur, handed, dest, sends, asked>>
    BY <1>1 DEF vars, code, history
<1>3. /\ Waiting' = Waiting /\ Handed' = Handed /\ \A p : ~Present(p)'
    BY <1>1, <1>2 DEF Waiting, Handed, Present
<1>4. \A p \in Handed : frag[p].call \in Nat
    <2>1. \A p \in Handed : p \in Packet /\ p <= handed
        BY HandedIn DEF IInv, Handed
    <2> QED BY <2>1 DEF IpIInv, FragOK, Fragment
<1>5. CallsInv'
    BY <1>1, <1>2, <1>3, <1>4 DEF HistInv, CallsInv
<1>6. OverwrittenInv' /\ StalledInv'
    BY <1>1 DEF OverwrittenInv, StalledInv
<1>7. InsideInv' /\ BeforeInv'
    BY <1>1, <1>2, <1>3, NoneRevived DEF HistInv, Alive
<1> QED BY <1>5, <1>6, <1>7 DEF HistInv

(* arp_out hands over one more packet: at once if the address is known,    *)
(* and otherwise to arp_out_buf.                                           *)
LEMMA FragmentHist ==
    ASSUME IInv, IpIInv, HistInv, NEW n, NEW mf, ip_fragment_out(n, mf),
           ip_pc # "idle", pc = "idle", ip_pc' # "idle",
           UNCHANGED <<txbuf, ip_call, ip_id, current, slow>>
    PROVE  HistInv'
<1> DEFINE h == handed + 1
           ip == ip_call.ip
           mac == map_get(arp_table, ip, now)
<1>1. TypeOK /\ MapsInv /\ WaitInv /\ SendInv /\ FragOK /\ PlaceInv /\ CallOK /\ BufOK
    BY DEF IInv, IpIInv
<1>2. /\ handed' = h /\ h \in Packet /\ handed \in Nat /\ now \in Nat
      /\ frag'[h] = [ of |-> txbuf.of, from |-> txbuf.from, len |-> n,
                      id |-> ip_id % 65536, offset |-> ip_call.offset, mf |-> mf,
                      call |-> ip_id, started |-> current.started ]
      /\ \A p \in Packet \ {h} : frag'[p] = frag[p]
    BY <1>1, Hands
<1>3. /\ ip \in Ip /\ current.first \in Nat /\ current.first <= h
      /\ ip_id \in Nat
    BY <1>1, <1>2 DEF CallOK, PlaceInv, BufOK
<1>4. /\ UNCHANGED <<arp_table, arp_buf, now, asked>>
      /\ dest' = [dest EXCEPT ![h] = ip]
      /\ \/ mac # NULL /\ SendData(h, mac) /\ Return
         \/ /\ mac = NULL /\ pc' = "out_buf"
            /\ cur' = [NoCall EXCEPT !.ip = ip, !.pkt = h]
            /\ sends' = sends
    BY DEF ip_fragment_out, arp_out
<1>5. /\ Known' = Known /\ Waiting' = Waiting
      /\ \A p : Present(p)' <=> Present(p)
    BY <1>4 DEF Known, Waiting, Present
<1>6. /\ dest'[h] = ip /\ sends[h] = 0
      /\ \A p \in Handed : p \in Packet /\ p # h /\ p <= handed /\ p \in Nat
      /\ \A p \in Handed : dest'[p] = dest[p] /\ frag'[p] = frag[p]
      /\ \A p \in Handed' : p \in Handed \/ p = h
    <2>1. \A p \in Handed : p \in Packet /\ p # h /\ p <= handed /\ p \in Nat
        BY <1>1, <1>2, HandedIn DEF Handed
    <2>2. dest \in [Packet -> Ip \cup {NULL}] /\ sends[h] = 0
        BY <1>1, <1>2 DEF TypeOK, SendInv
    <2>3. \A p \in Handed' : p \in Handed \/ p = h
        BY <1>2 DEF Handed
    <2> QED BY <1>2, <1>4, <2>1, <2>2, <2>3
<1>7. Present(h)
    BY <1>3 DEF Present
<1>8. mac # NULL <=> ~Unknown(ip)
    BY <1>1, GetKnown DEF Unknown, Absent, Known
<1>9. /\ \A p \in Handed : sends'[p] = sends[p]
      /\ sends'[h] > 0 <=> mac # NULL
    <2>1. sends \in [Packet -> Nat]
        BY <1>1 DEF TypeOK
    <2> QED BY <1>2, <1>4, <1>6, <2>1 DEF SendData
<1>10. /\ \A p \in Handed : Alive(p)' <=> Alive(p)
       /\ \A p \in Handed' : p = h /\ Alive(p)' => mac # NULL
    <2>1. \A f \in Waiting : f.value # h
        <3>1. \A f \in Waiting : f.value <= handed /\ f.value \in Packet
            BY <1>1, WaitingType DEF WaitInv
        <3> QED BY <1>2, <3>1, ArpAssumption DEF Packet
    <2> QED BY <1>5, <1>9, <2>1 DEF Alive
<1>11. CallsInv'
    <2>1. ip_pc' # "idle" => current'.started <= now' /\ pc' \in {"idle", "out_buf"}
        BY <1>4 DEF HistInv, CallsInv, Return
    <2>2. pc' = "out_buf" =>
            Present(handed)' /\ cur'.ip = ip_call'.ip /\ frag'[handed'].of = txbuf'.of
        <3>1. Present(handed)'
            BY <1>2, <1>3 DEF Present
        <3>2. pc' = "out_buf" => cur'.ip = ip_call'.ip
            BY <1>4 DEF Return, NoCall
        <3>3. frag'[handed'].of = txbuf'.of
            BY <1>2
        <3> QED BY <3>1, <3>2, <3>3
    <2>3. ASSUME NEW p \in Handed'
          PROVE  /\ dest'[p] \in Ip
                 /\ IF Present(p)'
                    THEN /\ frag'[p].call = ip_id' /\ dest'[p] = ip_call'.ip
                         /\ frag'[p].started = current'.started
                    ELSE frag'[p].call < ip_id'
        <3>1. CASE p = h
            BY <1>2, <1>3, <1>5, <1>6, <1>7, <3>1
        <3>2. CASE p \in Handed
            BY <1>5, <1>6, <3>2 DEF HistInv, CallsInv
        <3> QED BY <1>6, <3>1, <3>2
    <2> QED BY <2>1, <2>2, <2>3 DEF CallsInv
<1>12. OverwrittenInv'
    BY <1>4, <1>5 DEF HistInv, OverwrittenInv, Unknown
<1>13. InsideInv'
    <2>1. SUFFICES ASSUME NEW p \in Handed', FromArp(p)', Alive(p)'
                   PROVE  asked'[dest'[p]] > frag'[p].started + ARP_MIN_INTERVAL
        BY DEF InsideInv
    <2>2. CASE p = h
        <3>1. ~Unknown(ip) /\ txbuf.of = NULL
            BY <1>2, <1>8, <1>10, <2>1, <2>2 DEF FromArp
        <3> QED BY <3>1 DEF HistInv, OverwrittenInv
    <2>3. CASE p \in Handed
        BY <1>4, <1>6, <1>10, <2>1, <2>3 DEF FromArp, HistInv, InsideInv
    <2> QED BY <1>6, <2>2, <2>3
<1>14. StalledInv'
    <2>1. SUFFICES ASSUME ip_id \notin slow, ~(Unknown(ip) /\ Blocked(ip)),
                          NEW p \in Handed', Present(p),
                          ~(pc' = "out_buf" /\ p = h)
                   PROVE  sends'[p] > 0
        BY <1>2, <1>4, <1>5 DEF StalledInv, Unknown, Blocked
    <2>2. CASE p = h
        BY <1>4, <1>9, <2>1, <2>2
    <2>3. CASE p \in Handed
        BY <1>9, <2>1, <2>3 DEF HistInv, StalledInv
    <2> QED BY <1>6, <2>2, <2>3
<1>15. BeforeInv'
    <2>1. SUFFICES ASSUME NEW p \in Handed', NEW q \in Handed', p < q,
                          frag'[p].call = frag'[q].call, frag'[q].call \notin slow,
                          Alive(q)'
                   PROVE  sends'[p] > 0
        BY DEF BeforeInv
    <2>2. p \in Handed
        BY <1>2, <1>6, <2>1 DEF Handed
    <2>3. CASE q \in Handed
        BY <1>6, <1>9, <1>10, <2>1, <2>2, <2>3 DEF HistInv, BeforeInv
    <2>4. CASE q = h
        <3>1. frag[p].call = ip_id /\ ip_id \notin slow
            BY <1>2, <1>6, <2>1, <2>2, <2>4
        <3>2. Present(p)
            BY <1>3, <2>2, <3>1 DEF HistInv, CallsInv
        <3>3. ~Unknown(ip)
            BY <1>8, <1>10, <2>1, <2>4
        <3>4. sends[p] > 0
            BY <2>2, <3>1, <3>2, <3>3 DEF HistInv, StalledInv
        <3> QED BY <1>9, <2>2, <3>4
    <2> QED BY <1>6, <2>3, <2>4
<1> QED BY <1>11, <1>12, <1>13, <1>14, <1>15 DEF HistInv

(* With room in arp_buf a packet is stored. *)
LEMMA StoredUnlessFull ==
    ASSUME TypeOK, MapsInv, NEW ip \in Ip, NEW p \in Packet,
           \A f \in Waiting : f.key # ip, now' = now,
           arp_buf' = map_set(arp_buf, ip, p, now, now)
    PROVE  IF arp_buf.size = buf_size
           THEN arp_buf' = arp_buf
           ELSE Waiting' = Waiting \cup {[key |-> ip, value |-> p, time |-> now]}
<1>1. buf_size \in Nat /\ ARP_MIN_INTERVAL \in Nat
    BY ArpAssumption
<1>2. now \in Nat /\ now # 0 /\ now <= now /\ arp_buf.max_size = buf_size
    BY <1>1, Maps, TypedMap
<1>3. Absent(arp_buf, ip, now)
    BY DEF Absent, Waiting
<1>4. \/ Bound(arp_buf, arp_buf', ip, p, now, now)
      \/ Refused(arp_buf, arp_buf', ip, now, now)
    BY <1>1, <1>2, Maps, EntriesSet
<1>5. CASE Bound(arp_buf, arp_buf', ip, p, now, now)
    <2>1. map_set_ret(arp_buf, ip, now, now) = 0 /\ arp_buf.size # buf_size
        BY <1>2, <1>3, <1>5 DEF Bound
    <2> QED BY <1>3, <2>1, Stored
<1>6. CASE Refused(arp_buf, arp_buf', ip, now, now)
    BY <1>2, <1>6 DEF Refused
<1> QED BY <1>4, <1>5, <1>6

(* What arp_out_buf does within ip_out: nothing, if a packet waits, and    *)
(* otherwise it asks, and stores its packet if there is room.              *)
LEMMA OutBufCases ==
    ASSUME IInv, CallsInv, ArpOut
    PROVE  /\ pc = "out_buf" /\ pc' = "idle" /\ cur.pkt = handed /\ handed \in Handed
           /\ cur.ip = ip_call.ip /\ ip_call.ip \in Ip /\ dest[handed] = ip_call.ip
           /\ UNCHANGED <<arp_table, now, handed, dest, sends,
                          ip_pc, ip_call, ip_id, frag, current, slow>>
           /\ \/ /\ \E f \in Waiting : f.key = ip_call.ip
                 /\ UNCHANGED <<arp_buf, asked, txbuf>>
              \/ /\ \A f \in Waiting : f.key # ip_call.ip
                 /\ asked' = [asked EXCEPT ![ip_call.ip] = now]
                 /\ IF arp_buf.size = buf_size
                    THEN arp_buf' = arp_buf
                    ELSE Waiting' = Waiting \cup {[ key |-> ip_call.ip, value |-> handed,
                                                    time |-> now ]}
<1>1. /\ pc = "out_buf" /\ arp_out_buf /\ BuildsArpFrame
      /\ UNCHANGED <<ip_pc, ip_call, ip_id, frag, current, slow>>
    BY DEF ArpOut, arp_out_buf
<1>2. TypeOK /\ MapsInv
    BY DEF IInv
<1>3. /\ cur.pkt = handed /\ handed \in Packet /\ handed \in Handed
      /\ cur.ip \in Ip /\ dest[handed] = cur.ip /\ cur.ip = ip_call.ip
    BY <1>1, <1>2, ArpAssumption DEF TypeOK, Packet, Handed, CallsInv
<1>4. pc' = "idle" /\ UNCHANGED <<arp_table, now, handed, dest, sends>>
    BY <1>1 DEF arp_out_buf, Return
<1>5. CASE /\ map_get(arp_buf, cur.ip, now) # NULL /\ frame' = NULL
           /\ UNCHANGED <<arp_buf, asked>>
    <2>1. \E f \in Waiting : f.key = cur.ip
        BY <1>2, <1>5, GetWaiting
    <2>2. txbuf' = txbuf
        BY <1>1, <1>5 DEF BuildsArpFrame
    <2> QED BY <1>1, <1>3, <1>4, <1>5, <2>1, <2>2
<1>6. CASE /\ map_get(arp_buf, cur.ip, now) = NULL
           /\ arp_buf' = map_set(arp_buf, cur.ip, cur.pkt, now, now)
           /\ asked' = [asked EXCEPT ![cur.ip] = now]
    <2>1. \A f \in Waiting : f.key # cur.ip
        BY <1>2, <1>6, GetWaiting DEF Absent, Waiting
    <2>2. IF arp_buf.size = buf_size
          THEN arp_buf' = arp_buf
          ELSE Waiting' = Waiting \cup {[ key |-> cur.ip, value |-> handed, time |-> now ]}
        BY <1>2, <1>3, <1>4, <1>6, <2>1, StoredUnlessFull
    <2> QED BY <1>1, <1>3, <1>4, <1>6, <2>1, <2>2
<1> QED BY <1>1, <1>5, <1>6 DEF arp_out_buf

LEMMA OutHist ==
    ASSUME IInv, IpIInv, HistInv, ArpOut
    PROVE  HistInv'
<1> DEFINE ip == ip_call.ip
           new == [key |-> ip, value |-> handed, time |-> now]
<1>1. /\ pc = "out_buf" /\ pc' = "idle" /\ cur.pkt = handed /\ handed \in Handed
      /\ cur.ip = ip /\ ip \in Ip /\ dest[handed] = ip
      /\ UNCHANGED <<arp_table, now, handed, dest, sends,
                     ip_pc, ip_call, ip_id, frag, current, slow>>
      /\ \/ /\ \E f \in Waiting : f.key = ip
            /\ UNCHANGED <<arp_buf, asked, txbuf>>
         \/ /\ \A f \in Waiting : f.key # ip
            /\ asked' = [asked EXCEPT ![ip] = now]
            /\ IF arp_buf.size = buf_size
               THEN arp_buf' = arp_buf
               ELSE Waiting' = Waiting \cup {new}
    BY OutBufCases DEF HistInv
<1>2. /\ Handed' = Handed /\ Known' = Known
      /\ \A p : Present(p)' <=> Present(p)
    BY <1>1 DEF Handed, Known, Present
<1>3. arp_buf' = arp_buf => Waiting' = Waiting
    BY <1>1 DEF Waiting
<1>4. /\ ip_pc # "idle" /\ Present(handed) /\ frag[handed].of = txbuf.of
      /\ frag[handed].call = ip_id /\ frag[handed].started = current.started
      /\ current.started <= now
    BY <1>1 DEF HistInv, CallsInv, Present
<1>5. Unknown(ip)
    BY <1>1 DEF IInv, OutInv, Absent, Unknown, Known
<1>6. Blocked(ip)'
    <2>1. CASE Waiting' = Waiting \cup {new}
        <3>1. new \in Waiting' /\ new.key = ip
            BY <2>1
        <3> QED BY <1>1, <3>1 DEF Blocked
    <2>2. CASE /\ arp_buf' = arp_buf
               /\ arp_buf.size = buf_size \/ \E f \in Waiting : f.key = ip
        BY <1>1, <1>3, <2>2 DEF Blocked
    <2> QED BY <1>1, <2>1, <2>2
<1>7. now \in Nat /\ asked \in [Ip -> Nat] /\ ARP_MIN_INTERVAL \in Nat
    BY HandedIn DEF IInv
<1>8. CallsInv'
    BY <1>1, <1>2 DEF HistInv, CallsInv
<1>9. OverwrittenInv'
    <2>1. CASE UNCHANGED <<arp_buf, asked, txbuf>>
        BY <1>1, <1>2, <1>3, <2>1 DEF HistInv, OverwrittenInv, Unknown
    <2>2. CASE arp_buf.size = buf_size /\ arp_buf' = arp_buf
        BY <1>1, <1>2, <1>5, <2>2 DEF OverwrittenInv, Unknown
    <2>3. CASE Waiting' = Waiting \cup {new}
        <3>1. new \in Waiting' /\ new.key = ip /\ new.time >= current.started
            BY <1>4, <1>7, <2>3
        <3>2. \E f \in Waiting' : f.key = ip /\ f.time >= current.started
            BY <3>1
        <3> QED BY <1>1, <1>2, <1>5, <3>2 DEF OverwrittenInv, Unknown
    <2> QED BY <1>1, <2>1, <2>2, <2>3
<1>10. InsideInv'
    <2>1. SUFFICES ASSUME NEW p \in Handed, frag[p].of = NULL, Alive(p)'
                   PROVE  asked'[dest[p]] > frag[p].started + ARP_MIN_INTERVAL
        BY <1>1, <1>2 DEF InsideInv, FromArp
    <2>2. dest[p] \in Ip /\ p \in Packet /\ p <= handed
        BY HandedIn DEF HistInv, CallsInv, IInv, Handed
    <2>3. frag[p].started \in Nat
        BY <2>2 DEF IpIInv, FragOK, Fragment
    <2>4. asked[dest[p]] <= asked'[dest[p]]
        BY <1>1, <1>7, <2>2 DEF IInv, AskInv
    <2>5. CASE Alive(p)
        <3>1. asked[dest[p]] > frag[p].started + ARP_MIN_INTERVAL
            BY <2>1, <2>5 DEF HistInv, InsideInv, FromArp
        <3>2. asked[dest[p]] \in Nat /\ asked'[dest[p]] \in Nat
            BY <1>1, <1>7, <2>2
        <3> QED BY <1>7, <2>3, <2>4, <3>1, <3>2
    <2>6. CASE ~Alive(p)
        <3>1. /\ p = handed /\ Waiting' = Waiting \cup {new}
              /\ arp_buf.size # buf_size /\ \A f \in Waiting : f.key # ip
              /\ asked' = [asked EXCEPT ![ip] = now]
            BY <1>1, <1>3, <2>1, <2>6 DEF Alive
        <3>2. now > current.started + ARP_MIN_INTERVAL
            BY <1>4, <2>1, <3>1 DEF HistInv, OverwrittenInv
        <3>3. asked'[dest[p]] = now
            BY <1>1, <1>7, <3>1
        <3> QED BY <1>4, <3>1, <3>2, <3>3
    <2> QED BY <2>5, <2>6
<1>11. StalledInv'
    BY <1>1, <1>2, <1>5, <1>6 DEF StalledInv, Unknown
<1>12. BeforeInv'
    <2>1. SUFFICES ASSUME NEW p \in Handed, NEW q \in Handed, p < q,
                          frag[p].call = frag[q].call, frag[q].call \notin slow,
                          Alive(q)'
                   PROVE  sends[p] > 0
        BY <1>1, <1>2 DEF BeforeInv
    <2>2. CASE Alive(q)
        BY <2>1, <2>2 DEF HistInv, BeforeInv
    <2>3. CASE ~Alive(q)
        <3>1. q = handed /\ ~Blocked(ip)
            BY <1>1, <1>3, <2>1, <2>3 DEF Alive, Blocked
        <3>2. Present(p)
            <4>1. frag[p].call = ip_id /\ ip_id \in Nat
                BY <1>4, <2>1, <3>1 DEF IpIInv, CallOK
            <4> QED BY <4>1 DEF HistInv, CallsInv
        <3>3. p # handed /\ ip_id \notin slow
            <4>1. p \in Nat /\ handed \in Nat
                BY HandedIn DEF IInv
            <4> QED BY <1>4, <2>1, <3>1, <4>1
        <3> QED BY <1>4, <3>1, <3>2, <3>3 DEF HistInv, StalledInv
    <2> QED BY <2>2, <2>3
<1> QED BY <1>8, <1>9, <1>10, <1>11, <1>12 DEF HistInv

(* What arp_in sends or lets expire could still go out before. *)
LEMMA InHist ==
    ASSUME IInv, IpIInv, HistInv, ArpIn
    PROVE  HistInv'
<1>1. TypeOK /\ MapsInv
    BY DEF IInv
<1>2. /\ ip_pc = "idle" /\ ip_pc' = "idle"
      /\ UNCHANGED <<ip_id, frag, current, slow, handed, dest, asked>>
      /\ pc' # "out_buf"
    <2>1. ip_pc = "idle" /\ UNCHANGED <<ip_pc, ip_id, frag, current, slow>>
        BY DEF ArpIn
    <2>2. CASE \E ip \in Ip, mac \in Mac, asks \in BOOLEAN : arp_in(ip, mac, asks)
        BY <2>1, <2>2 DEF arp_in
    <2>3. CASE arp_in_lookup
        BY <2>1, <2>3 DEF arp_in_lookup, Return
    <2>4. CASE arp_in_delete
        BY <2>1, <2>4 DEF arp_in_delete, Return, history
    <2> QED BY <2>2, <2>3, <2>4 DEF ArpIn
<1>3. /\ Waiting' \subseteq Waiting
      /\ \A p \in Handed : sends'[p] > 0 => Alive(p)
      /\ \A p \in Handed : sends[p] > 0 => sends'[p] > 0
    <2>1. ASSUME NEW ip \in Ip, NEW mac \in Mac, NEW asks \in BOOLEAN,
                 arp_in(ip, mac, asks)
          PROVE  Waiting' \subseteq Waiting /\ sends' = sends
        <3>1. now' \in Nat /\ now <= now' /\ arp_buf' = arp_buf /\ sends' = sends
            BY <1>1, <2>1, ArpAssumption DEF arp_in, TypeOK
        <3> QED BY <1>1, <3>1, WaitingLater
    <2>2. CASE arp_in_delete
        <3>1. /\ arp_buf' = map_delete(arp_buf, cur.ip, now) /\ now' = now
              /\ sends' = sends
            BY <2>2 DEF arp_in_delete, history
        <3>2. Waiting' = {f \in Waiting : f.key # cur.ip}
            BY <1>1, <3>1, Deleted
        <3> QED BY <3>1, <3>2 DEF Alive
    <2>3. CASE arp_in_lookup
        <3>1. Waiting' = Waiting
            BY <1>1, <2>3, SameWaiting DEF arp_in_lookup
        <3>2. sends \in [Packet -> Nat] /\ Handed \subseteq Packet
            BY <1>1, HandedIn
        <3>3. CASE sends' = sends
            BY <3>1, <3>3 DEF Alive
        <3>4. CASE /\ map_get(arp_buf, cur.ip, now) # NULL
                   /\ SendData(map_get(arp_buf, cur.ip, now), cur.mac)
            <4>1. PICK f \in Waiting : f.value = map_get(arp_buf, cur.ip, now)
                BY <1>1, <3>4, GetWaiting
            <4>2. f.value \in Packet /\ sends' = [sends EXCEPT ![f.value] = @ + 1]
                BY <1>1, <3>4, <4>1, WaitingType DEF SendData
            <4>3. \A p \in Packet : sends'[p] = IF p = f.value THEN sends[p] + 1 ELSE sends[p]
                BY <3>2, <4>2
            <4> QED BY <3>1, <3>2, <4>1, <4>3 DEF Alive
        <3> QED BY <2>3, <3>3, <3>4 DEF arp_in_lookup
    <2> QED BY <2>1, <2>2, <2>3 DEF ArpIn, Alive
<1>4. \A p \in Handed : Alive(p)' => Alive(p)
    BY <1>3 DEF Alive
<1>5. InsideInv' /\ BeforeInv'
    BY <1>2, <1>3, <1>4, NoneRevived DEF HistInv
<1>6. CallsInv'
    BY <1>2 DEF HistInv, CallsInv, Present, Handed
<1>7. OverwrittenInv' /\ StalledInv'
    BY <1>2 DEF OverwrittenInv, StalledInv
<1> QED BY <1>5, <1>6, <1>7 DEF HistInv

(* Time takes entries away, and makes the call in progress a slow one. *)
LEMMA ClockHist ==
    ASSUME IInv, IpIInv, HistInv, Clock
    PROVE  HistInv'
<1>1. TypeOK /\ MapsInv
    BY DEF IInv
<1>2. /\ now \in Nat /\ now' = now + 1 /\ ARP_MIN_INTERVAL \in Nat
      /\ UNCHANGED <<arp_table, arp_buf, pc, cur, handed, dest, sends, asked,
                     txbuf, ip_pc, ip_call, ip_id, frag, current>>
      /\ slow' = IF ip_pc = "idle" THEN slow ELSE slow \cup {ip_id}
    BY <1>1, HandedIn DEF Clock, Tick, history
<1>3. now' \in Nat /\ now <= now' /\ current.started \in Nat
    BY <1>2 DEF IpIInv, BufOK
<1>4. Known' \subseteq Known
    BY <1>1, <1>2, <1>3, KnownLater
<1>5. Waiting' = {f \in Waiting : now' <= f.time + ARP_MIN_INTERVAL}
    BY <1>1, <1>2, <1>3, WaitingLater
<1>6. Handed' = Handed /\ \A p : Present(p)' <=> Present(p)
    BY <1>2 DEF Handed, Present
<1>7. CallsInv'
    BY <1>2, <1>3, <1>6 DEF HistInv, CallsInv
<1>8. OverwrittenInv'
    <2>1. SUFFICES ASSUME ip_pc # "idle", txbuf.of = NULL
                   PROVE  /\ \A e \in Known' : e.key # ip_call.ip
                          /\ \/ arp_buf.size = buf_size
                             \/ now' > current.started + ARP_MIN_INTERVAL
                             \/ \E f \in Waiting' :
                                  f.key = ip_call.ip /\ f.time >= current.started
        BY <1>2 DEF OverwrittenInv, Unknown
    <2>2. \A e \in Known' : e.key # ip_call.ip
        BY <1>4, <2>1 DEF HistInv, OverwrittenInv, Unknown
    <2>3. CASE now > current.started + ARP_MIN_INTERVAL
        BY <1>2, <1>3, <2>2, <2>3
    <2>4. ASSUME NEW f \in Waiting, f.key = ip_call.ip, f.time >= current.started
          PROVE  \/ now' > current.started + ARP_MIN_INTERVAL
                 \/ f \in Waiting'
        <3>1. f.time \in Nat
            BY <1>1, WaitingType
        <3> QED BY <1>2, <1>3, <1>5, <2>4, <3>1
    <2> QED BY <2>1, <2>2, <2>3, <2>4 DEF HistInv, OverwrittenInv
<1>9. StalledInv'
    BY <1>2 DEF StalledInv
<1>10. InsideInv' /\ BeforeInv'
    BY <1>2, <1>5, NoneRevived DEF HistInv, Alive
<1> QED BY <1>7, <1>8, <1>9, <1>10 DEF HistInv

LEMMA NextHist == IInv /\ IpIInv /\ HistInv /\ [IpNext]_allVars => HistInv'
<1> SUFFICES ASSUME IInv, IpIInv, HistInv, [IpNext]_allVars PROVE HistInv'
    OBVIOUS
<1>1. CASE UNCHANGED allVars
    <2>1. UNCHANGED <<arp_table, arp_buf, now, pc, cur, handed, dest, sends, asked>>
        BY <1>1 DEF allVars, vars, code, history
    <2>2. UNCHANGED <<txbuf, ip_pc, ip_call, ip_id, frag, current, slow>>
        BY <1>1 DEF allVars, ipVars
    <2>3. Known' = Known /\ Waiting' = Waiting /\ Handed' = Handed
        BY <2>1 DEF Known, Waiting, Handed
    <2> QED BY <2>1, <2>2, <2>3
        DEF HistInv, CallsInv, OverwrittenInv, InsideInv, StalledInv, BeforeInv,
            Present, Unknown, Blocked, Alive, FromArp
<1>2. CASE ip_out_fragment
    BY <1>2, FragmentHist DEF ip_out_fragment
<1>3. CASE ip_out_last
    BY <1>3, FragmentHist DEF ip_out_last
<1>4. CASE IpNext /\ ~ip_out_fragment /\ ~ip_out_last
    BY <1>4, CallHist, AdvanceHist, EndHist, OutHist, InHist, ClockHist DEF IpNext
<1> QED BY <1>1, <1>2, <1>3, <1>4

LEMMA HistHolds == IpSpec => [](IInv /\ IpIInv /\ HistInv)
    BY BothHold, HistInit, NextHist, PTL DEF IpSpec

(* A fragment that carries an ARP frame goes out, or waits to, only if the *)
(* call of ip_out that made it took longer than ARP_MIN_INTERVAL.          *)
THEOREM ArpFrameStaysInsideHolds == IpSpec => []ArpFrameStaysInside
<1>1. IInv /\ IpIInv /\ HistInv => ArpFrameStaysInside
    <2> SUFFICES ASSUME IInv, IpIInv, HistInv, NEW p \in Handed, FromArp(p),
                        sends[p] > 0 \/ \E ip \in Ip : Pending(ip) = p
                 PROVE  asked[dest[p]] - frag[p].started > ARP_MIN_INTERVAL
        BY DEF ArpFrameStaysInside
    <2>1. TypeOK /\ MapsInv
        BY DEF IInv
    <2>2. p \in Packet /\ p <= handed /\ dest[p] \in Ip
        BY <2>1, HandedIn DEF HistInv, CallsInv, Handed
    <2>3. /\ asked[dest[p]] \in Nat /\ frag[p].started \in Nat
          /\ ARP_MIN_INTERVAL \in Nat
        BY <2>1, <2>2, HandedIn DEF IpIInv, FragOK, Fragment
    <2>4. Alive(p)
        <3>1. ASSUME NEW ip \in Ip, Pending(ip) = p
              PROVE  \E f \in Waiting : f.value = p
            <4>1. map_get(arp_buf, ip, now) # NULL
                BY <2>2, <3>1, ArpAssumption DEF Pending, Packet
            <4> QED BY <2>1, <3>1, <4>1, GetWaiting DEF Pending
        <3> QED BY <3>1 DEF Alive
    <2>5. asked[dest[p]] > frag[p].started + ARP_MIN_INTERVAL
        BY <2>4 DEF HistInv, InsideInv
    <2> QED BY <2>3, <2>5
<1> QED BY <1>1, HistHolds, PTL

(* No fragment goes out without those before it, unless the second changes *)
(* within ip_out.                                                          *)
THEOREM PrefixSentHolds == IpSpec => []PrefixSent
<1>1. HistInv => PrefixSent
    BY DEF HistInv, BeforeInv, Alive, PrefixSent
<1> QED BY <1>1, HistHolds, PTL

=============================================================================
