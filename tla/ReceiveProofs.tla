--------------------------- MODULE ReceiveProofs ---------------------------
(***************************************************************************)
(* Theorems about the receiving path, for every payload, every set of      *)
(* frames and every table of ports.                                        *)
(*                                                                         *)
(* The invariant says at each handler where in the frame rxbuf stands and  *)
(* what src_ip points to; PlaceInv makes no statement about a datagram     *)
(* whose total_len does not include its header.                            *)
(***************************************************************************)
EXTENDS Receive, MapLemmas

Window(offset, len) == [data |-> base + offset, len |-> len]

InsideInv == pc # "overrun" => Inside(rxbuf)

TableInv ==
    /\ Sound(udp_table, 1)
    /\ udp_table.size = Cardinality(Occupied(udp_table))
    /\ \A p \in Port : map_get(udp_table, p, 1) = opened[p]

(* While a frame is handled nothing has come of it, and only between the   *)
(* two halves of udp_checksum a pseudo header is in the way.               *)
CallInv ==
    /\ pc # "idle" => frame \in Frames /\ out = Nothing
    /\ pc # "udp_restore" => pseudo = NULL
    /\ pc \in {"udp_checksum", "udp_restore", "udp_dispatch"} => cleared

Datagram(protocol) ==
    /\ frame.type = NET_PROTOCOL_IP /\ Accepted(frame)
    /\ frame.protocol = protocol
    /\ src = 26

(* Where rxbuf stands in a datagram as udp_checksum leaves it for the sum: *)
(* with room a byte has been added to an odd length.                       *)
Padded ==
    /\ flag = (frame.total_len % 2 = 1)
    /\ rxbuf.data = base + 22
    /\ frame.total_len >= 28
    /\ rxbuf.len \in {frame.total_len - 8, frame.total_len - 7}
    /\ Room(frame) => rxbuf.len = IF flag THEN frame.total_len - 7
                                  ELSE frame.total_len - 8

PlaceInv ==
    /\ pc = "ethernet_in" => rxbuf = Window(0, frame.size)
    /\ pc \in {"arp_in", "ip_in"} =>
         /\ frame.size >= 14 /\ rxbuf = Window(14, frame.size - 14)
         /\ frame.type = IF pc = "arp_in" THEN NET_PROTOCOL_ARP ELSE NET_PROTOCOL_IP
    /\ pc \in {"icmp_in", "udp_in", "udp_checksum"} /\ EthernetII(frame) =>
         /\ Datagram(IF pc = "icmp_in" THEN NET_PROTOCOL_ICMP ELSE NET_PROTOCOL_UDP)
         /\ frame.total_len >= 20 => rxbuf = Window(34, frame.total_len - 20)
    /\ pc = "udp_checksum" => rxbuf.len >= 8
    /\ pc = "udp_restore" /\ EthernetII(frame) =>
         /\ Datagram(NET_PROTOCOL_UDP)
         /\ frame.total_len >= 20 => Padded
    /\ pc = "udp_dispatch" /\ EthernetII(frame) =>
         /\ Datagram(NET_PROTOCOL_UDP)
         /\ frame.total_len >= 20 =>
              /\ rxbuf.data = base + 34 /\ frame.total_len >= 28
              /\ Room(frame) => rxbuf.len = frame.total_len - 20

(* A plain datagram that got past the length check of udp_in, and past the *)
(* sum.                                                                    *)
SumInv ==
    /\ pc \in {"udp_checksum", "udp_restore", "udp_dispatch"} =>
         (Plain(frame) => frame.total_len >= 28
                            /\ frame.udp_len = frame.total_len - 20)
    /\ pc \in {"udp_restore", "udp_dispatch"} =>
         (Plain(frame) /\ Room(frame) => sum_ok = frame.l4_ok)

IInv ==
    /\ TypeOK /\ InsideInv /\ TableInv /\ CallInv /\ PlaceInv /\ SumInv
    /\ Outcome /\ ToTheSender /\ LeftFartherOn

-----------------------------------------------------------------------------
(* Every call of buf.c leaves the data inside the payload. *)
LEMMA BufSafe ==
    ASSUME NEW b \in BufType, Inside(b), NEW n \in Nat
    PROVE  /\ buf_add_header(b, n) \in BufType /\ Inside(buf_add_header(b, n))
           /\ buf_remove_header(b, n) \in BufType /\ Inside(buf_remove_header(b, n))
           /\ buf_add_padding(b, n) \in BufType /\ Inside(buf_add_padding(b, n))
           /\ buf_remove_padding(b, n) \in BufType /\ Inside(buf_remove_padding(b, n))
<1>1. BUF_MAX_LEN \in Nat
    BY BufAssumption
<1>2. b.data \in Nat /\ b.len \in Nat /\ b.data + b.len <= BUF_MAX_LEN
    BY <1>1 DEF BufType, Inside
<1>3. b = [data |-> b.data, len |-> b.len]
    BY DEF BufType
<1>4. \A d, l \in Nat :
        d + l <= BUF_MAX_LEN => /\ [data |-> d, len |-> l] \in BufType
                                /\ Inside([data |-> d, len |-> l])
    BY <1>1 DEF BufType, Inside
<1>5. buf_add_header(b, n) \in BufType /\ Inside(buf_add_header(b, n))
    BY <1>1, <1>2, <1>4 DEF buf_add_header
<1>6. buf_remove_header(b, n) \in BufType /\ Inside(buf_remove_header(b, n))
    BY <1>1, <1>2, <1>4 DEF buf_remove_header
<1>7. buf_add_padding(b, n) \in BufType /\ Inside(buf_add_padding(b, n))
    BY <1>1, <1>2, <1>3, <1>4 DEF buf_add_padding
<1>8. buf_remove_padding(b, n) \in BufType /\ Inside(buf_remove_padding(b, n))
    BY <1>1, <1>2, <1>3, <1>4 DEF buf_remove_padding
<1> QED BY <1>5, <1>6, <1>7, <1>8

LEMMA FrameType ==
    ASSUME NEW f \in Frames
    PROVE  /\ f.size \in Nat /\ f.size >= 1 /\ f.size <= ETHERNET_MAX_TRANSPORT_UNIT + 14
           /\ f.type \in Nat /\ f.protocol \in Nat /\ f.ihl \in Nat
           /\ f.total_len \in Nat /\ f.udp_len \in Nat
           /\ f.l4_ok \in BOOLEAN /\ f.port \in Port
<1>1. /\ f.size \in 1 .. ETHERNET_MAX_TRANSPORT_UNIT + 14
      /\ f.type \in Nat /\ f.protocol \in Nat /\ f.ihl \in Nat
      /\ f.total_len \in Nat /\ f.udp_len \in Nat
    BY FrameAssumption
<1>2. f.port \in Port
    BY FrameAssumption
<1>3. f.l4_ok \in BOOLEAN
    BY VerdictAssumption, Zenon
<1>4. /\ f.size \in Nat /\ f.size >= 1 /\ f.size <= ETHERNET_MAX_TRANSPORT_UNIT + 14
      /\ f.type \in Nat /\ f.protocol \in Nat /\ f.ihl \in Nat
      /\ f.total_len \in Nat /\ f.udp_len \in Nat
    BY <1>1, ReceiveAssumption
<1> QED BY <1>2, <1>3, <1>4, Zenon

-----------------------------------------------------------------------------
(* The table of ports. *)
LEMMA Table ==
    ASSUME TypeOK, TableInv
    PROVE  /\ udp_table \in MapType(Port, Handler, udp_size, 0)
           /\ IsMap(udp_table) /\ udp_table.timeout = 0
           /\ KeysUnique(udp_table, 1)
           /\ \A e \in Entries(udp_table, 1) :
                e \in [key : Port, value : Handler, time : Nat \ {0}]
<1>1. udp_table \in MapType(Port, Handler, udp_size, 0) /\ udp_size \in Nat
    BY ReceiveAssumption DEF TypeOK
<1>2. IsMap(udp_table) /\ udp_table.timeout = 0
    BY <1>1, TypedMap
<1>3. \A e \in Entries(udp_table, 1) :
        e \in [key : Port, value : Handler, time : Nat \ {0}]
    BY <1>1, EntryType DEF TableInv
<1> QED BY <1>1, <1>2, <1>3 DEF TableInv, Sound

(* A search for one key finds the same in two maps that have the same      *)
(* entries for it.                                                         *)
LEMMA SameEntries ==
    ASSUME NEW m, NEW n, NEW k, IsMap(m), IsMap(n), KeysUnique(m, 1), KeysUnique(n, 1),
           \A e : e.key = k => (e \in Entries(m, 1) <=> e \in Entries(n, 1))
    PROVE  map_get(m, k, 1) = map_get(n, k, 1)
<1>1. CASE \E e \in Entries(m, 1) : e.key = k
    BY <1>1, GetEntry
<1>2. CASE ~ \E e \in Entries(m, 1) : e.key = k
    BY <1>2, GetEntry DEF Absent
<1> QED BY <1>1, <1>2

LEMMA OpenPort ==
    ASSUME TypeOK, TableInv, NEW port \in Port, NEW handler \in Handler,
           udp_open(port, handler)
    PROVE  TableInv' /\ udp_table' \in MapType(Port, Handler, udp_size, 0)
<1> DEFINE m == udp_table
           n == map_set(udp_table, port, handler, 1, 1)
<1>1. NULL \notin Port \cup Handler /\ udp_size \in Nat
    BY ReceiveAssumption
<1>2. n \in MapType(Port, Handler, udp_size, 0) /\ Sound(n, 1)
    BY <1>1, Table, SoundSet DEF TableInv
<1>3. n.size = Cardinality(Occupied(n))
    BY <1>1, Table, ExactSet DEF TableInv
<1>4. IsMap(n) /\ KeysUnique(n, 1)
    BY <1>1, <1>2, TypedMap DEF Sound
<1>5. \/ Bound(m, n, port, handler, 1, 1)
      \/ Refused(m, n, port, 1, 1)
    BY <1>1, Table, EntriesSet DEF TableInv
<1>6. udp_table' = n
    BY DEF udp_open
<1>7. opened \in [Port -> Handler \cup {NULL}]
    BY DEF TypeOK
<1> HIDE DEF n
<1>8. ASSUME NEW p \in Port PROVE map_get(n, p, 1) = opened'[p]
    <2>1. CASE Bound(m, n, port, handler, 1, 1)
        <3>1. Entries(n, 1) = {e \in Entries(m, 1) : e.key # port}
                                \cup {[key |-> port, value |-> handler, time |-> 1]}
            BY <2>1, Table DEF Bound, Survivors, Lasts
        <3>2. opened' = [opened EXCEPT ![port] = handler]
            BY <2>1 DEF Bound, udp_open
        <3>3. CASE p = port
            <4> DEFINE e == [key |-> port, value |-> handler, time |-> 1]
            <4>1. e \in Entries(n, 1) /\ e.key = p /\ e.value = handler
                BY <3>1, <3>3
            <4>2. map_get(n, p, 1) = handler
                BY <1>4, <4>1, GetEntry
            <4> QED BY <1>7, <3>2, <3>3, <4>2
        <3>4. CASE p # port
            <4>1. map_get(m, p, 1) = map_get(n, p, 1)
                BY <1>4, <3>1, <3>4, Table, SameEntries
            <4> QED BY <1>7, <3>2, <3>4, <4>1 DEF TableInv
        <3> QED BY <3>3, <3>4
    <2>2. CASE Refused(m, n, port, 1, 1)
        <3>1. n = m /\ map_set_ret(m, port, 1, 1) = -1
            BY <2>2 DEF Refused
        <3>2. opened' = [opened EXCEPT ![port] = opened[port]]
            BY <3>1, -1 # 0 DEF udp_open
        <3>3. opened' = opened
            BY <1>7, <3>2
        <3> QED BY <3>1, <3>3 DEF TableInv
    <2> QED BY <1>5, <2>1, <2>2
<1> QED BY <1>2, <1>3, <1>6, <1>8 DEF TableInv

LEMMA ClosePort ==
    ASSUME TypeOK, TableInv, NEW port \in Port, udp_close(port)
    PROVE  TableInv' /\ udp_table' \in MapType(Port, Handler, udp_size, 0)
<1> DEFINE n == map_delete(udp_table, port, 1)
<1>1. NULL \notin Port \cup Handler /\ udp_size \in Nat
    BY ReceiveAssumption
<1>2. n \in MapType(Port, Handler, udp_size, 0) /\ Sound(n, 1)
    BY <1>1, Table, SoundDelete DEF TableInv
<1>3. n.size = Cardinality(Occupied(n))
    BY <1>1, Table, ExactDelete DEF TableInv
<1>4. IsMap(n) /\ KeysUnique(n, 1)
    BY <1>1, <1>2, TypedMap DEF Sound
<1>5. Entries(n, 1) = {e \in Entries(udp_table, 1) : e.key # port}
    BY <1>1, Table, EntriesDelete DEF TableInv, Removed
<1>6. udp_table' = n /\ opened' = [opened EXCEPT ![port] = NULL]
    BY DEF udp_close
<1>7. opened \in [Port -> Handler \cup {NULL}]
    BY DEF TypeOK
<1> HIDE DEF n
<1>8. ASSUME NEW p \in Port PROVE map_get(n, p, 1) = opened'[p]
    <2>1. CASE p = port
        <3>1. map_get(n, p, 1) = NULL
            BY <1>4, <1>5, <2>1, GetEntry DEF Absent
        <3> QED BY <1>6, <1>7, <2>1, <3>1
    <2>2. CASE p # port
        <3>1. map_get(udp_table, p, 1) = map_get(n, p, 1)
            BY <1>4, <1>5, <2>2, Table, SameEntries
        <3> QED BY <1>6, <1>7, <2>2, <3>1 DEF TableInv
    <2> QED BY <2>1, <2>2
<1> QED BY <1>2, <1>3, <1>6, <1>8 DEF TableInv

-----------------------------------------------------------------------------
LEMMA Protocols ==
    /\ {NET_PROTOCOL_ARP, NET_PROTOCOL_IP, NET_PROTOCOL_ICMP, NET_PROTOCOL_UDP}
         \subseteq Nat
    /\ NET_PROTOCOL_ARP # NET_PROTOCOL_IP
    /\ NET_PROTOCOL_ARP # NET_PROTOCOL_ICMP /\ NET_PROTOCOL_IP # NET_PROTOCOL_ICMP
    /\ NET_PROTOCOL_ARP # NET_PROTOCOL_UDP /\ NET_PROTOCOL_IP # NET_PROTOCOL_UDP
    /\ NET_PROTOCOL_ICMP # NET_PROTOCOL_UDP
    BY DEF NET_PROTOCOL_ARP, NET_PROTOCOL_IP, NET_PROTOCOL_ICMP, NET_PROTOCOL_UDP

(* What a handler may leave behind when it is done. *)
GoodEnd(buf, what) ==
    /\ EthernetII(frame) => what.kind \in {"nothing", "arp"} \/ what.to = "sender"
    /\ frame.size >= 14 /\ EthernetII(frame) =>
         \/ buf.data - base \in 14 .. 42
         \/ frame.type = NET_PROTOCOL_IP /\ Accepted(frame) /\ frame.total_len < 20
    /\ Plain(frame) /\ Room(frame) => what = Expected(frame, opened)

(* A step that ends a call keeps the invariant if what it leaves is good. *)
LEMMA Ends ==
    ASSUME IInv, NEW buf, NEW what, rxbuf' = buf, out' = what, pc' = "idle",
           UNCHANGED <<pseudo, flag, sum_ok, cleared, udp_table, history>>,
           src' \in {0, 6, 26}, buf \in BufType, Inside(buf), pseudo = NULL,
           GoodEnd(buf, what)
    PROVE  IInv'
<1>1. UNCHANGED <<pseudo, flag, sum_ok, cleared, udp_table, frame, base, opened>>
    BY DEF history
<1>2. TypeOK'
    <2>1. /\ rxbuf' \in BufType
          /\ udp_table' \in MapType(Port, Handler, udp_size, 0)
          /\ pc' \in Handlers \cup {"idle", "overrun"}
          /\ src' \in {0, 6, 26}
          /\ pseudo' \in 0 .. BUF_MAX_LEN \cup {NULL}
          /\ frame' \in Frames \cup {NULL}
          /\ base' \in 0 .. BUF_MAX_LEN
          /\ pc' \in Handlers => Inside(rxbuf')
          /\ opened' \in [Port -> Handler \cup {NULL}]
        BY <1>1 DEF IInv, TypeOK
    <2>2. flag' \in BOOLEAN /\ sum_ok' \in BOOLEAN /\ cleared' \in BOOLEAN
        BY <1>1, Zenon DEF IInv, TypeOK
    <2> QED BY <2>1, <2>2, Zenon DEF TypeOK
<1>3. InsideInv' /\ TableInv'
    BY <1>1 DEF IInv, InsideInv, TableInv
<1>4. CallInv' /\ PlaceInv' /\ SumInv'
    BY <1>1 DEF CallInv, PlaceInv, SumInv
<1>5. Outcome' /\ ToTheSender' /\ LeftFartherOn'
    BY <1>1 DEF GoodEnd, Outcome, ToTheSender, LeftFartherOn, Room
<1> QED BY <1>2, <1>3, <1>4, <1>5 DEF IInv

LEMMA Returns ==
    ASSUME IInv, NEW buf, NEW what, Return(buf, what), UNCHANGED <<udp_table, history>>,
           buf \in BufType, Inside(buf), pseudo = NULL, GoodEnd(buf, what)
    PROVE  IInv'
<1>1. /\ rxbuf' = buf /\ out' = what /\ pc' = "idle"
      /\ UNCHANGED <<pseudo, flag, sum_ok, cleared, udp_table, history>>
      /\ src' \in {0, 6, 26}
    BY DEF Return, local, IInv, TypeOK
<1> QED BY <1>1, Ends

(* What does not depend on the step: a call in progress has typed          *)
(* variables, and says nothing about what will come of the frame.          *)
LEMMA Proceeds ==
    ASSUME IInv, pc' \in Handlers, frame \in Frames, UNCHANGED <<udp_table, out, history>>,
           pc # "idle", rxbuf' \in BufType, Inside(rxbuf)', src' \in {0, 6, 26},
           pseudo' \in 0 .. BUF_MAX_LEN \cup {NULL},
           flag' \in BOOLEAN, sum_ok' \in BOOLEAN, cleared' \in BOOLEAN,
           pc' # "udp_restore" => pseudo' = NULL,
           pc' \in {"udp_checksum", "udp_restore", "udp_dispatch"} => cleared',
           PlaceInv', SumInv'
    PROVE  IInv'
<1>1. UNCHANGED <<udp_table, out, frame, base, opened>> /\ out = Nothing
    BY DEF history, IInv, CallInv
<1>2. pc' \in Handlers \cup {"idle", "overrun"} /\ pc' # "idle"
    BY DEF Handlers
<1>3. TypeOK'
    <2>1. /\ udp_table' \in MapType(Port, Handler, udp_size, 0)
          /\ frame' \in Frames \cup {NULL}
          /\ base' \in 0 .. BUF_MAX_LEN
          /\ opened' \in [Port -> Handler \cup {NULL}]
        BY <1>1 DEF IInv, TypeOK
    <2> QED BY <1>2, <2>1, Zenon DEF TypeOK
<1>4. InsideInv' /\ TableInv'
    BY <1>1 DEF IInv, InsideInv, TableInv
<1>5. CallInv'
    <2>1. (pc # "idle" => frame \in Frames /\ out = Nothing)'
        BY <1>1 DEF Nothing
    <2> QED BY <2>1, Zenon DEF CallInv
<1>6. Outcome' /\ ToTheSender' /\ LeftFartherOn'
    BY <1>2 DEF Outcome, ToTheSender, LeftFartherOn
<1> QED BY <1>3, <1>4, <1>5, <1>6 DEF IInv

(* The facts every step starts from. *)
LEMMA Numbers ==
    ASSUME TypeOK
    PROVE  /\ BUF_MAX_LEN \in Nat
           /\ base \in Nat /\ base <= BUF_MAX_LEN
           /\ rxbuf.data \in Nat /\ rxbuf.len \in Nat /\ rxbuf.data <= BUF_MAX_LEN
    BY BufAssumption DEF TypeOK, BufType

LEMMA RecvStep ==
    ASSUME IInv, NEW f \in Frames, driver_recv(f)
    PROVE  IInv'
<1>1. /\ pc = "idle" /\ frame' = f /\ base' = rxbuf.data /\ out' = Nothing
      /\ cleared' = FALSE
      /\ UNCHANGED <<udp_table, src, pseudo, flag, sum_ok, opened>>
      /\ pc' = IF rxbuf.data + f.size > BUF_MAX_LEN THEN "overrun" ELSE "ethernet_in"
    BY DEF driver_recv
<1>2. rxbuf' = [data |-> rxbuf.data, len |-> f.size]
    BY DEF driver_recv, IInv, TypeOK, BufType
<1>3. f.size \in Nat /\ f.size >= 1
    BY FrameType
<1>4. rxbuf' \in BufType /\ base' \in 0 .. BUF_MAX_LEN
    BY <1>1, <1>2, <1>3, Numbers DEF BufType, IInv
<1>5. pc' = "ethernet_in" => Inside(rxbuf')
    BY <1>1, <1>2, <1>3, Numbers DEF Inside, IInv
<1>6. TypeOK'
    <2>1. /\ udp_table' \in MapType(Port, Handler, udp_size, 0)
          /\ pc' \in Handlers \cup {"idle", "overrun"}
          /\ src' \in {0, 6, 26}
          /\ pseudo' \in 0 .. BUF_MAX_LEN \cup {NULL}
          /\ frame' \in Frames \cup {NULL}
          /\ pc' \in Handlers => Inside(rxbuf')
          /\ opened' \in [Port -> Handler \cup {NULL}]
        BY <1>1, <1>5 DEF IInv, TypeOK, Handlers
    <2>2. flag' \in BOOLEAN /\ sum_ok' \in BOOLEAN /\ cleared' \in BOOLEAN
        BY <1>1, Zenon DEF IInv, TypeOK
    <2> QED BY <1>4, <2>1, <2>2, Zenon DEF TypeOK
<1>7. InsideInv' /\ TableInv'
    BY <1>1, <1>5 DEF IInv, InsideInv, TableInv
<1>8. CallInv'
    BY <1>1 DEF IInv, CallInv
<1>9. PlaceInv' /\ SumInv'
    BY <1>1, <1>2, <1>3, Numbers DEF PlaceInv, SumInv, Window, IInv
<1>10. Outcome' /\ ToTheSender' /\ LeftFartherOn'
    BY <1>1 DEF Outcome, ToTheSender, LeftFartherOn
<1> QED BY <1>6, <1>7, <1>8, <1>9, <1>10 DEF IInv

LEMMA EthernetStep ==
    ASSUME IInv, ethernet_in
    PROVE  IInv'
<1>1. /\ pc = "ethernet_in" /\ frame \in Frames /\ out = Nothing /\ pseudo = NULL
      /\ rxbuf = [data |-> base, len |-> frame.size]
      /\ rxbuf \in BufType /\ Inside(rxbuf) /\ BUF_MAX_LEN \in Nat
      /\ base \in Nat
      /\ UNCHANGED <<udp_table, history>>
    BY Numbers DEF ethernet_in, IInv, TypeOK, CallInv, PlaceInv, Window, InsideInv
<1>2. frame.size \in Nat /\ frame.type \in Nat
    BY <1>1, FrameType
<1>3. CASE rxbuf.len < 14 /\ Return(rxbuf, Nothing)
    <2>1. frame.size < 14
        BY <1>1, <1>3
    <2>2. Expected(frame, opened) = Nothing
        BY <1>2, <2>1 DEF Expected, Accepted
    <2>3. GoodEnd(rxbuf, Nothing)
        BY <1>2, <2>1, <2>2 DEF GoodEnd, Nothing
    <2> QED BY <1>1, <1>3, <2>3, Returns
<1>4. CASE rxbuf.len >= 14 /\ net_in(buf_remove_header(rxbuf, 14), frame.type, 6)
    <2> DEFINE b == [data |-> base + 14, len |-> frame.size - 14]
    <2>1. frame.size >= 14
        BY <1>1, <1>4
    <2>2. b = buf_remove_header(rxbuf, 14)
        BY <1>1, <1>2, <2>1 DEF buf_remove_header
    <2>3. b \in BufType /\ Inside(b)
        BY <1>1, <2>2, BufSafe
    <2>4. /\ rxbuf' = b /\ src' = 6
          /\ UNCHANGED <<pseudo, flag, sum_ok, cleared, out, frame, base>>
          /\ pc' = net_handler(frame.type)
        BY <1>1, <1>4, <2>2 DEF net_in, history
    <2>5. /\ flag' \in BOOLEAN /\ sum_ok' \in BOOLEAN /\ cleared' \in BOOLEAN
          /\ pseudo' \in 0 .. BUF_MAX_LEN \cup {NULL}
        BY <2>4, Zenon DEF IInv, TypeOK
    <2> HIDE DEF b
    <2>6. CASE frame.type \in {NET_PROTOCOL_ARP, NET_PROTOCOL_IP,
                               NET_PROTOCOL_ICMP, NET_PROTOCOL_UDP}
        <3>1. /\ pc' \in {"arp_in", "ip_in", "icmp_in", "udp_in"}
              /\ pc' = "arp_in" => frame.type = NET_PROTOCOL_ARP
              /\ pc' = "ip_in" => frame.type = NET_PROTOCOL_IP
              /\ pc' \in {"icmp_in", "udp_in"} => ~EthernetII(frame)
            BY <2>4, <2>6, Protocols DEF net_handler, EthernetII
        <3>2. PlaceInv'
            BY <2>1, <2>4, <3>1 DEF PlaceInv, Window, EthernetII, b
        <3>3. SumInv'
            BY <3>1 DEF SumInv
        <3>4. pc' \in Handlers /\ pc # "idle"
            BY <1>1, <3>1 DEF Handlers
        <3> QED BY <1>1, <2>3, <2>4, <2>5, <3>1, <3>2, <3>3, <3>4, Proceeds
    <2>7. CASE frame.type \notin {NET_PROTOCOL_ARP, NET_PROTOCOL_IP,
                                  NET_PROTOCOL_ICMP, NET_PROTOCOL_UDP}
        <3>1. pc' = "idle"
            BY <2>4, <2>7 DEF net_handler
        <3>2. Expected(frame, opened) = Nothing
            BY <2>7 DEF Expected
        <3>3. GoodEnd(b, Nothing)
            BY <1>1, <3>2 DEF GoodEnd, Nothing, b
        <3> QED BY <1>1, <2>1, <2>3, <2>4, <2>5, <3>1, <3>3, Ends
    <2> QED BY <2>6, <2>7
<1> QED BY <1>1, <1>3, <1>4 DEF ethernet_in

(* Where arp_in and ip_in stand. *)
LEMMA AtPayload ==
    ASSUME IInv, pc \in {"arp_in", "ip_in"}
    PROVE  /\ frame \in Frames /\ frame.size \in Nat /\ frame.size >= 14
           /\ frame.total_len \in Nat
           /\ rxbuf = [data |-> base + 14, len |-> frame.size - 14]
           /\ rxbuf \in BufType /\ Inside(rxbuf) /\ base \in Nat
           /\ pseudo = NULL /\ out = Nothing
           /\ pc = "arp_in" => frame.type = NET_PROTOCOL_ARP
           /\ pc = "ip_in" => frame.type = NET_PROTOCOL_IP
           /\ EthernetII(frame)
<1>1. /\ frame \in Frames /\ rxbuf \in BufType /\ Inside(rxbuf)
      /\ pseudo = NULL /\ out = Nothing
      /\ frame.size >= 14
      /\ rxbuf = [data |-> base + 14, len |-> frame.size - 14]
      /\ pc = "arp_in" => frame.type = NET_PROTOCOL_ARP
      /\ pc = "ip_in" => frame.type = NET_PROTOCOL_IP
    BY DEF IInv, TypeOK, CallInv, PlaceInv, Window, InsideInv
<1>2. EthernetII(frame)
    BY <1>1, Protocols DEF EthernetII
<1> QED BY <1>1, <1>2, FrameType, Numbers DEF IInv

LEMMA ArpStep ==
    ASSUME IInv, arp_in
    PROVE  IInv'
<1> DEFINE what == IF rxbuf.len < 8 THEN Nothing ELSE ArpPacket
<1>1. /\ pc = "arp_in" /\ Return(rxbuf, what) /\ UNCHANGED <<udp_table, history>>
    BY DEF arp_in
<1>2. what = Expected(frame, opened)
    BY <1>1, AtPayload, Protocols DEF Expected
<1>3. what.kind \in {"nothing", "arp"}
    BY DEF Nothing, ArpPacket
<1>4. rxbuf.data - base = 14
    BY <1>1, AtPayload
<1> HIDE DEF what
<1>5. GoodEnd(rxbuf, what)
    BY <1>2, <1>3, <1>4 DEF GoodEnd
<1> QED BY <1>1, <1>5, AtPayload, Returns

LEMMA IpStep ==
    ASSUME IInv, ip_in
    PROVE  IInv'
<1>1. pc = "ip_in" /\ UNCHANGED <<udp_table, history>>
    BY DEF ip_in
<1>2. /\ frame \in Frames /\ frame.size \in Nat /\ frame.size >= 14
      /\ frame.total_len \in Nat
      /\ rxbuf = [data |-> base + 14, len |-> frame.size - 14]
      /\ rxbuf \in BufType /\ Inside(rxbuf) /\ base \in Nat
      /\ pseudo = NULL /\ out = Nothing
      /\ frame.type = NET_PROTOCOL_IP /\ EthernetII(frame)
    BY <1>1, AtPayload
<1>3. Acceptable <=> Accepted(frame)
    BY <1>2 DEF Acceptable, Accepted
<1>4. Expected(frame, opened) =
        IF Accepted(frame) THEN Transport(frame, opened) ELSE Nothing
    BY <1>2, Protocols DEF Expected
<1>5. CASE ~Acceptable /\ Return(rxbuf, Nothing)
    <2>1. GoodEnd(rxbuf, Nothing)
        BY <1>2, <1>3, <1>4, <1>5 DEF GoodEnd, Nothing
    <2> QED BY <1>1, <1>2, <1>5, <2>1, Returns
<1>6. ASSUME Acceptable
      PROVE  /\ Trimmed = [data |-> base + 14, len |-> frame.total_len]
             /\ Trimmed \in BufType /\ Inside(Trimmed)
    <2>1. frame.total_len <= frame.size - 14
        BY <1>2, <1>6 DEF Acceptable
    <2>2. Trimmed = [data |-> base + 14, len |-> frame.total_len]
        BY <1>2, <2>1 DEF Trimmed, buf_remove_padding
    <2>3. frame.total_len <= rxbuf.len /\ rxbuf.data = base + 14
        BY <1>2, <2>1
    <2>4. [data |-> base + 14, len |-> frame.total_len] \in BufType
        BY <1>2, <2>3 DEF BufType
    <2>5. Inside([data |-> base + 14, len |-> frame.total_len])
        BY <1>2, <2>3, Numbers DEF Inside, IInv
    <2> QED BY <2>2, <2>4, <2>5
<1>7. CASE /\ Acceptable
           /\ frame.protocol \notin {NET_PROTOCOL_UDP, NET_PROTOCOL_ICMP}
           /\ Return(Trimmed, Unreachable("protocol", Trimmed.data - base, "sender"))
    <2> DEFINE what == Unreachable("protocol", 14, "sender")
    <2>1. Trimmed.data - base = 14
        BY <1>2, <1>6, <1>7
    <2>2. what = Expected(frame, opened)
        BY <1>3, <1>4, <1>7 DEF Transport
    <2>3. what.to = "sender"
        BY DEF Unreachable
    <2>4. Return(Trimmed, what)
        BY <1>7, <2>1
    <2> HIDE DEF what
    <2>5. GoodEnd(Trimmed, what)
        BY <2>1, <2>2, <2>3 DEF GoodEnd
    <2> QED BY <1>1, <1>2, <1>6, <1>7, <2>4, <2>5, Returns
<1>8. CASE /\ Acceptable
           /\ frame.protocol \in {NET_PROTOCOL_UDP, NET_PROTOCOL_ICMP}
           /\ net_in(buf_remove_header(Trimmed, 20), frame.protocol, 26)
    <2> DEFINE b == buf_remove_header(Trimmed, 20)
    <2>1. b \in BufType /\ Inside(b)
        BY <1>6, <1>8, BufSafe
    <2>2. frame.total_len >= 20 => b = [data |-> base + 34, len |-> frame.total_len - 20]
        BY <1>2, <1>6, <1>8 DEF buf_remove_header
    <2>3. /\ rxbuf' = b /\ src' = 26
          /\ UNCHANGED <<pseudo, flag, sum_ok, cleared, out, frame, base>>
          /\ pc' = net_handler(frame.protocol)
        BY <1>1, <1>8 DEF net_in, history
    <2>4. /\ flag' \in BOOLEAN /\ sum_ok' \in BOOLEAN /\ cleared' \in BOOLEAN
          /\ pseudo' \in 0 .. BUF_MAX_LEN \cup {NULL}
        BY <2>3, Zenon DEF IInv, TypeOK
    <2> HIDE DEF b
    <2>5. /\ pc' \in {"icmp_in", "udp_in"}
          /\ frame.protocol = IF pc' = "icmp_in" THEN NET_PROTOCOL_ICMP
                              ELSE NET_PROTOCOL_UDP
        BY <1>8, <2>3, Protocols DEF net_handler
    <2>6. PlaceInv'
        BY <1>2, <1>3, <1>8, <2>2, <2>3, <2>5 DEF PlaceInv, Window, Datagram
    <2>7. SumInv'
        BY <2>5 DEF SumInv
    <2>8. pc' \in Handlers /\ pc # "idle"
        BY <1>1, <2>5 DEF Handlers
    <2> QED BY <1>1, <1>2, <2>1, <2>3, <2>4, <2>5, <2>6, <2>7, <2>8, Proceeds
<1> QED BY <1>5, <1>7, <1>8 DEF ip_in

LEMMA IcmpStep ==
    ASSUME IInv, icmp_in
    PROVE  IInv'
<1>1. /\ pc = "icmp_in" /\ UNCHANGED <<udp_table, history>>
      /\ \E what :
           /\ Return(rxbuf, what)
           /\ \/ rxbuf.len < 8 /\ what = Nothing
              \/ \E f \in Seen : \E ok \in Verdicts(f.l4_ok, rxbuf.len) :
                   /\ rxbuf.len >= 8
                   /\ what = IF ok /\ f.echo THEN EchoReply(rxbuf.len, SourceIp)
                             ELSE Nothing
    BY DEF icmp_in
<1>2. /\ frame \in Frames /\ rxbuf \in BufType /\ Inside(rxbuf)
      /\ pseudo = NULL
      /\ EthernetII(frame) => /\ Datagram(NET_PROTOCOL_ICMP)
                              /\ frame.total_len >= 20 =>
                                   rxbuf = [data |-> base + 34, len |-> frame.total_len - 20]
    BY <1>1 DEF IInv, TypeOK, CallInv, PlaceInv, Window, InsideInv
<1>3. /\ base \in Nat /\ rxbuf.len \in Nat /\ frame.total_len \in Nat /\ frame.ihl \in Nat
    BY <1>2, FrameType, Numbers DEF IInv
<1>4. PICK what :
        /\ Return(rxbuf, what)
        /\ \/ rxbuf.len < 8 /\ what = Nothing
           \/ \E f \in Seen : \E ok \in Verdicts(f.l4_ok, rxbuf.len) :
                /\ rxbuf.len >= 8
                /\ what = IF ok /\ f.echo THEN EchoReply(rxbuf.len, SourceIp)
                          ELSE Nothing
    BY <1>1
<1>5. ASSUME EthernetII(frame)
      PROVE  what.kind \in {"nothing", "arp"} \/ what.to = "sender"
    <2>1. SourceIp = "sender"
        BY <1>2, <1>5 DEF SourceIp, Datagram
    <2> QED BY <1>4, <2>1 DEF Nothing, EchoReply
<1>6. ASSUME EthernetII(frame), frame.total_len >= 20
      PROVE  rxbuf.data - base = 34
    BY <1>2, <1>3, <1>6
<1>7. ASSUME Plain(frame)
      PROVE  what = Expected(frame, opened)
    <2>1. /\ EthernetII(frame) /\ Datagram(NET_PROTOCOL_ICMP)
          /\ frame.ihl = 5 /\ frame.total_len >= 20 /\ frame.total_len % 2 = 0
        BY <1>2, <1>7 DEF Plain, Datagram
    <2>2. /\ rxbuf.len = frame.total_len - 20
          /\ rxbuf.data = base + 14 + 4 * frame.ihl
        BY <1>2, <1>3, <2>1
    <2>3. Seen = {frame}
        BY <2>2 DEF Seen
    <2>4. rxbuf.len % 2 = 0
        BY <1>3, <2>1, <2>2
    <2>5. Verdicts(frame.l4_ok, rxbuf.len) = {frame.l4_ok}
        BY <2>4 DEF Verdicts
    <2>6. SourceIp = "sender"
        BY <1>2, <2>1 DEF SourceIp, Datagram
    <2>7. what = IF rxbuf.len >= 8 /\ frame.l4_ok /\ frame.echo
                 THEN EchoReply(rxbuf.len, "sender") ELSE Nothing
        BY <1>3, <1>4, <2>3, <2>5, <2>6
    <2>8. Expected(frame, opened) = Transport(frame, opened)
        BY <2>1, Protocols DEF Expected, Datagram
    <2>9. Transport(frame, opened) =
            IF frame.total_len - 20 >= 8 /\ frame.l4_ok /\ frame.echo
            THEN EchoReply(frame.total_len - 20, "sender") ELSE Nothing
        BY <2>1, Protocols DEF Transport, Datagram
    <2> QED BY <2>2, <2>7, <2>8, <2>9
<1>8. GoodEnd(rxbuf, what)
    <2>1. EthernetII(frame) => frame.type = NET_PROTOCOL_IP /\ Accepted(frame)
        BY <1>2 DEF Datagram
    <2>2. frame.total_len >= 20 \/ frame.total_len < 20
        BY <1>3
    <2> QED BY <1>5, <1>6, <1>7, <2>1, <2>2 DEF GoodEnd
<1> QED BY <1>1, <1>2, <1>4, <1>8, Returns


(* Where udp_in and udp_checksum stand. *)
LEMMA AtUdp ==
    ASSUME IInv, pc \in {"udp_in", "udp_checksum"}
    PROVE  /\ frame \in Frames /\ rxbuf \in BufType /\ Inside(rxbuf)
           /\ pseudo = NULL /\ out = Nothing /\ pc # "idle"
           /\ EthernetII(frame) => /\ Datagram(NET_PROTOCOL_UDP)
                                   /\ frame.total_len >= 20 =>
                                        rxbuf = [data |-> base + 34, len |-> frame.total_len - 20]
           /\ base \in Nat /\ base <= BUF_MAX_LEN /\ BUF_MAX_LEN \in Nat
           /\ rxbuf.data \in Nat /\ rxbuf.len \in Nat
           /\ rxbuf.data + rxbuf.len <= BUF_MAX_LEN
           /\ frame.total_len \in Nat /\ frame.ihl \in Nat /\ frame.udp_len \in Nat
<1>1. /\ frame \in Frames /\ rxbuf \in BufType /\ Inside(rxbuf)
      /\ pseudo = NULL /\ out = Nothing /\ pc # "idle"
      /\ EthernetII(frame) => /\ Datagram(NET_PROTOCOL_UDP)
                              /\ frame.total_len >= 20 =>
                                   rxbuf = [data |-> base + 34, len |-> frame.total_len - 20]
    BY DEF IInv, TypeOK, CallInv, PlaceInv, Window, InsideInv
<1> QED BY <1>1, FrameType, Numbers DEF IInv, Inside

(* In a plain datagram they stand at its UDP header, and read its fields. *)
LEMMA PlainUdp ==
    ASSUME IInv, pc \in {"udp_in", "udp_checksum"}, Plain(frame)
    PROVE  /\ EthernetII(frame) /\ Datagram(NET_PROTOCOL_UDP)
           /\ frame.total_len >= 20 /\ frame.udp_len >= frame.total_len - 20
           /\ rxbuf = [data |-> base + 34, len |-> frame.total_len - 20]
           /\ Seen = {frame}
<1>1. /\ EthernetII(frame) /\ Datagram(NET_PROTOCOL_UDP)
      /\ frame.ihl = 5 /\ frame.total_len >= 20
      /\ frame.udp_len >= frame.total_len - 20
    BY AtUdp DEF Plain, Datagram
<1>2. rxbuf = [data |-> base + 34, len |-> frame.total_len - 20]
    BY <1>1, AtUdp
<1>3. rxbuf.data = base + 14 + 4 * frame.ihl
    BY <1>1, <1>2, AtUdp
<1> QED BY <1>1, <1>2, <1>3 DEF Seen

(* udp_in may drop a datagram that is shorter than its headers say. *)
LEMMA UdpDropped ==
    ASSUME IInv, pc = "udp_in", Return(rxbuf, Nothing),
           UNCHANGED <<udp_table, history>>,
           Plain(frame) => frame.total_len - 20 < 8
                             \/ frame.total_len - 20 < frame.udp_len
    PROVE  IInv'
<1>1. Plain(frame) => Expected(frame, opened) = Nothing
    BY PlainUdp, Protocols DEF Expected, Transport, Datagram
<1>2. EthernetII(frame) => \/ rxbuf.data - base \in 14 .. 42
                           \/ frame.type = NET_PROTOCOL_IP /\ Accepted(frame)
                                /\ frame.total_len < 20
    <2>1. EthernetII(frame) /\ frame.total_len >= 20 => rxbuf.data - base = 34
        BY AtUdp
    <2>2. frame.total_len >= 20 \/ frame.total_len < 20
        BY AtUdp
    <2> QED BY <2>1, <2>2, AtUdp DEF Datagram
<1>3. GoodEnd(rxbuf, Nothing)
    BY <1>1, <1>2 DEF GoodEnd, Nothing
<1> QED BY <1>3, AtUdp, Returns

LEMMA UdpInStep ==
    ASSUME IInv, udp_in
    PROVE  IInv'
<1>1. /\ pc = "udp_in" /\ UNCHANGED <<udp_table, history>>
    BY DEF udp_in
<1>2. CASE rxbuf.len < 8 /\ Return(rxbuf, Nothing)
    <2>1. Plain(frame) => frame.total_len - 20 < 8
        BY <1>1, <1>2, PlainUdp
    <2> QED BY <1>1, <1>2, <2>1, UdpDropped
<1>3. CASE \E f \in Seen : rxbuf.len < f.udp_len /\ Return(rxbuf, Nothing)
    <2>1. Plain(frame) => frame.total_len - 20 < frame.udp_len
        BY <1>1, <1>3, PlainUdp
    <2> QED BY <1>1, <1>3, <2>1, UdpDropped
<1>4. CASE /\ rxbuf.len >= 8
           /\ \E f \in Seen : rxbuf.len >= f.udp_len
           /\ cleared' = TRUE
           /\ pc' = "udp_checksum"
           /\ UNCHANGED <<rxbuf, src, pseudo, flag, sum_ok, out>>
    <2>1. /\ UNCHANGED <<rxbuf, src, pseudo, flag, sum_ok, out, frame, base>>
          /\ pc' = "udp_checksum" /\ cleared' = TRUE
        BY <1>1, <1>4 DEF history
    <2>2. PlaceInv'
        BY <1>1, <1>4, <2>1, AtUdp DEF PlaceInv, Window, Datagram
    <2>3. Plain(frame) => frame.total_len >= 28
                            /\ frame.udp_len = frame.total_len - 20
        BY <1>1, <1>4, PlainUdp, AtUdp
    <2>4. SumInv'
        BY <2>1, <2>3 DEF SumInv
    <2>5. flag' \in BOOLEAN /\ sum_ok' \in BOOLEAN /\ cleared' \in BOOLEAN
        BY <2>1, Zenon DEF IInv, TypeOK
    <2>6. /\ rxbuf' \in BufType /\ Inside(rxbuf)' /\ src' \in {0, 6, 26}
          /\ pseudo' \in 0 .. BUF_MAX_LEN \cup {NULL} /\ pseudo' = NULL
          /\ pc' \in Handlers
        BY <1>1, <2>1, AtUdp DEF IInv, TypeOK, Inside, Handlers
    <2>7. pc' \in {"udp_checksum", "udp_restore", "udp_dispatch"} => cleared'
        BY <2>1
    <2>8. UNCHANGED <<udp_table, out, history>>
        BY <1>1, <2>1
    <2> QED BY <1>1, <2>2, <2>4, <2>5, <2>6, <2>7, <2>8, AtUdp, Proceeds
<1> QED BY <1>1, <1>2, <1>3, <1>4 DEF udp_in


LEMMA UdpChecksumStep ==
    ASSUME IInv, udp_checksum
    PROVE  IInv'
<1> DEFINE whole == buf_remove_header(buf_add_header(rxbuf, 20), 8)
           buf == IF whole.len % 2 = 1 THEN buf_add_padding(whole, 1) ELSE whole
<1>1. /\ pc = "udp_checksum" /\ pc' = "udp_restore"
      /\ UNCHANGED <<udp_table, src, cleared, out, history>>
      /\ flag' = (whole.len % 2 = 1)
      /\ pseudo' = rxbuf'.data
    BY DEF udp_checksum
<1>2. rxbuf' = buf
    BY DEF udp_checksum
<1>3. PICK f \in Seen :
        sum_ok' \in IF f.udp_len = rxbuf.len THEN Verdicts(f.l4_ok, rxbuf'.len)
                    ELSE BOOLEAN
    BY DEF udp_checksum
<1>4. /\ whole \in BufType /\ Inside(whole)
      /\ buf_add_padding(whole, 1) \in BufType /\ Inside(buf_add_padding(whole, 1))
    <2>1. buf_add_header(rxbuf, 20) \in BufType /\ Inside(buf_add_header(rxbuf, 20))
        BY <1>1, AtUdp, BufSafe
    <2>2. whole \in BufType /\ Inside(whole)
        BY <2>1, BufSafe
    <2> HIDE DEF whole
    <2> QED BY <2>2, BufSafe
<1>5. buf \in BufType /\ Inside(buf)
    BY <1>4
<1>6. flag' \in BOOLEAN
    BY <1>1
<1>7. sum_ok' \in BOOLEAN
    <2>1. f \in Frames
        BY <1>1, AtUdp DEF Seen
    <2>2. f.l4_ok \in BOOLEAN
        BY <2>1, FrameType, Zenon
    <2>3. Verdicts(f.l4_ok, rxbuf'.len) \subseteq BOOLEAN
        BY <2>2 DEF Verdicts
    <2> QED BY <1>3, <2>3
<1>8. cleared' \in BOOLEAN /\ cleared'
    <2>1. cleared
        BY <1>1 DEF IInv, CallInv
    <2> QED BY <1>1, <2>1, Zenon DEF IInv, TypeOK
<1>9. /\ pseudo' \in 0 .. BUF_MAX_LEN \cup {NULL} /\ src' \in {0, 6, 26}
      /\ rxbuf' \in BufType /\ Inside(rxbuf)'
    <2>1. rxbuf' \in BufType /\ Inside(rxbuf')
        BY <1>2, <1>5
    <2>2. pseudo' \in 0 .. BUF_MAX_LEN
        BY <1>1, <2>1 DEF BufType
    <2> QED BY <1>1, <2>1, <2>2 DEF IInv, TypeOK, Inside
<1>10. rxbuf.len >= 8
    BY <1>1 DEF IInv, PlaceInv
<1>11. ASSUME EthernetII(frame), frame.total_len >= 20
       PROVE  /\ frame.total_len >= 28
              /\ rxbuf.len = frame.total_len - 20
              /\ whole = [data |-> base + 22, len |-> frame.total_len - 8]
              /\ whole.len % 2 = frame.total_len % 2
    <2>1. rxbuf = [data |-> base + 34, len |-> frame.total_len - 20]
        BY <1>1, <1>11, AtUdp
    <2>2. rxbuf.data = base + 34 /\ rxbuf.len = frame.total_len - 20
          /\ frame.total_len >= 28
        BY <1>1, <1>10, <2>1, AtUdp
    <2>3. buf_add_header(rxbuf, 20) = [data |-> base + 14, len |-> frame.total_len]
        BY <1>1, <2>2, AtUdp DEF buf_add_header
    <2>4. whole = [data |-> base + 22, len |-> frame.total_len - 8]
        BY <1>1, <2>2, <2>3, AtUdp DEF buf_remove_header
    <2> HIDE DEF whole
    <2>5. whole.len = frame.total_len - 8
        BY <2>4
    <2>6. whole.len % 2 = frame.total_len % 2
        BY <1>1, <2>5, AtUdp
    <2> QED BY <2>2, <2>4, <2>6
<1>12. ASSUME EthernetII(frame), frame.total_len >= 20
       PROVE  /\ buf.data = base + 22
              /\ buf.len \in {frame.total_len - 8, frame.total_len - 7}
              /\ Room(frame) =>
                   buf.len = IF frame.total_len % 2 = 1 THEN frame.total_len - 7
                             ELSE frame.total_len - 8
    <2> HIDE DEF whole
    <2>1. /\ whole.data = base + 22 /\ whole.len = frame.total_len - 8
          /\ whole.len % 2 = frame.total_len % 2
        BY <1>11, <1>12
    <2>2. frame.total_len <= frame.size - 14 /\ frame.size \in Nat
        BY <1>1, <1>12, AtUdp, FrameType DEF Datagram, Accepted
    <2>3. Room(frame) => whole.data + whole.len + 1 < BUF_MAX_LEN
        BY <1>1, <2>1, <2>2, AtUdp DEF Room
    <2>4. [whole EXCEPT !.len = @ + 1].data = whole.data
          /\ [whole EXCEPT !.len = @ + 1].len = whole.len + 1
        BY <1>4 DEF BufType
    <2>5. CASE frame.total_len % 2 = 1
        <3>1. buf = buf_add_padding(whole, 1)
            BY <2>1, <2>5
        <3>2. buf.data = base + 22
            BY <2>1, <2>4, <3>1 DEF buf_add_padding
        <3>3. buf.len \in {frame.total_len - 8, frame.total_len - 7}
            BY <1>1, <2>1, <2>4, <3>1, AtUdp DEF buf_add_padding
        <3>4. ASSUME Room(frame) PROVE buf.len = frame.total_len - 7
            <4>1. /\ base \in Nat /\ BUF_MAX_LEN \in Nat /\ frame.total_len \in Nat
                  /\ ~ (whole.data + whole.len + 1 >= BUF_MAX_LEN)
                BY <1>1, <2>1, <2>3, <3>4, AtUdp
            <4>2. buf = [whole EXCEPT !.len = @ + 1]
                BY <3>1, <4>1 DEF buf_add_padding
            <4> HIDE DEF buf
            <4>3. buf.len = whole.len + 1
                BY <2>4, <4>2
            <4>4. whole.len = frame.total_len - 8
                BY <2>1
            <4> QED BY <4>1, <4>3, <4>4
        <3> QED BY <2>5, <3>2, <3>3, <3>4
    <2>6. CASE frame.total_len % 2 # 1
        BY <2>1, <2>6
    <2> QED BY <2>5, <2>6
<1> HIDE DEF whole, buf
<1>13. /\ UNCHANGED <<src, frame, base>>
       /\ EthernetII(frame) => Datagram(NET_PROTOCOL_UDP)
    BY <1>1, AtUdp DEF history
<1>14. PlaceInv'
    <2>1. EthernetII(frame)' => Datagram(NET_PROTOCOL_UDP)'
        BY <1>13 DEF EthernetII, Datagram
    <2>2. ASSUME EthernetII(frame), frame.total_len >= 20
          PROVE  Padded'
        <3>1. flag' = (frame'.total_len % 2 = 1)
            BY <1>1, <1>11, <1>13, <2>2
        <3>2. /\ rxbuf'.data = base' + 22 /\ frame'.total_len >= 28
              /\ rxbuf'.len \in {frame'.total_len - 8, frame'.total_len - 7}
            BY <1>2, <1>11, <1>12, <1>13, <2>2
        <3>3. Room(frame)' => Room(frame)
            BY <1>13 DEF Room
        <3>4. Room(frame)' => rxbuf'.len = IF flag' THEN frame'.total_len - 7
                                           ELSE frame'.total_len - 8
            BY <1>2, <1>12, <1>13, <2>2, <3>1, <3>3
        <3> QED BY <3>1, <3>2, <3>4 DEF Padded
    <2>3. EthernetII(frame)' /\ frame'.total_len >= 20 => Padded'
        BY <1>13, <2>2 DEF EthernetII
    <2> QED BY <1>1, <2>1, <2>3 DEF PlaceInv
<1>15. SumInv'
    <2>1. Plain(frame) => frame.total_len >= 28
                            /\ frame.udp_len = frame.total_len - 20
        BY <1>1 DEF IInv, SumInv
    <2>2. ASSUME Plain(frame), Room(frame)
          PROVE  sum_ok' = frame.l4_ok
        <3>1. f = frame /\ EthernetII(frame) /\ frame.total_len >= 20
            BY <1>1, <2>2, PlainUdp
        <3>2. frame.udp_len = rxbuf.len
            BY <1>11, <2>1, <2>2, <3>1
        <3>3. rxbuf'.len % 2 = 0
            BY <1>1, <1>2, <1>12, <2>2, <3>1, AtUdp
        <3>4. Verdicts(frame.l4_ok, rxbuf'.len) = {frame.l4_ok}
            BY <3>3 DEF Verdicts
        <3> QED BY <1>3, <3>1, <3>2, <3>4
    <2>3. Plain(frame)' <=> Plain(frame)
        BY <1>13 DEF Plain
    <2>4. Room(frame)' <=> Room(frame)
        BY <1>13 DEF Room
    <2> QED BY <1>1, <1>13, <2>1, <2>2, <2>3, <2>4 DEF SumInv
<1>16. pc' \in Handlers /\ pc' # "udp_restore" => pseudo' = NULL
    BY <1>1 DEF Handlers
<1>17. pc' \in Handlers /\ frame \in Frames /\ pc # "idle"
       /\ UNCHANGED <<udp_table, out, history>>
    BY <1>1, AtUdp DEF Handlers
<1> QED BY <1>6, <1>7, <1>8, <1>9, <1>14, <1>15, <1>16, <1>17, Proceeds


LEMMA UdpRestoreStep ==
    ASSUME IInv, udp_restore
    PROVE  IInv'
<1> DEFINE buf == IF flag THEN buf_remove_padding(Restored, 1) ELSE Restored
<1>1. /\ pc = "udp_restore" /\ pc' = "udp_dispatch"
      /\ UNCHANGED <<udp_table, src, sum_ok, cleared, out, history>>
      /\ flag' = FALSE /\ pseudo' = NULL
    BY DEF udp_restore
<1>2. rxbuf' = buf
    BY DEF udp_restore
<1>3. /\ frame \in Frames /\ pc # "idle" /\ cleared
      /\ rxbuf \in BufType /\ Inside(rxbuf) /\ base \in Nat
      /\ rxbuf.data \in Nat /\ rxbuf.len \in Nat
      /\ frame.total_len \in Nat
    BY <1>1, FrameType, Numbers DEF IInv, TypeOK, InsideInv, CallInv
<1>4. /\ Restored \in BufType /\ Inside(Restored)
      /\ buf_remove_padding(Restored, 1) \in BufType
      /\ Inside(buf_remove_padding(Restored, 1))
    <2>1. buf_add_header(rxbuf, 8) \in BufType /\ Inside(buf_add_header(rxbuf, 8))
        BY <1>3, BufSafe
    <2>2. Restored \in BufType /\ Inside(Restored)
        BY <2>1, BufSafe DEF Restored
    <2> QED BY <2>2, BufSafe
<1>5. buf \in BufType /\ Inside(buf)
    BY <1>4
<1>6. ASSUME EthernetII(frame), frame.total_len >= 20
      PROVE  /\ frame.total_len >= 28
             /\ buf.data = base + 34
             /\ Room(frame) => buf.len = frame.total_len - 20
    <2>1. /\ flag = (frame.total_len % 2 = 1)
          /\ rxbuf.data = base + 22 /\ frame.total_len >= 28
          /\ rxbuf.len \in {frame.total_len - 8, frame.total_len - 7}
          /\ Room(frame) => rxbuf.len = IF flag THEN frame.total_len - 7
                                        ELSE frame.total_len - 8
        BY <1>1, <1>6 DEF IInv, PlaceInv, Padded
    <2>2. rxbuf.data = base + 22 /\ rxbuf.len >= 20
        BY <1>3, <2>1
    <2>3. buf_add_header(rxbuf, 8) = [data |-> base + 14, len |-> rxbuf.len + 8]
        BY <1>3, <2>2 DEF buf_add_header
    <2>4. Restored = [data |-> base + 34, len |-> rxbuf.len - 12]
        BY <1>3, <2>2, <2>3 DEF Restored, buf_remove_header
    <2>5. Restored.data = base + 34 /\ Restored.len = rxbuf.len - 12
        BY <2>4
    <2>6. buf_remove_padding(Restored, 1) = [data |-> base + 34, len |-> rxbuf.len - 13]
        BY <1>3, <2>2, <2>4, <2>5 DEF buf_remove_padding
    <2>7. CASE flag
        <3>1. buf = [data |-> base + 34, len |-> rxbuf.len - 13]
            BY <2>6, <2>7
        <3>2. Room(frame) => rxbuf.len = frame.total_len - 7
            BY <2>1, <2>7
        <3> HIDE DEF buf
        <3>3. buf.data = base + 34 /\ buf.len = rxbuf.len - 13
            BY <3>1
        <3>4. Room(frame) => buf.len = frame.total_len - 20
            BY <1>3, <3>2, <3>3
        <3> QED BY <2>1, <3>3, <3>4
    <2>8. CASE ~flag
        <3>1. buf = Restored
            BY <2>8
        <3>2. Room(frame) => rxbuf.len = frame.total_len - 8
            BY <2>1, <2>8
        <3> HIDE DEF buf
        <3>3. Room(frame) => buf.len = frame.total_len - 20
            BY <1>3, <2>5, <3>1, <3>2
        <3> QED BY <2>1, <2>5, <3>1, <3>3
    <2> QED BY <2>7, <2>8
<1> HIDE DEF buf
<1>7. UNCHANGED <<src, frame, base, sum_ok>>
    BY <1>1 DEF history
<1>8. PlaceInv'
    <2>1. EthernetII(frame)' => Datagram(NET_PROTOCOL_UDP)'
        <3>1. EthernetII(frame) => Datagram(NET_PROTOCOL_UDP)
            BY <1>1 DEF IInv, PlaceInv
        <3> QED BY <1>7, <3>1 DEF EthernetII, Datagram
    <2>2. EthernetII(frame)' /\ frame'.total_len >= 20 =>
            /\ rxbuf'.data = base' + 34 /\ frame'.total_len >= 28
            /\ Room(frame)' => rxbuf'.len = frame'.total_len - 20
        BY <1>2, <1>6, <1>7 DEF EthernetII, Room
    <2> QED BY <1>1, <2>1, <2>2 DEF PlaceInv
<1>9. SumInv'
    <2>1. /\ Plain(frame) => frame.total_len >= 28
                               /\ frame.udp_len = frame.total_len - 20
          /\ Plain(frame) /\ Room(frame) => sum_ok = frame.l4_ok
        BY <1>1 DEF IInv, SumInv
    <2> QED BY <1>1, <1>7, <2>1 DEF SumInv, Plain, Room
<1>10. sum_ok' \in BOOLEAN /\ cleared' \in BOOLEAN /\ cleared' /\ flag' \in BOOLEAN
    <2>1. sum_ok' \in BOOLEAN /\ cleared' \in BOOLEAN
        BY <1>1, Zenon DEF IInv, TypeOK
    <2>2. cleared'
        BY <1>1, <1>3, Zenon
    <2> QED BY <1>1, <2>1, <2>2
<1>11. /\ pseudo' \in 0 .. BUF_MAX_LEN \cup {NULL} /\ src' \in {0, 6, 26}
       /\ rxbuf' \in BufType /\ Inside(rxbuf)'
    BY <1>1, <1>2, <1>5, <1>7 DEF IInv, TypeOK, Inside
<1>12. pc' \in Handlers /\ pc' # "udp_restore" => pseudo' = NULL
    BY <1>1 DEF Handlers
<1>13. pc' \in Handlers /\ frame \in Frames /\ pc # "idle"
       /\ UNCHANGED <<udp_table, out, history>>
    BY <1>1, <1>3 DEF Handlers
<1> QED BY <1>8, <1>9, <1>10, <1>11, <1>12, <1>13, Proceeds

LEMMA UdpDispatchStep ==
    ASSUME IInv, udp_dispatch
    PROVE  IInv'
<1> DEFINE ip   == buf_add_header(rxbuf, 20)
           data == buf_remove_header(rxbuf, 8)
<1>1. /\ pc = "udp_dispatch" /\ UNCHANGED <<udp_table, history>>
      /\ \/ ~sum_ok /\ Return(rxbuf, Nothing)
         \/ \E f \in Seen :
              /\ sum_ok
              /\ \/ /\ map_get(udp_table, f.port, 1) = NULL
                    /\ Return(ip, Unreachable("port", ip.data - base, SourceIp))
                 \/ /\ map_get(udp_table, f.port, 1) # NULL
                    /\ Return(data, Delivery(map_get(udp_table, f.port, 1),
                                             data.len, SourceIp))
    BY DEF udp_dispatch
<1>2. /\ frame \in Frames /\ cleared /\ pseudo = NULL
      /\ rxbuf \in BufType /\ Inside(rxbuf) /\ base \in Nat
      /\ rxbuf.data \in Nat /\ rxbuf.len \in Nat
      /\ frame.total_len \in Nat /\ frame.ihl \in Nat
    BY <1>1, FrameType, Numbers DEF IInv, TypeOK, InsideInv, CallInv
<1>3. /\ ip \in BufType /\ Inside(ip)
      /\ data \in BufType /\ Inside(data)
    BY <1>2, BufSafe
<1>4. EthernetII(frame) =>
        /\ Datagram(NET_PROTOCOL_UDP) /\ SourceIp = "sender"
        /\ frame.total_len >= 20 =>
             /\ rxbuf.data = base + 34 /\ frame.total_len >= 28
             /\ Room(frame) => rxbuf.len = frame.total_len - 20
    BY <1>1, <1>2 DEF IInv, PlaceInv, SourceIp, Datagram
<1>5. ASSUME EthernetII(frame), frame.total_len >= 20
      PROVE  /\ rxbuf.data - base = 34 /\ ip.data - base = 14
             /\ data.data - base \in {34, 42}
             /\ rxbuf.len >= 8 => data.len = rxbuf.len - 8
    <2>1. rxbuf.data - base = 34
        BY <1>2, <1>4, <1>5
    <2>2. ip = [data |-> base + 14, len |-> rxbuf.len + 20]
        BY <1>2, <1>4, <1>5 DEF buf_add_header
    <2>3. rxbuf.len >= 8 => data = [data |-> base + 42, len |-> rxbuf.len - 8]
        BY <1>2, <1>4, <1>5 DEF buf_remove_header
    <2>4. rxbuf.len < 8 => data = rxbuf
        BY DEF buf_remove_header
    <2>5. rxbuf.len >= 8 \/ rxbuf.len < 8
        BY <1>2
    <2> HIDE DEF ip, data
    <2>6. ip.data - base = 14
        BY <1>2, <2>2
    <2>7. data.data - base \in {34, 42}
        BY <1>2, <2>1, <2>3, <2>4, <2>5
    <2> QED BY <2>1, <2>3, <2>6, <2>7
<1> HIDE DEF ip, data
<1>6. ASSUME NEW b \in {rxbuf, ip, data}
      PROVE  frame.size >= 14 /\ EthernetII(frame) =>
               \/ b.data - base \in 14 .. 42
               \/ frame.type = NET_PROTOCOL_IP /\ Accepted(frame) /\ frame.total_len < 20
    <2>1. EthernetII(frame) /\ frame.total_len >= 20 => b.data - base \in {14, 34, 42}
        BY <1>5
    <2>2. frame.total_len >= 20 \/ frame.total_len < 20
        BY <1>2
    <2> QED BY <1>4, <2>1, <2>2 DEF Datagram
<1>7. ASSUME Plain(frame), Room(frame)
      PROVE  /\ Seen = {frame} /\ rxbuf.len = frame.total_len - 20
             /\ ip.data - base = 14 /\ data.len = frame.total_len - 28
             /\ SourceIp = "sender"
             /\ ~sum_ok => Expected(frame, opened) = Nothing
             /\ sum_ok /\ opened[frame.port] = NULL =>
                  Expected(frame, opened) = Unreachable("port", 14, "sender")
             /\ sum_ok /\ opened[frame.port] # NULL =>
                  Expected(frame, opened) =
                    Delivery(opened[frame.port], frame.total_len - 28, "sender")
    <2>1. /\ EthernetII(frame) /\ frame.total_len >= 28
          /\ frame.udp_len = frame.total_len - 20 /\ sum_ok = frame.l4_ok
        BY <1>1, <1>7 DEF IInv, SumInv, Plain
    <2>2. Datagram(NET_PROTOCOL_UDP) /\ frame.ihl = 5 /\ SourceIp = "sender"
        BY <1>4, <1>7, <2>1 DEF Plain, Datagram
    <2>3. rxbuf.data = base + 34 /\ rxbuf.len = frame.total_len - 20
        BY <1>2, <1>4, <1>7, <2>1
    <2>4. Seen = {frame}
        <3>1. rxbuf.data = base + 14 + 4 * frame.ihl
            BY <1>2, <2>2, <2>3
        <3> QED BY <3>1 DEF Seen
    <2>5. ip.data - base = 14 /\ data.len = frame.total_len - 28
        BY <1>2, <1>5, <2>1, <2>3
    <2>6. Expected(frame, opened) = Transport(frame, opened)
        BY <2>2, Protocols DEF Expected, Datagram
    <2>7. Transport(frame, opened) =
            IF ~frame.l4_ok THEN Nothing
            ELSE IF opened[frame.port] = NULL
                 THEN Unreachable("port", 14, "sender")
                 ELSE Delivery(opened[frame.port], frame.total_len - 28, "sender")
        <3>1. frame.protocol = NET_PROTOCOL_UDP
            BY <2>2 DEF Datagram
        <3>2. ~ (frame.total_len - 20 < 8) /\ ~ (frame.total_len - 20 < frame.udp_len)
              /\ frame.total_len - 20 - 8 = frame.total_len - 28
            BY <1>2, <2>1
        <3> QED BY <3>1, <3>2, Protocols DEF Transport
    <2>8. ~sum_ok <=> ~frame.l4_ok
        BY <2>1
    <2>9. /\ ~sum_ok => Expected(frame, opened) = Nothing
          /\ sum_ok /\ opened[frame.port] = NULL =>
               Expected(frame, opened) = Unreachable("port", 14, "sender")
          /\ sum_ok /\ opened[frame.port] # NULL =>
               Expected(frame, opened) =
                 Delivery(opened[frame.port], frame.total_len - 28, "sender")
        BY <2>6, <2>7, <2>8, Zenon
    <2> QED BY <2>2, <2>3, <2>4, <2>5, <2>9, Zenon
<1>8. CASE ~sum_ok /\ Return(rxbuf, Nothing)
    <2>1. Plain(frame) /\ Room(frame) => Nothing = Expected(frame, opened)
        BY <1>7, <1>8, Zenon
    <2>2. GoodEnd(rxbuf, Nothing)
        BY <1>6, <2>1 DEF GoodEnd, Nothing
    <2> QED BY <1>1, <1>2, <1>8, <2>2, Returns
<1>9. CASE \E f \in Seen :
             /\ sum_ok
             /\ map_get(udp_table, f.port, 1) = NULL
             /\ Return(ip, Unreachable("port", ip.data - base, SourceIp))
    <2> DEFINE what == Unreachable("port", ip.data - base, SourceIp)
    <2>1. Return(ip, what)
        BY <1>9, Zenon
    <2>2. EthernetII(frame) => what.to = "sender"
        BY <1>4 DEF Unreachable
    <2>3. Plain(frame) /\ Room(frame) => what = Expected(frame, opened)
        <3>1. Plain(frame) /\ Room(frame) => opened[frame.port] = NULL
            BY <1>2, <1>7, <1>9, FrameType DEF IInv, TableInv
        <3>2. sum_ok
            BY <1>9, Zenon
        <3> QED BY <1>7, <3>1, <3>2, Zenon
    <2> HIDE DEF what
    <2>4. GoodEnd(ip, what)
        BY <1>6, <2>2, <2>3 DEF GoodEnd
    <2> QED BY <1>1, <1>2, <1>3, <2>1, <2>4, Returns
<1>10. ASSUME NEW f \in Seen, sum_ok, map_get(udp_table, f.port, 1) # NULL,
              Return(data, Delivery(map_get(udp_table, f.port, 1), data.len, SourceIp))
       PROVE  IInv'
    <2> DEFINE what == Delivery(map_get(udp_table, f.port, 1), data.len, SourceIp)
    <2>1. EthernetII(frame) => what.to = "sender"
        BY <1>4 DEF Delivery
    <2>2. ASSUME Plain(frame), Room(frame)
          PROVE  what = Expected(frame, opened)
        <3>1. f = frame
            BY <1>7, <1>10, <2>2, Zenon
        <3>2. map_get(udp_table, f.port, 1) = opened[frame.port]
            BY <1>2, <3>1, FrameType DEF IInv, TableInv
        <3>3. opened[frame.port] # NULL
            BY <1>10, <3>2, Zenon
        <3>4. data.len = frame.total_len - 28 /\ SourceIp = "sender"
            BY <1>7, <2>2, Zenon
        <3> QED BY <1>7, <1>10, <2>2, <3>2, <3>3, <3>4, Zenon
    <2>3. Return(data, what)
        BY <1>10
    <2> HIDE DEF what
    <2>4. GoodEnd(data, what)
        BY <1>6, <2>1, <2>2 DEF GoodEnd
    <2> QED BY <1>1, <1>2, <1>3, <2>3, <2>4, Returns
<1> QED BY <1>1, <1>8, <1>9, <1>10


(* Between two frames the application changes the table and nothing else. *)
LEMMA TableStep ==
    ASSUME IInv, pc = "idle", frame' = NULL, out' = Nothing,
           UNCHANGED <<rxbuf, pc, local, base>>,
           udp_table' \in MapType(Port, Handler, udp_size, 0), TableInv',
           opened' \in [Port -> Handler \cup {NULL}]
    PROVE  IInv'
<1>1. /\ UNCHANGED <<rxbuf, pc, src, pseudo, flag, sum_ok, cleared, base>>
      /\ pc' = "idle"
    BY DEF local
<1>2. TypeOK'
    <2>1. /\ rxbuf' \in BufType
          /\ pc' \in Handlers \cup {"idle", "overrun"}
          /\ src' \in {0, 6, 26}
          /\ pseudo' \in 0 .. BUF_MAX_LEN \cup {NULL}
          /\ base' \in 0 .. BUF_MAX_LEN
          /\ pc' \in Handlers => Inside(rxbuf')
        BY <1>1 DEF IInv, TypeOK
    <2>2. flag' \in BOOLEAN /\ sum_ok' \in BOOLEAN /\ cleared' \in BOOLEAN
        BY <1>1, Zenon DEF IInv, TypeOK
    <2>3. frame' \in Frames \cup {NULL}
        OBVIOUS
    <2> QED BY <2>1, <2>2, <2>3, Zenon DEF TypeOK
<1>3. InsideInv' /\ CallInv' /\ PlaceInv' /\ SumInv'
    BY <1>1 DEF IInv, InsideInv, CallInv, PlaceInv, SumInv
<1>4. Outcome' /\ ToTheSender' /\ LeftFartherOn'
    BY DEF Outcome, ToTheSender, LeftFartherOn
<1> QED BY <1>2, <1>3, <1>4 DEF IInv

LEMMA OpenStep ==
    ASSUME IInv, NEW port \in Port, NEW handler \in Handler, udp_open(port, handler)
    PROVE  IInv'
<1>1. /\ pc = "idle" /\ frame' = NULL /\ out' = Nothing
      /\ UNCHANGED <<rxbuf, pc, local, base>>
    BY DEF udp_open
<1>2. opened \in [Port -> Handler \cup {NULL}]
    BY DEF IInv, TypeOK
<1>3. opened' = [opened EXCEPT ![port] =
                   IF map_set_ret(udp_table, port, 1, 1) = 0 THEN handler ELSE @]
    BY DEF udp_open
<1>4. opened' \in [Port -> Handler \cup {NULL}]
    BY <1>2, <1>3
<1>5. TableInv' /\ udp_table' \in MapType(Port, Handler, udp_size, 0)
    BY OpenPort DEF IInv
<1> QED BY <1>1, <1>4, <1>5, TableStep

LEMMA CloseStep ==
    ASSUME IInv, NEW port \in Port, udp_close(port)
    PROVE  IInv'
<1>1. /\ pc = "idle" /\ frame' = NULL /\ out' = Nothing
      /\ UNCHANGED <<rxbuf, pc, local, base>>
    BY DEF udp_close
<1>2. opened' \in [Port -> Handler \cup {NULL}]
    BY DEF IInv, TypeOK, udp_close
<1>3. TableInv' /\ udp_table' \in MapType(Port, Handler, udp_size, 0)
    BY ClosePort DEF IInv
<1> QED BY <1>1, <1>2, <1>3, TableStep

LEMMA Stutter ==
    ASSUME IInv, UNCHANGED vars
    PROVE  IInv'
<1>1. UNCHANGED <<rxbuf, udp_table, pc, src, pseudo, flag, sum_ok, cleared, out,
                  frame, base, opened>>
    BY DEF vars, local, history
<1>2. TypeOK' /\ InsideInv' /\ TableInv'
    BY <1>1, Zenon DEF IInv, TypeOK, InsideInv, TableInv
<1>3. CallInv' /\ PlaceInv' /\ SumInv'
    BY <1>1 DEF IInv, CallInv, PlaceInv, SumInv, Datagram, Padded, Window, Room
<1>4. Outcome' /\ ToTheSender' /\ LeftFartherOn'
    BY <1>1 DEF IInv, Outcome, ToTheSender, LeftFartherOn, Room
<1> QED BY <1>2, <1>3, <1>4 DEF IInv

LEMMA InitInv == Init => IInv
<1> SUFFICES ASSUME Init PROVE IInv
    OBVIOUS
<1>1. /\ rxbuf = buf_init([data |-> 0, len |-> 0], ETHERNET_MAX_TRANSPORT_UNIT + 14)
      /\ udp_table = map_init(udp_size, 0)
      /\ pc = "idle" /\ src = 0 /\ pseudo = NULL
      /\ frame = NULL /\ base = 0 /\ out = Nothing
      /\ opened = [p \in Port |-> NULL]
    BY DEF Init
<1>2. rxbuf \in BufType /\ Inside(rxbuf)
    <2>1. /\ BUF_MAX_LEN \in Nat /\ Half \in Nat /\ 2 * Half <= BUF_MAX_LEN
          /\ ETHERNET_MAX_TRANSPORT_UNIT + 14 \in Nat
          /\ ETHERNET_MAX_TRANSPORT_UNIT + 14 < Half
        BY BufAssumption, ReceiveAssumption DEF Half
    <2>2. rxbuf = [data |-> Half - (ETHERNET_MAX_TRANSPORT_UNIT + 14),
                   len |-> ETHERNET_MAX_TRANSPORT_UNIT + 14]
        BY <1>1, <2>1 DEF buf_init
    <2>3. rxbuf \in BufType
        BY <2>1, <2>2 DEF BufType
    <2> QED BY <2>1, <2>2, <2>3 DEF Inside
<1>3. /\ udp_table \in MapType(Port, Handler, udp_size, 0)
      /\ Sound(udp_table, 1) /\ Entries(udp_table, 1) = {}
    <2>1. udp_table \in MapType(Port, Handler, udp_size, 0) /\ Sound(udp_table, 1)
        BY <1>1, ReceiveAssumption, SoundInit
    <2>2. Live(udp_table, 1) = {}
        BY <1>1 DEF map_init, Live, Slots, map_entry_valid, Fresh
    <2>3. Entries(udp_table, 1) = {}
        BY <2>2 DEF Entries
    <2> QED BY <2>1, <2>2, <2>3
<1>4. TableInv
    <2>1. IsMap(udp_table) /\ KeysUnique(udp_table, 1)
        BY <1>3, ReceiveAssumption, TypedMap DEF Sound
    <2>2. \A p \in Port : map_get(udp_table, p, 1) = NULL
        BY <1>3, <2>1, GetEntry DEF Absent
    <2>3. Occupied(udp_table) = {} /\ udp_table.size = 0
        BY <1>1 DEF map_init, Occupied, Slots
    <2> QED BY <1>1, <1>3, <2>2, <2>3, FS_EmptySet DEF TableInv
<1>5. TypeOK
    <2>1. /\ pc \in Handlers \cup {"idle", "overrun"}
          /\ src \in {0, 6, 26}
          /\ pseudo \in 0 .. BUF_MAX_LEN \cup {NULL}
          /\ frame \in Frames \cup {NULL}
          /\ base \in 0 .. BUF_MAX_LEN
          /\ opened \in [Port -> Handler \cup {NULL}]
        BY <1>1, BufAssumption
    <2>2. flag \in BOOLEAN /\ sum_ok \in BOOLEAN /\ cleared \in BOOLEAN
        BY DEF Init
    <2> QED BY <1>2, <1>3, <2>1, <2>2, Zenon DEF TypeOK
<1>6. InsideInv /\ CallInv /\ PlaceInv /\ SumInv
    BY <1>1, <1>2 DEF InsideInv, CallInv, PlaceInv, SumInv
<1>7. Outcome /\ ToTheSender /\ LeftFartherOn
    BY <1>1 DEF Outcome, ToTheSender, LeftFartherOn
<1> QED BY <1>4, <1>5, <1>6, <1>7 DEF IInv

LEMMA NextInv == IInv /\ [Next]_vars => IInv'
<1> SUFFICES ASSUME IInv, [Next]_vars PROVE IInv'
    OBVIOUS
<1>1. CASE \E f \in Frames : driver_recv(f)
    BY <1>1, RecvStep
<1>2. CASE ethernet_in
    BY <1>2, EthernetStep
<1>3. CASE arp_in
    BY <1>3, ArpStep
<1>4. CASE ip_in
    BY <1>4, IpStep
<1>5. CASE icmp_in
    BY <1>5, IcmpStep
<1>6. CASE udp_in
    BY <1>6, UdpInStep
<1>7. CASE udp_checksum
    BY <1>7, UdpChecksumStep
<1>8. CASE udp_restore
    BY <1>8, UdpRestoreStep
<1>9. CASE udp_dispatch
    BY <1>9, UdpDispatchStep
<1>10. CASE \E p \in Port, h \in Handler : udp_open(p, h)
    BY <1>10, OpenStep
<1>11. CASE \E p \in Port : udp_close(p)
    BY <1>11, CloseStep
<1>12. CASE UNCHANGED vars
    BY <1>12, Stutter
<1> QED BY <1>1, <1>2, <1>3, <1>4, <1>5, <1>6, <1>7, <1>8, <1>9, <1>10, <1>11, <1>12
        DEF Next

(* The invariant holds in every state of the receiving path. *)
THEOREM Invariant == Spec => []IInv
    BY InitInv, NextInv, PTL DEF Spec

(* Whatever frames arrive, well-formed or not, no handler moves the data   *)
(* of rxbuf over the end of the payload, or in front of it.                *)
THEOREM TypeCorrect == Spec => []TypeOK
<1>1. IInv => TypeOK
    BY DEF IInv
<1> QED BY <1>1, Invariant, PTL

(* Every plain frame comes to what its headers ask for, in a payload of    *)
(* any size with any set of ports open.                                    *)
THEOREM OutcomeHolds == Spec => []Outcome
<1>1. IInv => Outcome
    BY DEF IInv
<1> QED BY <1>1, Invariant, PTL

(* What is sent or delivered on account of a frame of Ethernet II is for   *)
(* the sender in its IP header, which udp_checksum has overwritten for a   *)
(* while: pseudo is NULL again whenever src_ip is read.                    *)
THEOREM ToTheSenderHolds == Spec => []ToTheSender
<1>1. IInv => ToTheSender
    BY DEF IInv
<1> QED BY <1>1, Invariant, PTL

(* Every frame leaves data where 14 to 42 bytes fewer remain for the next. *)
THEOREM LeftFartherOnHolds == Spec => []LeftFartherOn
<1>1. IInv => LeftFartherOn
    BY DEF IInv
<1> QED BY <1>1, Invariant, PTL

(* The table of ports counts what is open, whatever has been opened again, *)
(* closed or refused before: its occupied slots and the open ports         *)
(* correspond one to one.                                                  *)
THEOREM PortsCountedHolds == Spec => []PortsCounted
<1> DEFINE used == Occupied(udp_table)
           open == {p \in Port : opened[p] # NULL}
           key  == [i \in used |-> udp_table.data[i].key]
<1>1. ASSUME TypeOK, TableInv
      PROVE  key \in Bijection(used, open)
    <2>1. /\ IsMap(udp_table) /\ KeysUnique(udp_table, 1)
          /\ Live(udp_table, 1) = used
          /\ NULL \notin Handler
        BY <1>1, Table, NothingExpires, ReceiveAssumption
    <2>2. ASSUME NEW i \in used PROVE key[i] \in open
        <3> DEFINE e == udp_table.data[i]
        <3>1. e \in Entries(udp_table, 1)
            BY <2>1 DEF Entries
        <3>2. e.key \in Port /\ e.value \in Handler
            BY <1>1, <3>1, Table
        <3>3. map_get(udp_table, e.key, 1) = e.value
            BY <2>1, <3>1, GetEntry
        <3> QED BY <1>1, <2>1, <3>2, <3>3 DEF TableInv
    <2>3. ASSUME NEW i \in used, NEW j \in used, key[i] = key[j] PROVE i = j
        BY <2>1, <2>3 DEF KeysUnique
    <2>4. ASSUME NEW p \in open PROVE \E i \in used : key[i] = p
        <3>1. Hits(udp_table, p, 1) # {}
            BY <1>1 DEF TableInv, map_get
        <3> QED BY <2>1, <3>1 DEF Hits
    <2> QED BY <2>2, <2>3, <2>4 DEF Bijection, Injection, Surjection, IsInjective
<1>2. ASSUME TypeOK, TableInv PROVE PortsCounted
    <2>1. IsFiniteSet(used)
        BY <1>2, Table, SlotSets
    <2>2. ExistsBijection(used, open)
        BY <1>1, <1>2 DEF ExistsBijection
    <2>3. Cardinality(open) = Cardinality(used)
        BY <2>1, <2>2, FS_Bijection
    <2> QED BY <1>2, <2>3 DEF TableInv, PortsCounted
<1>3. IInv => PortsCounted
    BY <1>2 DEF IInv
<1> QED BY <1>3, Invariant, PTL

=============================================================================
