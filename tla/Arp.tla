-------------------------------- MODULE Arp --------------------------------
(***************************************************************************)
(* Address resolution (src/arp.c): the table arp_table of <ip, mac>, the   *)
(* buffer arp_buf of <ip, packet> that holds one packet per unresolved     *)
(* address, the handlers arp_out and arp_in, and the wall clock both maps  *)
(* read.                                                                   *)
(*                                                                         *)
(* The stack is single-threaded: a handler runs to its end before another  *)
(* one starts.  What interleaves with it is the clock, which every map     *)
(* operation reads anew.  A step is what the code does from one reading of *)
(* the clock to the next, and Tick may come between any two steps; pc says *)
(* where in a handler the code stands, and cur holds its arguments.  A     *)
(* map_get that misses and the map_set after it are one step: under a      *)
(* clock that does not step back the miss still holds at the later         *)
(* reading.                                                                *)
(*                                                                         *)
(* handed, dest, sends, heard, asked and refused are history: they record  *)
(* what the code did, and no action reads them.                            *)
(***************************************************************************)
EXTENDS Map

CONSTANTS Ip, Mac,
          table_size,        \* capacity of arp_table
          buf_size,          \* capacity of arp_buf: 15 in the code
          ARP_TIMEOUT_SEC,   \* life of an entry of arp_table: 300
          ARP_MIN_INTERVAL,  \* life of an entry of arp_buf: 1
          MaxPackets,        \* bound: packets handed to arp_out
          MaxSkew,           \* bound: seconds that pass inside one map_set
          MaxTime            \* bound: the last second of the clock

ASSUME ArpAssumption ==
    /\ table_size \in Nat \ {0} /\ buf_size \in Nat \ {0}
    /\ ARP_MIN_INTERVAL \in Nat \ {0}
    /\ ARP_TIMEOUT_SEC \in Nat /\ ARP_MIN_INTERVAL <= ARP_TIMEOUT_SEC
    /\ MaxPackets \in Nat /\ MaxSkew \in Nat /\ MaxTime \in Nat \ {0}
    /\ NULL \notin Ip \cup Mac \cup Nat

Packet == 1 .. MaxPackets     \* in the order the IP layer hands them over

VARIABLES arp_table, arp_buf, now, pc, cur,
          frame,     \* what the last step gave to ethernet_out, or NULL
          handed,    \* number of packets handed to arp_out
          dest,      \* the address each of them is for
          sends,     \* how often each went out in a frame
          heard,     \* per address: the last MAC that claimed it, and when
          asked,     \* per address: when arp_out last requested it; 0: never
          refused    \* whether a map_set has ever failed

code == <<arp_table, arp_buf, now, pc, cur, frame>>
history == <<handed, dest, sends, heard, asked, refused>>
vars == <<code, history>>

NoCall == [ip |-> NULL, pkt |-> NULL, mac |-> NULL, asks |-> FALSE]

DataFrame(p, mac)    == [kind |-> "ip", pkt |-> p, mac |-> mac, ip |-> NULL]
RequestFrame(ip)     == [kind |-> "request", pkt |-> NULL, mac |-> NULL, ip |-> ip]
ReplyFrame(ip, mac)  == [kind |-> "reply", pkt |-> NULL, mac |-> mac, ip |-> ip]

(* After arp_init: both maps are empty and the host has announced itself   *)
(* with a request for its own address, which arp_buf knows nothing of.     *)
Init ==
    /\ arp_table = map_init(table_size, ARP_TIMEOUT_SEC)
    /\ arp_buf = map_init(buf_size, ARP_MIN_INTERVAL)
    /\ now = 1
    /\ pc = "idle" /\ cur = NoCall
    /\ frame = NULL
    /\ handed = 0
    /\ dest = [p \in Packet |-> NULL]
    /\ sends = [p \in Packet |-> 0]
    /\ heard = [ip \in Ip |-> [mac |-> NULL, time |-> 0]]
    /\ asked = [ip \in Ip |-> 0]
    /\ refused = FALSE

Return == pc' = "idle" /\ cur' = NoCall

SendData(p, mac) ==
    /\ frame' = DataFrame(p, mac)
    /\ sends' = [sends EXCEPT ![p] = @ + 1]

(* arp_out: a packet for ip.  A known address is used at once; otherwise   *)
(* the handler goes on to look at the buffer.                              *)
arp_out(ip) ==
    /\ pc = "idle" /\ handed < MaxPackets
    /\ handed' = handed + 1
    /\ dest' = [dest EXCEPT ![handed + 1] = ip]
    /\ LET dst_mac == map_get(arp_table, ip, now)
       IN \/ dst_mac # NULL /\ SendData(handed + 1, dst_mac) /\ Return
          \/ /\ dst_mac = NULL
             /\ pc' = "out_buf"
             /\ cur' = [NoCall EXCEPT !.ip = ip, !.pkt = handed + 1]
             /\ frame' = NULL /\ UNCHANGED sends
    /\ UNCHANGED <<arp_table, arp_buf, now, heard, asked, refused>>

(* A variant of the rest of arp_out that does not look for a waiting packet. *)
arp_out_buf_replace ==
    LET ip == cur.ip IN
    /\ pc = "out_buf"
    /\ arp_buf' = map_set(arp_buf, ip, cur.pkt, now, now)
    /\ refused' = (refused \/ map_set_ret(arp_buf, ip, now, now) = -1)
    /\ frame' = RequestFrame(ip)
    /\ asked' = [asked EXCEPT ![ip] = now]
    /\ Return
    /\ UNCHANGED <<arp_table, now, handed, dest, sends, heard>>

(* The rest of arp_out: drop the packet if one is waiting for the same     *)
(* address, otherwise store it and request the address.  The result of     *)
(* map_set is not looked at.                                               *)
arp_out_buf ==
    LET ip == cur.ip IN
    /\ pc = "out_buf"
    /\ \/ /\ map_get(arp_buf, ip, now) # NULL
          /\ frame' = NULL
          /\ UNCHANGED <<arp_buf, asked, refused>>
       \/ /\ map_get(arp_buf, ip, now) = NULL
          /\ arp_buf' = map_set(arp_buf, ip, cur.pkt, now, now)
          /\ refused' = (refused \/ map_set_ret(arp_buf, ip, now, now) = -1)
          /\ frame' = RequestFrame(ip)
          /\ asked' = [asked EXCEPT ![ip] = now]
    /\ Return
    /\ UNCHANGED <<arp_table, now, handed, dest, sends, heard>>

(* arp_in: a well-formed ARP packet in which mac claims ip; asks says      *)
(* whether it is a request for this host's address.  Packets that fail the *)
(* header check change nothing and are left out.                           *)
arp_in(ip, mac, asks) ==
    /\ pc = "idle"
    /\ \E u \in now .. now + MaxSkew :
        /\ u <= MaxTime
        /\ now' = u
        /\ arp_table' = map_set(arp_table, ip, mac, now, u)
        /\ refused' = (refused \/ map_set_ret(arp_table, ip, now, u) = -1)
        /\ heard' = [heard EXCEPT ![ip] = [mac |-> mac, time |-> u]]
    /\ pc' = "in_lookup"
    /\ cur' = [NoCall EXCEPT !.ip = ip, !.mac = mac, !.asks = asks]
    /\ frame' = NULL
    /\ UNCHANGED <<arp_buf, handed, dest, sends, asked>>

(* Variants of the next step: one answers a request before it looks for a  *)
(* waiting packet, one does not test whether there is any.                 *)
arp_in_lookup_answer_first ==
    LET waiting == map_get(arp_buf, cur.ip, now) IN
    /\ pc = "in_lookup"
    /\ \/ /\ waiting # NULL /\ ~cur.asks
          /\ SendData(waiting, cur.mac)
          /\ pc' = "in_delete" /\ UNCHANGED cur
       \/ /\ waiting = NULL \/ cur.asks
          /\ frame' = IF cur.asks THEN ReplyFrame(cur.ip, cur.mac) ELSE NULL
          /\ Return /\ UNCHANGED sends
    /\ UNCHANGED <<arp_table, arp_buf, now, handed, dest, heard, asked, refused>>
arp_in_lookup_unchecked ==
    /\ pc = "in_lookup"
    /\ SendData(map_get(arp_buf, cur.ip, now), cur.mac)
    /\ pc' = "in_delete" /\ UNCHANGED cur
    /\ UNCHANGED <<arp_table, arp_buf, now, handed, dest, heard, asked, refused>>

(* A packet that waits for the sender goes out, and then the request in    *)
(* hand is not answered; otherwise it is, if it is one for this host.      *)
arp_in_lookup ==
    LET waiting == map_get(arp_buf, cur.ip, now) IN
    /\ pc = "in_lookup"
    /\ \/ /\ waiting # NULL
          /\ SendData(waiting, cur.mac)
          /\ pc' = "in_delete" /\ UNCHANGED cur
       \/ /\ waiting = NULL
          /\ frame' = IF cur.asks THEN ReplyFrame(cur.ip, cur.mac) ELSE NULL
          /\ Return /\ UNCHANGED sends
    /\ UNCHANGED <<arp_table, arp_buf, now, handed, dest, heard, asked, refused>>

(* A variant of the next step that leaves the packet in the buffer. *)
arp_in_delete_none ==
    /\ pc = "in_delete"
    /\ Return
    /\ frame' = NULL
    /\ UNCHANGED <<arp_table, arp_buf, now, history>>

(* The packet just sent leaves the buffer, unless it has expired by now:   *)
(* then map_delete does not find it, and its slot stays counted.           *)
arp_in_delete ==
    /\ pc = "in_delete"
    /\ arp_buf' = map_delete(arp_buf, cur.ip, now)
    /\ Return
    /\ frame' = NULL
    /\ UNCHANGED <<arp_table, now, history>>

Tick ==
    /\ now < MaxTime
    /\ now' = now + 1
    /\ frame' = NULL
    /\ UNCHANGED <<arp_table, arp_buf, pc, cur, history>>

Next ==
    \/ \E ip \in Ip : arp_out(ip)
    \/ arp_out_buf
    \/ \E ip \in Ip, mac \in Mac, asks \in BOOLEAN : arp_in(ip, mac, asks)
    \/ arp_in_lookup
    \/ arp_in_delete
    \/ Tick

Spec == Init /\ [][Next]_vars

-----------------------------------------------------------------------------
Pending(ip) == map_get(arp_buf, ip, now)
Resolved(ip) == map_get(arp_table, ip, now)

Frame ==
    {DataFrame(p, mac) : p \in Packet, mac \in Mac}
      \cup {RequestFrame(ip) : ip \in Ip}
      \cup {ReplyFrame(ip, mac) : ip \in Ip, mac \in Mac}

(* Types of the two maps, of the handler in progress and of the history.   *)
TypeOK ==
    /\ arp_table \in MapType(Ip, Mac, table_size, ARP_TIMEOUT_SEC)
    /\ arp_buf \in MapType(Ip, Packet, buf_size, ARP_MIN_INTERVAL)
    /\ now \in Nat \ {0}
    /\ pc \in {"idle", "out_buf", "in_lookup", "in_delete"}
    /\ pc = "idle" <=> cur = NoCall
    /\ pc # "idle" => cur.ip \in Ip /\ cur.asks \in BOOLEAN
    /\ pc = "out_buf" => cur.pkt = handed /\ handed # 0 /\ dest[handed] = cur.ip
    /\ pc \in {"in_lookup", "in_delete"} => cur.mac \in Mac
    /\ frame \in Frame \cup {NULL}
    /\ handed \in 0 .. MaxPackets
    /\ dest \in [Packet -> Ip \cup {NULL}]
    /\ sends \in [Packet -> Nat]
    /\ heard \in [Ip -> [mac : Mac \cup {NULL}, time : Nat]]
    /\ asked \in [Ip -> Nat]
    /\ refused \in BOOLEAN

(* No packet goes out twice, even when the entry of arp_buf expires        *)
(* between the lookup that sends it and the map_delete that should remove  *)
(* it, and the address is resolved, lost and resolved again.               *)
SentAtMostOnce == \A p \in Packet : sends[p] <= 1

(* Packets for one address go out in the order they were handed over: none *)
(* overtakes an older one that waits for the address to be resolved.       *)
InOrder ==
    [][\A p \in Packet :
         sends'[p] > sends[p] =>
           \A q \in Packet : q > p /\ dest[q] = dest'[p] => sends[q] = 0]_vars

(* Every data frame is addressed to the MAC that claimed the destination   *)
(* last, and no longer than ARP_TIMEOUT_SEC ago: a full table or an entry  *)
(* that is written again never brings an older claim back.                 *)
LastClaimWins ==
    [][frame' # NULL /\ frame'.kind = "ip" =>
         LET claim == heard'[dest'[frame'.pkt]]
         IN  /\ frame'.mac = claim.mac
             /\ claim.time + ARP_TIMEOUT_SEC >= now]_vars

(* Between two calls no packet waits for an address that is resolved: the  *)
(* claim that resolves it takes the waiting packet along.                  *)
NoneWaitsResolved ==
    pc = "idle" => \A ip \in Ip : Pending(ip) = NULL \/ Resolved(ip) = NULL

(* A waiting packet leaves the buffer only by being sent or by expiring: a *)
(* later packet for the same address, or one for another address, does not *)
(* take its place.                                                         *)
KeptUntilSent ==
    [][\A ip \in Ip :
         LET p == Pending(ip) IN
         p # NULL /\ map_get(arp_buf, ip, now') = p =>
           Pending(ip)' = p \/ sends'[p] = 1]_vars

(* Two requests for one address are more than ARP_MIN_INTERVAL apart as    *)
(* long as no map_set has failed.                                          *)
RequestsSpaced ==
    [][frame' # NULL /\ frame'.kind = "request" /\ ~refused' =>
         \/ asked[frame'.ip] = 0
         \/ now - asked[frame'.ip] > ARP_MIN_INTERVAL]_vars

(* config.h:36, the smallest interval between two requests to the same     *)
(* address, and arp.c:171, no request while one is unanswered.  False      *)
(* once arp_buf is exhausted: every packet is then dropped, and every one  *)
(* causes a request.                                                       *)
MinRequestInterval ==
    [][frame' # NULL /\ frame'.kind = "request" =>
         \/ asked[frame'.ip] = 0
         \/ now - asked[frame'.ip] >= ARP_MIN_INTERVAL]_vars

=============================================================================
