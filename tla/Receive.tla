------------------------------ MODULE Receive ------------------------------
(***************************************************************************)
(* The way of a received frame through the stack: driver_recv, ethernet_in,*)
(* net_in, ip_in, icmp_in, udp_in and the handlers of open UDP ports.  All *)
(* of them work on the one buffer rxbuf, each at the place where the       *)
(* callers before it have left data.  ethernet_init sets data once;        *)
(* driver_recv writes every frame where data points to.                    *)
(*                                                                         *)
(* A frame is a record of what its headers say; a handler that does not    *)
(* stand at its header reads the fields of an arbitrary frame.  A reply is *)
(* recorded in out and not followed further (IpOut does).                  *)
(*                                                                         *)
(* When a frame is written over the end of the payload the program's       *)
(* behaviour is undefined, and the model stops (pc = "overrun").           *)
(***************************************************************************)
EXTENDS Map, Buf

CONSTANTS Port, Handler,
          udp_size,          \* capacity of udp_table
          ETHERNET_MAX_TRANSPORT_UNIT,
          Frames             \* the frames that may arrive

ASSUME ReceiveAssumption ==
    /\ NULL \notin Port \cup Handler
    /\ udp_size \in Nat \ {0}
    /\ ETHERNET_MAX_TRANSPORT_UNIT \in Nat
    /\ ETHERNET_MAX_TRANSPORT_UNIT + 14 < Half

ASSUME FrameAssumption ==
    \A f \in Frames :
      /\ f.size \in 1 .. ETHERNET_MAX_TRANSPORT_UNIT + 14
      /\ f.type \in Nat /\ f.version \in Nat /\ f.ihl \in Nat
      /\ f.total_len \in Nat /\ f.protocol \in Nat /\ f.udp_len \in Nat
      /\ f.port \in Port

ASSUME VerdictAssumption ==
    \A f \in Frames :
      /\ f.sum_ok \in BOOLEAN /\ f.to_me \in BOOLEAN
      /\ f.l4_ok \in BOOLEAN /\ f.echo \in BOOLEAN

NET_PROTOCOL_ARP  == 2054
NET_PROTOCOL_IP   == 2048
NET_PROTOCOL_ICMP == 1
NET_PROTOCOL_UDP  == 17

VARIABLES rxbuf, udp_table,
          pc,        \* the handler that runs next
          src,       \* the argument src_ip: the place it points to, from base
          pseudo,    \* where udp_checksum has put a pseudo header, or NULL
          flag,      \* whether udp_checksum counts on a byte of padding
          sum_ok,    \* whether the two checksums are the same
          cleared,   \* whether the UDP checksum in rxbuf has been set to 0
          frame,     \* the frame in rxbuf
          base,      \* where in the payload it begins
          out,       \* what the stack did with it
          opened     \* history: the handler of each open port

local == <<src, pseudo, flag, sum_ok, cleared>>
history == <<frame, base, opened>>
vars == <<rxbuf, udp_table, pc, local, out, history>>

Nothing == [kind |-> "nothing"]
ArpPacket == [kind |-> "arp"]
Unreachable(code, quoted, to) ==
    [kind |-> "unreachable", code |-> code, quoted |-> quoted, to |-> to]
EchoReply(len, to) == [kind |-> "echo", len |-> len, to |-> to]
Delivery(handler, len, from) ==
    [kind |-> "delivery", handler |-> handler, len |-> len, to |-> from]

(* ethernet_init, and udp_init; net_table is never changed after net_init  *)
(* and stands for the operator net_handler.                                *)
Init ==
    /\ rxbuf = buf_init([data |-> 0, len |-> 0], ETHERNET_MAX_TRANSPORT_UNIT + 14)
    /\ udp_table = map_init(udp_size, 0)
    /\ pc = "idle" /\ src = 0 /\ pseudo = NULL
    /\ flag = FALSE /\ sum_ok = FALSE /\ cleared = FALSE
    /\ frame = NULL /\ base = 0 /\ out = Nothing
    /\ opened = [p \in Port |-> NULL]

(* net_table has one key space for the types of Ethernet frames and the    *)
(* protocols of IP datagrams.                                              *)
net_handler(protocol) ==
    CASE protocol = NET_PROTOCOL_ARP  -> "arp_in"
      [] protocol = NET_PROTOCOL_IP   -> "ip_in"
      [] protocol = NET_PROTOCOL_ICMP -> "icmp_in"
      [] protocol = NET_PROTOCOL_UDP  -> "udp_in"
      [] OTHER                        -> "idle"

net_in(buf, protocol, address) ==
    /\ rxbuf' = buf
    /\ pc' = net_handler(protocol) /\ src' = address
    /\ UNCHANGED <<pseudo, flag, sum_ok, cleared, out>>

Return(buf, what) ==
    /\ rxbuf' = buf /\ out' = what
    /\ pc' = "idle"
    /\ UNCHANGED local

(* A frame arrives. *)
driver_recv(f) ==
    /\ pc = "idle"
    /\ rxbuf' = [rxbuf EXCEPT !.len = f.size]
    /\ pc' = IF rxbuf.data + f.size > BUF_MAX_LEN THEN "overrun" ELSE "ethernet_in"
    /\ frame' = f /\ base' = rxbuf.data
    /\ out' = Nothing
    /\ cleared' = FALSE
    /\ UNCHANGED <<udp_table, src, pseudo, flag, sum_ok, opened>>

ethernet_in ==
    /\ pc = "ethernet_in"
    /\ \/ rxbuf.len < 14 /\ Return(rxbuf, Nothing)
       \/ rxbuf.len >= 14 /\ net_in(buf_remove_header(rxbuf, 14), frame.type, 6)
    /\ UNCHANGED <<udp_table, history>>

(* What arp_in does to its tables is in Arp; it leaves rxbuf as it is. *)
arp_in ==
    /\ pc = "arp_in"
    /\ Return(rxbuf, IF rxbuf.len < 8 THEN Nothing ELSE ArpPacket)
    /\ UNCHANGED <<udp_table, history>>

(* The bytes at src_ip; udp_checksum puts its pseudo header there. *)
SourceIp ==
    CASE pseudo # NULL /\ pseudo + 4 = base + src -> "host"
      [] src = 26 -> "sender"
      [] OTHER    -> "not an address"

(* A variant of the next definition that leaves the padding. *)
Trimmed_not == rxbuf

(* The datagram without the padding that follows it. *)
Trimmed ==
    IF rxbuf.len > frame.total_len
    THEN buf_remove_padding(rxbuf, rxbuf.len - frame.total_len) ELSE rxbuf

Acceptable ==
    /\ rxbuf.len >= 20
    /\ frame.version = 4 /\ frame.total_len <= rxbuf.len
    /\ frame.sum_ok /\ frame.to_me

ip_in ==
    /\ pc = "ip_in"
    /\ \/ ~Acceptable /\ Return(rxbuf, Nothing)
       \/ /\ Acceptable
          /\ frame.protocol \notin {NET_PROTOCOL_UDP, NET_PROTOCOL_ICMP}
          /\ Return(Trimmed, Unreachable("protocol", Trimmed.data - base, "sender"))
       \/ /\ Acceptable
          /\ frame.protocol \in {NET_PROTOCOL_UDP, NET_PROTOCOL_ICMP}
          /\ net_in(buf_remove_header(Trimmed, 20), frame.protocol, 26)
    /\ UNCHANGED <<udp_table, history>>

(* What a transport handler reads where it stands. *)
Seen == IF rxbuf.data = base + 14 + 4 * frame.ihl THEN {frame} ELSE Frames

(* What checksum16 says of len bytes: it leaves the last one of an odd     *)
(* number out, so that anything may come of it.                            *)
Verdicts(ok, len) == IF len % 2 = 0 THEN {ok} ELSE BOOLEAN

icmp_in ==
    /\ pc = "icmp_in"
    /\ \/ rxbuf.len < 8 /\ Return(rxbuf, Nothing)
       \/ \E f \in Seen : \E ok \in Verdicts(f.l4_ok, rxbuf.len) :
            /\ rxbuf.len >= 8
            /\ Return(rxbuf, IF ok /\ f.echo THEN EchoReply(rxbuf.len, SourceIp)
                             ELSE Nothing)
    /\ UNCHANGED <<udp_table, history>>

udp_in ==
    /\ pc = "udp_in"
    /\ \/ rxbuf.len < 8 /\ Return(rxbuf, Nothing)
       \/ \E f \in Seen : rxbuf.len < f.udp_len /\ Return(rxbuf, Nothing)
       \/ /\ rxbuf.len >= 8
          /\ \E f \in Seen : rxbuf.len >= f.udp_len
          /\ cleared' = TRUE
          /\ pc' = "udp_checksum"
          /\ UNCHANGED <<rxbuf, src, pseudo, flag, sum_ok, out>>
    /\ UNCHANGED <<udp_table, history>>

(* The pseudo header goes over the last 12 bytes of the IP header, and a   *)
(* byte of padding to the end of a datagram of odd length, if there is     *)
(* room.  The sum is over all bytes that IP left, whatever total_len16 of  *)
(* the UDP header says.                                                    *)
udp_checksum ==
    LET whole == buf_remove_header(buf_add_header(rxbuf, 20), 8)
    IN
    /\ pc = "udp_checksum"
    /\ flag' = (whole.len % 2 = 1)
    /\ rxbuf' = IF flag' THEN buf_add_padding(whole, 1) ELSE whole
    /\ pseudo' = rxbuf'.data
    /\ \E f \in Seen :
          sum_ok' \in IF f.udp_len = rxbuf.len THEN Verdicts(f.l4_ok, rxbuf'.len)
                      ELSE BOOLEAN
    /\ pc' = "udp_restore"
    /\ UNCHANGED <<udp_table, src, cleared, out, history>>

(* The end of udp_checksum: the IP header is put back. *)
Restored == buf_remove_header(buf_add_header(rxbuf, 8), 20)

(* A variant of the next step that does not put the IP header back. *)
udp_restore_forget ==
    /\ pc = "udp_restore"
    /\ rxbuf' = IF flag THEN buf_remove_padding(Restored, 1) ELSE Restored
    /\ flag' = FALSE
    /\ pc' = "udp_dispatch"
    /\ UNCHANGED <<udp_table, src, pseudo, sum_ok, cleared, out, history>>

udp_restore ==
    /\ pc = "udp_restore"
    /\ rxbuf' = IF flag THEN buf_remove_padding(Restored, 1) ELSE Restored
    /\ flag' = FALSE /\ pseudo' = NULL
    /\ pc' = "udp_dispatch"
    /\ UNCHANGED <<udp_table, src, sum_ok, cleared, out, history>>

(* The rest of udp_in: the handler of the port, or an error message with   *)
(* the IP header of the datagram in it.                                    *)
udp_dispatch ==
    /\ pc = "udp_dispatch"
    /\ \/ ~sum_ok /\ Return(rxbuf, Nothing)
       \/ \E f \in Seen :
            LET handler == map_get(udp_table, f.port, 1)
                ip      == buf_add_header(rxbuf, 20)
                data    == buf_remove_header(rxbuf, 8)
            IN /\ sum_ok
               /\ \/ /\ handler = NULL
                     /\ Return(ip, Unreachable("port", ip.data - base, SourceIp))
                  \/ /\ handler # NULL
                     /\ Return(data, Delivery(handler, data.len, SourceIp))
    /\ UNCHANGED <<udp_table, history>>

(* The application opens and closes ports between two frames. *)
udp_open(port, handler) ==
    /\ pc = "idle"
    /\ udp_table' = map_set(udp_table, port, handler, 1, 1)
    /\ opened' = [opened EXCEPT ![port] =
                    IF map_set_ret(udp_table, port, 1, 1) = 0 THEN handler ELSE @]
    /\ frame' = NULL /\ out' = Nothing
    /\ UNCHANGED <<rxbuf, pc, local, base>>

udp_close(port) ==
    /\ pc = "idle"
    /\ udp_table' = map_delete(udp_table, port, 1)
    /\ opened' = [opened EXCEPT ![port] = NULL]
    /\ frame' = NULL /\ out' = Nothing
    /\ UNCHANGED <<rxbuf, pc, local, base>>

Next ==
    \/ \E f \in Frames : driver_recv(f)
    \/ ethernet_in \/ arp_in \/ ip_in \/ icmp_in
    \/ udp_in \/ udp_checksum \/ udp_restore \/ udp_dispatch
    \/ \E p \in Port, h \in Handler : udp_open(p, h)
    \/ \E p \in Port : udp_close(p)

Spec == Init /\ [][Next]_vars

-----------------------------------------------------------------------------

Handlers == {"ethernet_in", "arp_in", "ip_in", "icmp_in", "udp_in",
             "udp_checksum", "udp_restore", "udp_dispatch"}

(* The type invariant: a frame that has been accepted, and what is left of *)
(* it, lie inside the payload.                                             *)
TypeOK ==
    /\ rxbuf \in BufType
    /\ udp_table \in MapType(Port, Handler, udp_size, 0)
    /\ pc \in Handlers \cup {"idle", "overrun"}
    /\ src \in {0, 6, 26}
    /\ pseudo \in 0 .. BUF_MAX_LEN \cup {NULL}
    /\ flag \in BOOLEAN /\ sum_ok \in BOOLEAN /\ cleared \in BOOLEAN
    /\ frame \in Frames \cup {NULL}
    /\ base \in 0 .. BUF_MAX_LEN
    /\ pc \in Handlers => Inside(rxbuf)
    /\ opened \in [Port -> Handler \cup {NULL}]

(* What the stack should do with a frame, read off its headers alone, when *)
(* the handler of port p is open[p].                                       *)
Transport(f, open) ==
    LET len == f.total_len - 20 IN
    CASE f.protocol \notin {NET_PROTOCOL_ICMP, NET_PROTOCOL_UDP} ->
           Unreachable("protocol", 14, "sender")
      [] f.protocol = NET_PROTOCOL_ICMP ->
           IF len >= 8 /\ f.l4_ok /\ f.echo THEN EchoReply(len, "sender") ELSE Nothing
      [] f.protocol = NET_PROTOCOL_UDP ->
           IF len < 8 \/ len < f.udp_len \/ ~f.l4_ok THEN Nothing
           ELSE IF open[f.port] = NULL THEN Unreachable("port", 14, "sender")
           ELSE Delivery(open[f.port], len - 8, "sender")

Accepted(f) ==
    /\ f.size >= 34 /\ f.version = 4 /\ f.total_len <= f.size - 14
    /\ f.sum_ok /\ f.to_me

Expected(f, open) ==
    CASE f.type = NET_PROTOCOL_ARP /\ f.size >= 22  -> ArpPacket
      [] f.type = NET_PROTOCOL_IP /\ Accepted(f)    -> Transport(f, open)
      [] OTHER                                      -> Nothing

(* net_in takes the length field of IEEE 802.3 for a type, too, and lengths *)
(* of 1 and 17 bytes for the protocols of a datagram.                      *)
EthernetII(f) == f.type \notin {NET_PROTOCOL_ICMP, NET_PROTOCOL_UDP}

(* The frames the handlers are right about: an IP header without options   *)
(* and with a length that includes it, an ICMP message of even length, and *)
(* a UDP header that gives the length of the rest of the datagram.         *)
Plain(f) ==
    /\ EthernetII(f)
    /\ f.type = NET_PROTOCOL_IP /\ Accepted(f) =>
         /\ f.ihl = 5 /\ f.total_len >= 20
         /\ f.protocol = NET_PROTOCOL_ICMP => f.total_len % 2 = 0
         /\ f.protocol = NET_PROTOCOL_UDP => f.udp_len >= f.total_len - 20

(* buf_add_padding finds room for its byte. *)
Room(f) == base + f.size + 1 < BUF_MAX_LEN

(* Every plain frame, wherever in the payload the frames before it have    *)
(* left the buffer, comes to what its headers ask for: it is dropped, or   *)
(* answered to its sender, from the length of the echo or the place of the *)
(* IP header that the answer has to quote, or given to the handler that    *)
(* has its port open, without headers and without padding.                 *)
(* (net_in, ip_in, icmp_in, udp_in and udp_checksum move rxbuf to and fro, *)
(* and read src_ip inside it after they have written over it.)             *)
Outcome ==
    pc = "idle" /\ frame # NULL /\ Plain(frame) /\ Room(frame)
        => out = Expected(frame, opened)

(* Of all frames of Ethernet II, those with options and lengths that make  *)
(* no sense too, none is answered or delivered as if it came from someone  *)
(* else than the sender in its IP header: what udp_checksum has put over   *)
(* src_ip is gone when a handler uses it.                                  *)
ToTheSender ==
    pc = "idle" /\ frame # NULL /\ EthernetII(frame)
        => out.kind \in {"nothing", "arp"} \/ out.to = "sender"

(* A frame of Ethernet II leaves the buffer 14 to 42 bytes farther on than *)
(* it found it, unless the length in its IP header does not even include   *)
(* the header, and driver_recv writes the next frame there: the frames     *)
(* wander through the payload, one way, and reach its end after at most    *)
(* BUF_MAX_LEN / 14 of them, though not before BUF_MAX_LEN / 2 / 42.       *)
LeftFartherOn ==
    pc = "idle" /\ frame # NULL /\ frame.size >= 14 /\ EthernetII(frame)
        => \/ rxbuf.data - base \in 14 .. 42
           \/ frame.type = NET_PROTOCOL_IP /\ Accepted(frame) /\ frame.total_len < 20

(* udp_table counts the open ports, so that udp_open (udp.c:150) refuses a *)
(* port only when udp_size others are open: no refusal, no handler set     *)
(* anew, no closing of a port that is not open costs a place.              *)
PortsCounted == udp_table.size = Cardinality({p \in Port : opened[p] # NULL})

(* buf.h:12 calls payload the largest amount of data, and driver_recv      *)
(* copies a frame to where data points to: no frame goes over its end.     *)
FrameFits == pc # "overrun"

(* udp.c:29 says that the IP layer has removed the header of the datagram  *)
(* before it passes it on.  False: ip_in removes 20 bytes where the header *)
(* has options, and nothing where total_len is below 20.                   *)
HeaderRemoved ==
    pc \in {"icmp_in", "udp_in"} /\ frame.type = NET_PROTOCOL_IP
        => rxbuf.data = base + 14 + 4 * frame.ihl

(* icmp.c:73 says that an error message has the IP header and the first 8  *)
(* bytes of the data of the datagram.  False: udp_in has cleared the       *)
(* checksum among those 8 bytes.                                           *)
QuotesDatagram ==
    out.kind = "unreachable" /\ Plain(frame) => out.quoted = 14 /\ ~cleared

(* icmp.c:56 says that an echo request is answered.  False: checksum16     *)
(* leaves out the last byte of an odd number, so that the request may be   *)
(* dropped.                                                                *)
EchoAnswered ==
    pc = "idle" /\ frame # NULL /\ Accepted(frame) /\ frame.ihl = 5
        /\ frame.type = NET_PROTOCOL_IP /\ frame.protocol = NET_PROTOCOL_ICMP
        /\ frame.total_len >= 28 /\ frame.l4_ok /\ frame.echo
        => out = EchoReply(frame.total_len - 20, "sender")

=============================================================================
