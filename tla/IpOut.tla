------------------------------- MODULE IpOut -------------------------------
(***************************************************************************)
(* Sending an IP datagram (ip_out and ip_fragment_out in src/ip.c) on top  *)
(* of address resolution (Arp).  UDP and ICMP build the datagram in the    *)
(* buffer txbuf and pass that buffer to ip_out, which cuts fragments from  *)
(* its front, copies each to a buffer of its own and hands it to arp_out.  *)
(* arp_req and arp_resp build their frames in the same txbuf.              *)
(*                                                                         *)
(* Bytes are not modelled one by one: a buffer holds len consecutive bytes *)
(* of something, from one of its bytes on.  frag, current and slow are     *)
(* history.                                                                *)
(***************************************************************************)
EXTENDS Arp

CONSTANTS Lengths,       \* lengths of the datagrams of the upper layers
          max_len,         \* payload of the largest fragment: 1480
          ArpFrameLen      \* an ARP packet, padded, with its header: 60

ASSUME IpAssumption ==
    /\ max_len \in Nat \ {0} /\ max_len % 8 = 0
    /\ \A len \in Lengths : len \in Nat /\ len > 0 /\ len <= 65535
    /\ ArpFrameLen \in 1 .. max_len

VARIABLES txbuf, ip_pc,
          ip_call,     \* the arguments of ip_out, and its variable offset
          ip_id,
          frag,        \* what each packet handed to arp_out is
          current,     \* the datagram in hand: its size, its first packet
          slow         \* the calls of ip_out during which the second changed

ipVars == <<txbuf, ip_pc, ip_call, ip_id, frag, current, slow>>
allVars == <<vars, ipVars>>

NoIpCall   == [ip |-> NULL, offset |-> 0]
NoDatagram == [size |-> 0, first |-> 0, started |-> 0]

(* A buffer filled by an upper layer with datagram number d, and the frame *)
(* arp_req and arp_resp leave behind in txbuf.                             *)
Datagram(d, len) == [of |-> d, from |-> 0, len |-> len]
ArpFrame == [of |-> NULL, from |-> 0, len |-> ArpFrameLen]

(* buf_remove_header fails, and changes nothing, if the buffer is shorter. *)
(* The variant does not test that.                                         *)
buf_remove_header_unchecked(b, n) ==
    [b EXCEPT !.from = @ + n, !.len = @ - n]
buf_remove_header(b, n) ==
    IF b.len < n THEN b ELSE [b EXCEPT !.from = @ + n, !.len = @ - n]

IpInit ==
    /\ Init
    /\ txbuf = ArpFrame
    /\ ip_pc = "idle" /\ ip_call = NoIpCall /\ ip_id = 0
    /\ frag = [p \in Packet |-> NULL]
    /\ current = NoDatagram
    /\ slow = {}

(* ip_out, called by udp_out, icmp_resp or icmp_unreachable with a full    *)
(* txbuf.  The bound MaxPackets leaves room for all fragments.             *)
ip_out(ip, len) ==
    /\ ip_pc = "idle" /\ pc = "idle"
    /\ handed + 1 + (len - 1) \div max_len <= MaxPackets
    /\ txbuf' = Datagram(ip_id, len)
    /\ ip_pc' = IF len > max_len THEN "loop" ELSE "last"
    /\ ip_call' = [ip |-> ip, offset |-> 0]
    /\ current' = [size |-> len, first |-> handed + 1, started |-> now]
    /\ UNCHANGED <<vars, ip_id, frag, slow>>

(* A fragment of the first len bytes of txbuf, copied to ip_buf.  id16 is  *)
(* what 16 bits hold of ip_id; call and started say when it was made.      *)
ip_fragment_out(len, mf) ==
    /\ arp_out(ip_call.ip)
    /\ frag' = [frag EXCEPT ![handed + 1] =
                  [ of |-> txbuf.of, from |-> txbuf.from, len |-> len,
                    id |-> ip_id % 65536, offset |-> ip_call.offset, mf |-> mf,
                    call |-> ip_id, started |-> current.started ]]

(* One fragment from the loop of ip_out. *)
ip_out_fragment ==
    /\ ip_pc = "loop" /\ pc = "idle"
    /\ ip_fragment_out(max_len, 1)
    /\ ip_pc' = "advance"
    /\ UNCHANGED <<txbuf, ip_call, ip_id, current, slow>>

(* A variant of the next step that counts the offset in bytes. *)
ip_out_advance_bytes ==
    LET rest == buf_remove_header(txbuf, max_len) IN
    /\ ip_pc = "advance" /\ pc = "idle"
    /\ txbuf' = rest
    /\ ip_call' = [ip_call EXCEPT !.offset = @ + max_len]
    /\ ip_pc' = IF rest.len > max_len THEN "loop" ELSE "last"
    /\ UNCHANGED <<vars, ip_id, frag, current, slow>>

(* The end of the loop's body, after arp_out has returned: txbuf may be    *)
(* another one by now.                                                     *)
ip_out_advance ==
    LET rest == buf_remove_header(txbuf, max_len) IN
    /\ ip_pc = "advance" /\ pc = "idle"
    /\ txbuf' = rest
    /\ ip_call' = [ip_call EXCEPT !.offset = @ + max_len \div 8]
    /\ ip_pc' = IF rest.len > max_len THEN "loop" ELSE "last"
    /\ UNCHANGED <<vars, ip_id, frag, current, slow>>

(* What is left after the loop, or the whole of a short datagram.  (After  *)
(* the loop the code tests that something is left, which is always so.)    *)
ip_out_last ==
    /\ ip_pc = "last" /\ pc = "idle"
    /\ txbuf.len > 0
    /\ ip_fragment_out(txbuf.len, 0)
    /\ ip_pc' = "end"
    /\ UNCHANGED <<txbuf, ip_call, ip_id, current, slow>>

ip_out_end ==
    /\ ip_pc = "end" /\ pc = "idle"
    /\ ip_id' = ip_id + 1
    /\ ip_pc' = "idle" /\ ip_call' = NoIpCall /\ current' = NoDatagram
    /\ UNCHANGED <<vars, txbuf, frag, slow>>

(* The steps of Arp.  A request or a reply overwrites txbuf; a packet that *)
(* comes in is handled between two calls of ip_out.                        *)
BuildsArpFrame ==
    txbuf' = IF frame' # NULL /\ frame'.kind \in {"request", "reply"}
             THEN ArpFrame ELSE txbuf

ArpOut ==
    /\ arp_out_buf /\ BuildsArpFrame
    /\ UNCHANGED <<ip_pc, ip_call, ip_id, frag, current, slow>>

ArpIn ==
    /\ ip_pc = "idle"
    /\ \/ \E ip \in Ip, mac \in Mac, asks \in BOOLEAN : arp_in(ip, mac, asks)
       \/ arp_in_lookup
       \/ arp_in_delete
    /\ BuildsArpFrame
    /\ UNCHANGED <<ip_pc, ip_call, ip_id, frag, current, slow>>

Clock ==
    /\ Tick
    /\ slow' = IF ip_pc = "idle" THEN slow ELSE slow \cup {ip_id}
    /\ UNCHANGED <<txbuf, ip_pc, ip_call, ip_id, frag, current>>

IpNext ==
    \/ \E ip \in Ip, len \in Lengths : ip_out(ip, len)
    \/ ip_out_fragment
    \/ ip_out_advance
    \/ ip_out_last
    \/ ip_out_end
    \/ ArpOut
    \/ ArpIn
    \/ Clock

IpSpec == IpInit /\ [][IpNext]_allVars

-----------------------------------------------------------------------------
Below(n) == {x \in Nat : x < n}
Fragment ==
    [ of : Nat \cup {NULL}, from : Nat, len : Nat \ {0}, id : Below(65536),
      offset : Below(8192), mf : {0, 1}, call : Nat, started : Nat ]

(* Types of txbuf, of the call of ip_out in progress and of the history;   *)
(* the offset of a fragment fits into its 13 bits.                         *)
IpTypeOK ==
    /\ txbuf \in [of : Nat \cup {NULL}, from : Nat, len : Nat]
    /\ ip_pc \in {"idle", "loop", "advance", "last", "end"}
    /\ ip_pc = "idle" <=> ip_call = NoIpCall
    /\ ip_pc # "idle" => ip_call.ip \in Ip /\ ip_call.offset \in Below(8192)
    /\ ip_pc = "loop" => txbuf.len > max_len
    /\ ip_id \in Nat
    /\ \A p \in Packet : IF p <= handed THEN frag[p] \in Fragment ELSE frag[p] = NULL
    /\ current \in [size : Nat, first : Nat, started : Nat]
    /\ slow \subseteq 0 .. ip_id

FromArp(p) == frag[p].of = NULL
Handed == 1 .. handed

(* A datagram whose transmission was not interrupted by a request is cut   *)
(* into fragments from which a receiver gets it back: the first starts at  *)
(* byte 0, each next one where the one before ends, each at its offset     *)
(* times 8, and the last, alone with mf = 0, ends at the last byte.        *)
Reassembles ==
    ip_pc = "end" /\ pc = "idle" /\ (\A p \in current.first .. handed : ~FromArp(p)) =>
      /\ current.first <= handed
      /\ frag[current.first].from = 0
      /\ frag[handed].from + frag[handed].len = current.size
      /\ \A p \in current.first .. handed :
           /\ frag[p].of = ip_id
           /\ 8 * frag[p].offset = frag[p].from
           /\ frag[p].mf = 0 <=> p = handed
           /\ p # handed => frag[p + 1].from = frag[p].from + frag[p].len

(* A fragment that carries an ARP frame instead of its part of the         *)
(* datagram can go out, or wait to, only if the call of ip_out that made   *)
(* it took longer than ARP_MIN_INTERVAL: otherwise the fragment before it, *)
(* which caused the request, still waits, and arp_out drops this one.      *)
ArpFrameStaysInside ==
    \A p \in Handed :
      FromArp(p) /\ (sends[p] > 0 \/ \E ip \in Ip : Pending(ip) = p) =>
        asked[dest[p]] - frag[p].started > ARP_MIN_INTERVAL

(* No fragment goes out without those before it unless the second changes  *)
(* within ip_out: while an address is unresolved arp_buf keeps the first   *)
(* fragment and loses the others, not the other way round.                 *)
PrefixSent ==
    \A p, q \in Handed :
      /\ p < q /\ frag[p].call = frag[q].call /\ frag[p].call \notin slow
      /\ sends[q] > 0
      => sends[p] > 0

(* net.h:25 and net.c:31: "one buf is enough for a single thread".  Every  *)
(* fragment carries a part of the datagram.  False: the request for an     *)
(* unknown address is built in txbuf while ip_out still reads from it.     *)
OneBufIsEnough == \A p \in Handed : ~FromArp(p)

=============================================================================
