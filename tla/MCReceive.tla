----------------------------- MODULE MCReceive -----------------------------
(* Sixteen frames, the largest ones without padding, in a payload a few hundred bytes long. *)
EXTENDS Receive

CONSTANTS p1, p2, h1, h2

Ip(size, total_len, protocol, udp_len, port) ==
    [size |-> size, type |-> NET_PROTOCOL_IP, version |-> 4, ihl |-> 5,
     total_len |-> total_len, sum_ok |-> TRUE, to_me |-> TRUE,
     protocol |-> protocol, l4_ok |-> TRUE, echo |-> TRUE,
     udp_len |-> udp_len, port |-> port]

Echo  == Ip(60, 32, NET_PROTOCOL_ICMP, 0, p1)
Odd   == Ip(60, 33, NET_PROTOCOL_ICMP, 0, p1)
Dgram == Ip(60, 31, NET_PROTOCOL_UDP, 11, p1)
Full  == Ip(61, 47, NET_PROTOCOL_UDP, 27, p2)
Tcp   == Ip(60, 40, 6, 0, p1)

MCFrames ==
    {Echo, Odd, Dgram, Full, Tcp,
     [Tcp EXCEPT !.size = 12],                        \* a runt
     [Tcp EXCEPT !.type = NET_PROTOCOL_ARP],
     [Tcp EXCEPT !.type = 34525],                     \* IPv6
     [Full EXCEPT !.type = NET_PROTOCOL_UDP],         \* 802.3, 17 bytes
     [Full EXCEPT !.l4_ok = FALSE],
     [Full EXCEPT !.udp_len = 28],
     [Full EXCEPT !.udp_len = 20],
     [Dgram EXCEPT !.ihl = 6, !.total_len = 35],
     [Dgram EXCEPT !.total_len = 19],
     [Echo EXCEPT !.total_len = 60],
     [Echo EXCEPT !.to_me = FALSE]}
=============================================================================
