-------------------------------- MODULE Send --------------------------------
(***************************************************************************)
(* The way of a datagram from udp_send or ICMP to the driver, seen from    *)
(* the buffers: every layer puts its header in front of the data in place, *)
(* udp_checksum moves the data about and back, ip_out cuts the datagram    *)
(* into buffers of its own, arp_out keeps one of them with buf_copy until  *)
(* the address is known, and ethernet_out pads whichever it gets.          *)
(*                                                                         *)
(* Arp.tla says when arp_out sends, stores or drops a packet; here it may  *)
(* do any of these.  A buffer is its window, as in Buf, and from at up to  *)
(* end the place in its payload where the packet was written: where the    *)
(* window should be, but for the padding.                                  *)
(***************************************************************************)
EXTENDS Buf

CONSTANTS UdpLengths,      \* what udp_send may be given
          IcmpLengths      \* lengths of ICMP messages

ASSUME SendAssumption ==
    /\ \A n \in UdpLengths : n \in Nat /\ n <= 65535
    /\ \A n \in IcmpLengths : n \in Nat /\ n >= 8 /\ n <= 65535
    /\ BUF_MAX_LEN = 131325

VARIABLES pc,
          txbuf,       \* the buffer of the upper layers and of arp_req
          offset,      \* of ip_out, in units of 8 bytes
          pending,     \* the value stored in arp_buf
          sent         \* the buffer driver_send was last called with

vars == <<pc, txbuf, offset, pending, sent>>

(* Sizes of the headers, of the largest and of the smallest packet.        *)
udp_hdr == 8
ip_hdr == 20
ether_hdr == 14
arp_pkt == 28
max_len == 1480
min_len == 46

None == [data |-> 0, len |-> 0, at |-> 0, end |-> 0]

Window(buf) == [data |-> buf.data, len |-> buf.len]
At(buf, win) == [data |-> win.data, len |-> win.len, at |-> buf.at, end |-> buf.end]

(* buf_init(len), and len bytes copied to data. *)
Filled(buf, len) ==
    LET win == buf_init(Window(buf), len)
    IN  [data |-> win.data, len |-> win.len,
         at |-> win.data, end |-> win.data + len]

(* A header of len bytes; the packet begins with it if it is in front.     *)
Headed(buf, len) ==
    LET win == buf_add_header(Window(buf), len)
    IN  [data |-> win.data, len |-> win.len, at |-> buf.at - len, end |-> buf.end]

(* ethernet_out up to driver_send.                                         *)
Padded(buf) ==
    IF buf.len < min_len
    THEN At(buf, buf_add_padding(Window(buf), min_len - buf.len)) ELSE buf
ethernet_out(buf) == Headed(Padded(buf), ether_hdr)

(* The copy's window is made from the length, its payload is the source's. *)
(* The variant pads the packet first.                                      *)
buf_copy_padded(src) ==
    At(Padded(src), buf_init(Window(None), Padded(src).len))
buf_copy(src) == At(src, buf_init(Window(None), src.len))

(* What arp_req and arp_resp build in txbuf, and send.                     *)
ArpFrame == ethernet_out(Filled(txbuf, arp_pkt))

(* The window after udp_checksum, which puts a pseudo header of 12 bytes   *)
(* in front of the data and a zero behind them if their number is odd.     *)
(* The variant forgets to remove the zero.                                 *)
Pseudo(win) == buf_remove_header(buf_add_header(win, ip_hdr), ip_hdr - 12)
Back(win) == buf_remove_header(buf_add_header(win, ip_hdr - 12), ip_hdr)
udp_checksum_padded(win) ==
    LET pseudo == Pseudo(win)
    IN  IF pseudo.len % 2 = 0 THEN Back(pseudo)
        ELSE Back(buf_add_padding(pseudo, 1))
udp_checksum(win) ==
    LET pseudo == Pseudo(win)
    IN  IF pseudo.len % 2 = 0 THEN Back(pseudo)
        ELSE buf_remove_padding(Back(buf_add_padding(pseudo, 1)), 1)

-----------------------------------------------------------------------------
Init ==
    /\ pc = "idle" /\ offset = 0
    /\ txbuf = ethernet_out(Filled(None, arp_pkt))
    /\ pending = None /\ sent = None

(* udp_out up to its call of ip_out. *)
udp_out(data) ==
    LET buf == Headed(data, udp_hdr) IN At(buf, udp_checksum(Window(buf)))

udp_send(len) ==
    /\ pc = "idle"
    /\ txbuf' = udp_out(Filled(txbuf, len))
    /\ offset' = 0
    /\ pc' = "ip_out"
    /\ UNCHANGED <<pending, sent>>

(* icmp_resp and icmp_unreachable. *)
icmp_out(len) ==
    /\ pc = "idle"
    /\ txbuf' = Filled(txbuf, len)
    /\ offset' = 0
    /\ pc' = "ip_out"
    /\ UNCHANGED <<pending, sent>>

(* arp_out with a packet: it is sent; dropped, as another one waits;       *)
(* stored and its address asked for; or asked for only, as arp_buf is      *)
(* full.                                                                   *)
arp_out(buf) ==
    \/ /\ sent' = ethernet_out(buf)
       /\ UNCHANGED <<txbuf, pending>>
    \/ UNCHANGED <<sent, txbuf, pending>>
    \/ /\ pending' \in {buf_copy(buf), pending}
       /\ txbuf' = ArpFrame /\ sent' = ArpFrame

(* ip_fragment_out with the first len bytes of txbuf. *)
ip_fragment_out(len) == arp_out(Headed(Filled(None, len), ip_hdr))

ip_out_fragment ==
    /\ pc = "ip_out" /\ txbuf.len > max_len
    /\ ip_fragment_out(max_len)
    /\ pc' = "advance"
    /\ UNCHANGED offset

(* A variant of the next step that counts in bytes. *)
ip_out_advance_bytes ==
    /\ pc = "advance"
    /\ txbuf' = At(txbuf, buf_remove_header(Window(txbuf), max_len))
    /\ offset' = (offset + max_len) % 65536
    /\ pc' = "ip_out"
    /\ UNCHANGED <<pending, sent>>

ip_out_advance ==
    /\ pc = "advance"
    /\ txbuf' = At(txbuf, buf_remove_header(Window(txbuf), max_len))
    /\ offset' = (offset + max_len \div 8) % 65536
    /\ pc' = "ip_out"
    /\ UNCHANGED <<pending, sent>>

(* The last fragment, or the only one.  There is always something left.    *)
ip_out_last ==
    /\ pc = "ip_out" /\ txbuf.len > 0 /\ txbuf.len <= max_len
    /\ ip_fragment_out(txbuf.len)
    /\ pc' = "idle"
    /\ UNCHANGED offset

(* arp_in sends what is stored, and answers a request only if nothing is.  *)
arp_in ==
    /\ pc = "idle" /\ pending # None
    /\ sent' = ethernet_out(pending)
    /\ pending' = None
    /\ UNCHANGED <<pc, txbuf, offset>>
arp_resp ==
    /\ pc = "idle"
    /\ txbuf' = ArpFrame /\ sent' = ArpFrame
    /\ UNCHANGED <<pc, offset, pending>>

Next ==
    \/ \E len \in UdpLengths : udp_send(len)
    \/ \E len \in IcmpLengths : icmp_out(len)
    \/ ip_out_fragment \/ ip_out_advance \/ ip_out_last
    \/ arp_in \/ arp_resp

Spec == Init /\ [][Next]_vars

-----------------------------------------------------------------------------
Buffer == [data : Nat, len : Nat, at : Nat, end : Nat]

(* Types; the offset leaves room for the three flags in its 16 bits.       *)
TypeOK ==
    /\ pc \in {"idle", "ip_out", "advance"}
    /\ txbuf \in Buffer /\ pending \in Buffer /\ sent \in Buffer
    /\ offset \in Nat /\ offset < 8192

(* What the driver sends is the packet as the layers wrote it, with its    *)
(* header in front and zeros behind it up to 60 bytes, no longer than a    *)
(* frame may be, and within the payload: for a packet that was sent at     *)
(* once and for one that arp_out has copied and arp_in sends, however long *)
(* the datagram and whatever became of txbuf meanwhile.                    *)
OnTheWire ==
    sent # None =>
      /\ sent.data = sent.at
      /\ sent.data + sent.len =
           IF sent.end - sent.at < min_len + ether_hdr
           THEN sent.at + min_len + ether_hdr ELSE sent.end
      /\ sent.len <= ether_hdr + ip_hdr + max_len
      /\ sent.data + sent.len <= BUF_MAX_LEN

(* udp_checksum leaves the buffer as it got it, so that ip_out begins with *)
(* the first byte of the datagram and cuts up all of it and nothing else.  *)
ChecksumRestores ==
    pc = "ip_out" /\ offset = 0 =>
      txbuf.data = txbuf.at /\ txbuf.data + txbuf.len = txbuf.end

=============================================================================
