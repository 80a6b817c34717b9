----------------------------- MODULE SendProofs -----------------------------
(* Theorems about Send, for datagrams of every length.                     *)
EXTENDS Send, TLAPS

LEMMA HalfValue == BUF_MAX_LEN = 131325 /\ Half = 65662
<1>1. 131325 \div 2 = 65662  BY SMT
<1> QED  BY <1>1, SendAssumption DEF Half

Buf4(d, n, a, e) == [data |-> d, len |-> n, at |-> a, end |-> e]
Win(d, n) == [data |-> d, len |-> n]

(* A buffer whose window is the n bytes in front of the middle of the      *)
(* payload, where they were written.                                       *)
Ready(n) == Buf4(65662 - n, n, 65662 - n, 65662)

(* Windows of records, and records with another window.                    *)
LEMMA Records ==
    ASSUME NEW d, NEW n, NEW a, NEW e, NEW d2, NEW n2
    PROVE  /\ Window(Buf4(d, n, a, e)) = Win(d, n)
           /\ At(Buf4(d, n, a, e), Win(d2, n2)) = Buf4(d2, n2, a, e)
<1>1. Window(Buf4(d, n, a, e)) = Win(d, n)
  BY DEF Window, Buf4, Win
<1>2. At(Buf4(d, n, a, e), Win(d2, n2)) = Buf4(d2, n2, a, e)
  BY DEF At, Buf4, Win
<1> QED  BY <1>1, <1>2

LEMMA HeadedRecord ==
    ASSUME NEW d, NEW n, NEW a, NEW e, NEW h, ~(d - h < 0)
    PROVE  Headed(Buf4(d, n, a, e), h) = Buf4(d - h, n + h, a - h, e)
<1>1. buf_add_header(Win(d, n), h) = Win(d - h, n + h)
  BY DEF buf_add_header, Win
<1>2. Window(Buf4(d, n, a, e)) = Win(d, n)
  BY Records
<1>3. Win(d - h, n + h).data = d - h /\ Win(d - h, n + h).len = n + h
  BY DEF Win
<1>4. Buf4(d, n, a, e).at = a /\ Buf4(d, n, a, e).end = e
  BY DEF Buf4
<1> QED  BY <1>1, <1>2, <1>3, <1>4 DEF Headed, Buf4

LEMMA FilledReady ==
    ASSUME NEW buf, NEW n \in Nat, n <= 65535
    PROVE  Filled(buf, n) = Ready(n)
<1>1. ~(n >= Half) /\ (65662 - n) + n = 65662
  BY HalfValue, SMT
<1>2. buf_init(Window(buf), n) = Win(65662 - n, n)
  BY <1>1, HalfValue DEF buf_init, Win
<1> QED  BY <1>1, <1>2 DEF Filled, Ready, Buf4, Win

LEMMA HeadedReady ==
    ASSUME NEW n \in Nat, NEW h \in Nat, n + h <= 65662
    PROVE  Headed(Ready(n), h) = Ready(n + h)
<1>1. ~((65662 - n) - h < 0) /\ (65662 - n) - h = 65662 - (n + h)
  BY SMT
<1> QED  BY <1>1, HeadedRecord DEF Ready

LEMMA CopyReady ==
    ASSUME NEW n \in Nat, n <= 65535
    PROVE  buf_copy(Ready(n)) = Ready(n)
<1>1. ~(n >= Half)
  BY HalfValue, SMT
<1>2. buf_init(Window(None), n) = Win(65662 - n, n)
  BY <1>1, HalfValue DEF buf_init, Win
<1>3. Ready(n).len = n
  BY DEF Ready, Buf4
<1>4. At(Ready(n), Win(65662 - n, n)) = Ready(n)
  BY Records DEF Ready
<1> QED  BY <1>2, <1>3, <1>4 DEF buf_copy

(* What may be given to the driver.                                        *)
IsFrame(buf) ==
    /\ buf \in Buffer
    /\ buf.data = buf.at
    /\ buf.data + buf.len =
         IF buf.end - buf.at < min_len + ether_hdr
         THEN buf.at + min_len + ether_hdr ELSE buf.end
    /\ buf.len <= ether_hdr + ip_hdr + max_len
    /\ buf.data + buf.len <= BUF_MAX_LEN

(* ethernet_out of a short packet, and of one that needs no padding.       *)
LEMMA EthernetShort ==
    ASSUME NEW n \in Nat, n < 46
    PROVE  /\ ethernet_out(Ready(n)) = Buf4(65648 - n, 60, 65648 - n, 65662)
           /\ IsFrame(ethernet_out(Ready(n)))
<1>1. /\ ~((65662 - n) + n + (46 - n) >= BUF_MAX_LEN) /\ n + (46 - n) = 46
      /\ 46 + 14 = 60 /\ ~((65662 - n) - 14 < 0)
      /\ (65662 - n) - 14 = 65648 - n
  BY HalfValue, SMT
<1>2. buf_add_padding(Win(65662 - n, n), 46 - n) = Win(65662 - n, 46)
  BY <1>1 DEF buf_add_padding, Win
<1>3. Ready(n).len = n
  BY DEF Ready, Buf4
<1>4. Padded(Ready(n)) = Buf4(65662 - n, 46, 65662 - n, 65662)
  <2>1. Window(Ready(n)) = Win(65662 - n, n)
    BY Records DEF Ready
  <2>2. Padded(Ready(n)) = At(Ready(n), Win(65662 - n, 46))
    BY <1>2, <1>3, <2>1 DEF Padded, min_len
  <2> QED  BY <2>2, Records DEF Ready
<1>5. ethernet_out(Ready(n)) = Buf4(65648 - n, 60, 65648 - n, 65662)
  BY <1>1, <1>4, HeadedRecord DEF ethernet_out, ether_hdr
<1>6. /\ 65648 - n \in Nat
      /\ 65662 - (65648 - n) < 46 + 14
      /\ (65648 - n) + 60 = (65648 - n) + 46 + 14
      /\ 60 <= 14 + 20 + 1480
      /\ (65648 - n) + 60 <= BUF_MAX_LEN
  BY HalfValue, SMT
<1> QED
  BY <1>5, <1>6 DEF IsFrame, Buf4, Buffer, min_len, ether_hdr, ip_hdr, max_len

LEMMA EthernetLong ==
    ASSUME NEW n \in Nat, n >= 46, n <= 1500
    PROVE  IsFrame(ethernet_out(Ready(n)))
<1>1. Ready(n).len = n
  BY DEF Ready, Buf4
<1>2. ~(n < 46) /\ n + 14 <= 65662
  BY SMT
<1>3. ethernet_out(Ready(n)) = Ready(n + 14)
  BY <1>1, <1>2, HeadedReady DEF ethernet_out, Padded, min_len, ether_hdr
<1>4. /\ 65662 - (n + 14) \in Nat /\ n + 14 \in Nat
      /\ ~(65662 - (65662 - (n + 14)) < 46 + 14)
      /\ (65662 - (n + 14)) + (n + 14) = 65662
      /\ n + 14 <= 14 + 20 + 1480
      /\ 65662 <= BUF_MAX_LEN
  BY HalfValue, SMT
<1> QED
  BY <1>3, <1>4
  DEF IsFrame, Ready, Buf4, Buffer, min_len, ether_hdr, ip_hdr, max_len

LEMMA EthernetOut ==
    ASSUME NEW n \in Nat, n <= 1500
    PROVE  IsFrame(ethernet_out(Ready(n)))
<1>1. n < 46 \/ n >= 46  BY SMT
<1> QED  BY <1>1, EthernetShort, EthernetLong

(* udp_checksum gives back the window it was given.                        *)
LEMMA ChecksumReady ==
    ASSUME NEW n \in Nat, n <= 65543
    PROVE  udp_checksum(Win(65662 - n, n)) = Win(65662 - n, n)
<1> DEFINE d == 65662 - n
<1>1. /\ d \in Nat /\ d + n = 65662 /\ d >= 119
  BY SMT
<1> HIDE DEF d
<1>2. Pseudo(Win(d, n)) = Win(d - 12, n + 12)
  <2>1. ~(d - 20 < 0) /\ ~(n + 20 < 8) /\ d - 20 + 8 = d - 12 /\ n + 20 - 8 = n + 12
        /\ 20 - 12 = 8
    BY <1>1, SMT
  <2>2. buf_add_header(Win(d, n), 20) = Win(d - 20, n + 20)
    BY <2>1 DEF buf_add_header, Win
  <2>3. buf_remove_header(Win(d - 20, n + 20), 8) = Win(d - 12, n + 12)
    BY <2>1 DEF buf_remove_header, Win
  <2> QED  BY <2>1, <2>2, <2>3 DEF Pseudo, ip_hdr
<1>3. ASSUME NEW m \in Nat  PROVE Back(Win(d - 12, m + 12)) = Win(d, m)
  <2>1. ~(d - 12 - 8 < 0) /\ ~(m + 12 + 8 < 20) /\ d - 12 - 8 + 20 = d
        /\ m + 12 + 8 - 20 = m /\ 20 - 12 = 8
    BY <1>1, <1>3, SMT
  <2>2. buf_add_header(Win(d - 12, m + 12), 8) = Win(d - 12 - 8, m + 12 + 8)
    BY <2>1 DEF buf_add_header, Win
  <2>3. buf_remove_header(Win(d - 12 - 8, m + 12 + 8), 20) = Win(d, m)
    BY <2>1 DEF buf_remove_header, Win
  <2> QED  BY <2>1, <2>2, <2>3 DEF Back, ip_hdr
<1>4. Win(d - 12, n + 12).len = n + 12
  BY DEF Win
<1>5. CASE (n + 12) % 2 = 0
  <2>1. Back(Win(d - 12, n + 12)) = Win(d, n)  BY <1>3
  <2> QED  BY <1>2, <1>4, <1>5, <2>1 DEF udp_checksum, d
<1>6. CASE (n + 12) % 2 # 0
  <2>1. ~(d - 12 + (n + 12) + 1 >= BUF_MAX_LEN) /\ n + 12 + 1 = (n + 1) + 12
        /\ n + 1 \in Nat /\ ~(n + 1 < 1) /\ n + 1 - 1 = n
    BY <1>1, HalfValue, SMT
  <2>2. buf_add_padding(Win(d - 12, n + 12), 1) = Win(d - 12, (n + 1) + 12)
    BY <2>1 DEF buf_add_padding, Win
  <2>3. Back(Win(d - 12, (n + 1) + 12)) = Win(d, n + 1)
    BY <1>3, <2>1
  <2>4. buf_remove_padding(Win(d, n + 1), 1) = Win(d, n)
    BY <2>1 DEF buf_remove_padding, Win
  <2> QED  BY <1>2, <1>4, <1>6, <2>2, <2>3, <2>4 DEF udp_checksum, d
<1> QED  BY <1>5, <1>6

LEMMA FragmentReady ==
    ASSUME NEW n \in Nat, n <= 1480
    PROVE  Headed(Filled(None, n), ip_hdr) = Ready(n + 20)
<1>1. n <= 65535 /\ n + 20 <= 65662
  BY SMT
<1>2. Filled(None, n) = Ready(n)
  BY <1>1, FilledReady
<1> QED  BY <1>1, <1>2, HeadedReady DEF ip_hdr

(* What arp_req and arp_resp leave in txbuf. *)
Leftover == Buf4(65620, 60, 65620, 65662)

LEMMA ArpFrameValue ==
    ASSUME NEW buf
    PROVE  /\ ethernet_out(Filled(buf, arp_pkt)) = Leftover
           /\ IsFrame(Leftover) /\ Leftover \in Buffer /\ Leftover.len = 60
<1>1. Filled(buf, arp_pkt) = Ready(28)
  BY FilledReady DEF arp_pkt
<1>2. 65648 - 28 = 65620 /\ 28 < 46
  OBVIOUS
<1>3. ethernet_out(Ready(28)) = Leftover /\ IsFrame(ethernet_out(Ready(28)))
  BY <1>2, EthernetShort DEF Leftover
<1>4. Leftover.len = 60
  BY DEF Leftover, Buf4
<1> QED  BY <1>1, <1>3, <1>4 DEF IsFrame

-----------------------------------------------------------------------------
(* A stored packet can be copied and sent; what was sent was right.        *)
PendingInv == pending = None \/ \E n \in Nat : n <= 1500 /\ pending = Ready(n)
SentInv == sent = None \/ IsFrame(sent)

(* ip_out begins with an untouched datagram, and the offset grows with     *)
(* what has been removed from it: together they never exceed the largest   *)
(* datagram, except that what is left may be an ARP frame.                 *)
LoopInv ==
    /\ pc \in {"idle", "ip_out", "advance"}
    /\ txbuf \in Buffer
    /\ offset \in Nat /\ offset < 8192 /\ offset % 185 = 0
    /\ pc = "ip_out" => txbuf.len <= 1480 \/ 8 * offset + txbuf.len <= 65543
    /\ pc = "advance" => /\ 8 * offset <= 64062
                         /\ txbuf.len < 1480 \/ 8 * offset + txbuf.len <= 65543
    /\ pc = "ip_out" /\ offset = 0 => \E n \in Nat : n <= 65543 /\ txbuf = Ready(n)

IInv == PendingInv /\ SentInv /\ LoopInv

LEMMA InitInv == Init => IInv
<1> SUFFICES ASSUME Init  PROVE IInv
  OBVIOUS
<1>1. txbuf \in Buffer
  BY ArpFrameValue DEF Init
<1>2. 0 \in Nat /\ 0 < 8192 /\ 0 % 185 = 0
  BY SMT
<1> QED  BY <1>1, <1>2 DEF Init, IInv, PendingInv, SentInv, LoopInv

(* The outcomes of arp_out.                                                *)
LEMMA ArpOutStep ==
    ASSUME IInv, NEW n \in Nat, n <= 1500, arp_out(Ready(n))
    PROVE  PendingInv' /\ SentInv' /\ (txbuf' = txbuf \/ txbuf' = Leftover)
<1>1. CASE sent' = ethernet_out(Ready(n)) /\ UNCHANGED <<txbuf, pending>>
  <2>1. IsFrame(sent')
    BY <1>1, EthernetOut
  <2> QED  BY <1>1, <2>1 DEF IInv, PendingInv, SentInv, IsFrame
<1>2. CASE UNCHANGED <<sent, txbuf, pending>>
  BY <1>2 DEF IInv, PendingInv, SentInv, IsFrame
<1>3. CASE /\ pending' \in {buf_copy(Ready(n)), pending}
           /\ txbuf' = ArpFrame /\ sent' = ArpFrame
  <2>1. ArpFrame = Leftover /\ IsFrame(Leftover)
    BY ArpFrameValue DEF ArpFrame
  <2>2. n <= 65535
    BY SMT
  <2>3. buf_copy(Ready(n)) = Ready(n)
    BY <2>2, CopyReady
  <2>4. PendingInv'
    BY <1>3, <2>3 DEF IInv, PendingInv
  <2> QED  BY <1>3, <2>1, <2>4 DEF SentInv, IsFrame
<1> QED  BY <1>1, <1>2, <1>3 DEF arp_out

LEMMA ReadyBuffer ==
    ASSUME NEW n \in Nat, n <= 65662
    PROVE  Ready(n) \in Buffer /\ Ready(n).len = n
<1>1. 65662 - n \in Nat
  BY SMT
<1> QED  BY <1>1 DEF Ready, Buf4, Buffer

LEMMA UdpSendInv ==
    ASSUME IInv, NEW len \in UdpLengths, udp_send(len)  PROVE IInv'
<1>1. len \in Nat /\ len <= 65535
  BY SendAssumption
<1>2. len + 8 \in Nat /\ len + 8 <= 65543 /\ len + 8 <= 65662
  BY <1>1, SMT
<1>3. Headed(Filled(txbuf, len), udp_hdr) = Ready(len + 8)
  BY <1>1, <1>2, FilledReady, HeadedReady DEF udp_hdr
<1>4. Window(Ready(len + 8)) = Win(65662 - (len + 8), len + 8)
  BY Records DEF Ready
<1>5. At(Ready(len + 8), Win(65662 - (len + 8), len + 8)) = Ready(len + 8)
  BY Records DEF Ready
<1>6. txbuf' = Ready(len + 8)
  BY <1>2, <1>3, <1>4, <1>5, ChecksumReady DEF udp_send, udp_out
<1>7. Ready(len + 8) \in Buffer /\ Ready(len + 8).len = len + 8
  BY <1>2, ReadyBuffer
<1>8. offset' = 0 /\ pc' = "ip_out" /\ UNCHANGED <<pending, sent>>
  BY DEF udp_send
<1>9. 8 * 0 + (len + 8) <= 65543 /\ 0 % 185 = 0
  BY <1>2, SMT
<1>10. LoopInv'
  BY <1>2, <1>6, <1>7, <1>8, <1>9 DEF LoopInv
<1> QED  BY <1>8, <1>10 DEF IInv, PendingInv, SentInv, IsFrame

LEMMA IcmpOutInv ==
    ASSUME IInv, NEW len \in IcmpLengths, icmp_out(len)  PROVE IInv'
<1>1. len \in Nat /\ len <= 65535
  BY SendAssumption
<1>2. len <= 65543 /\ len <= 65662
  BY <1>1, SMT
<1>3. txbuf' = Ready(len)
  BY <1>1, FilledReady DEF icmp_out
<1>4. Ready(len) \in Buffer /\ Ready(len).len = len
  BY <1>1, <1>2, ReadyBuffer
<1>5. offset' = 0 /\ pc' = "ip_out" /\ UNCHANGED <<pending, sent>>
  BY DEF icmp_out
<1>6. 8 * 0 + len <= 65543 /\ 0 % 185 = 0
  BY <1>1, SMT
<1>7. LoopInv'
  BY <1>1, <1>2, <1>3, <1>4, <1>5, <1>6 DEF LoopInv
<1> QED  BY <1>5, <1>7 DEF IInv, PendingInv, SentInv, IsFrame

LEMMA FragmentInv ==
    ASSUME IInv, ip_out_fragment  PROVE IInv'
<1>1. arp_out(Ready(1500))
  BY FragmentReady DEF ip_out_fragment, ip_fragment_out, max_len
<1>2. PendingInv' /\ SentInv' /\ (txbuf' = txbuf \/ txbuf' = Leftover)
  BY <1>1, ArpOutStep
<1>3. pc = "ip_out" /\ txbuf.len > 1480 /\ pc' = "advance" /\ offset' = offset
  BY DEF ip_out_fragment, max_len
<1>4. txbuf.len \in Nat /\ offset \in Nat
  BY DEF IInv, LoopInv, Buffer
<1>5. 8 * offset + txbuf.len <= 65543
  BY <1>3, <1>4, SMT DEF IInv, LoopInv
<1>6. 8 * offset <= 64062
  BY <1>3, <1>4, <1>5, SMT
<1>7. txbuf' \in Buffer
  BY <1>2, ArpFrameValue DEF IInv, LoopInv
<1>8. txbuf'.len < 1480 \/ 8 * offset' + txbuf'.len <= 65543
  BY <1>2, <1>3, <1>5, ArpFrameValue, SMT
<1>9. offset' \in Nat /\ offset' < 8192 /\ offset' % 185 = 0
  BY <1>3 DEF IInv, LoopInv
<1>10. LoopInv'
  BY <1>3, <1>6, <1>7, <1>8, <1>9 DEF LoopInv
<1> QED  BY <1>2, <1>10 DEF IInv

LEMMA AdvanceInv ==
    ASSUME IInv, ip_out_advance  PROVE IInv'
<1>1. /\ pc = "advance" /\ pc' = "ip_out" /\ UNCHANGED <<pending, sent>>
      /\ offset' = (offset + 1480 \div 8) % 65536
      /\ txbuf' = At(txbuf, buf_remove_header(Window(txbuf), 1480))
  BY DEF ip_out_advance, max_len
<1>2. /\ txbuf.len \in Nat /\ txbuf.data \in Nat /\ txbuf.at \in Nat
      /\ txbuf.end \in Nat /\ txbuf \in Buffer
      /\ offset \in Nat /\ offset % 185 = 0 /\ 8 * offset <= 64062
      /\ txbuf.len < 1480 \/ 8 * offset + txbuf.len <= 65543
  BY <1>1 DEF IInv, LoopInv, Buffer
<1>3. offset' = offset + 185
  <2>1. 1480 \div 8 = 185  BY SMT
  <2>2. offset + 185 < 65536  BY <1>2, SMT
  <2>3. (offset + 185) % 65536 = offset + 185  BY <1>2, <2>2, SMT
  <2> QED  BY <1>1, <2>1, <2>3
<1>4. /\ offset + 185 \in Nat /\ offset + 185 # 0
      /\ (offset + 185) % 185 = 0 /\ offset + 185 < 8192
  <2>1. (offset + 185) % 185 = 0  BY <1>2, SMT
  <2>2. offset + 185 < 8192  BY <1>2, SMT
  <2> QED  BY <1>2, <2>1, <2>2, SMT
<1>5. /\ Window(txbuf).len = txbuf.len /\ Window(txbuf).data = txbuf.data
      /\ Window(txbuf) = Win(txbuf.data, txbuf.len)
  BY DEF Window, Win
<1>6. CASE txbuf.len < 1480
  <2>1. buf_remove_header(Window(txbuf), 1480) = Win(txbuf.data, txbuf.len)
    BY <1>5, <1>6 DEF buf_remove_header
  <2>2. txbuf' = Buf4(txbuf.data, txbuf.len, txbuf.at, txbuf.end)
    BY <1>1, <2>1 DEF At, Buf4, Win
  <2>3. txbuf' \in Buffer /\ txbuf'.len = txbuf.len
    BY <1>2, <2>2 DEF Buffer, Buf4
  <2>4. txbuf.len <= 1480
    BY <1>2, <1>6, SMT
  <2>5. LoopInv'
    BY <1>1, <1>3, <1>4, <2>3, <2>4 DEF LoopInv
  <2> QED  BY <1>1, <2>5 DEF IInv, PendingInv, SentInv, IsFrame
<1>7. CASE ~(txbuf.len < 1480)
  <2>1. buf_remove_header(Window(txbuf), 1480) = Win(txbuf.data + 1480, txbuf.len - 1480)
    BY <1>5, <1>7 DEF buf_remove_header, Win
  <2>2. txbuf' = Buf4(txbuf.data + 1480, txbuf.len - 1480, txbuf.at, txbuf.end)
    BY <1>1, <2>1 DEF At, Buf4, Win
  <2>3. txbuf.len - 1480 \in Nat /\ txbuf.data + 1480 \in Nat
        /\ 8 * (offset + 185) + (txbuf.len - 1480) <= 65543
    BY <1>2, <1>7, SMT
  <2>4. txbuf' \in Buffer /\ txbuf'.len = txbuf.len - 1480
    BY <1>2, <2>2, <2>3 DEF Buffer, Buf4
  <2>5. LoopInv'
    BY <1>1, <1>3, <1>4, <2>3, <2>4 DEF LoopInv
  <2> QED  BY <1>1, <2>5 DEF IInv, PendingInv, SentInv, IsFrame
<1> QED  BY <1>6, <1>7

LEMMA LastInv ==
    ASSUME IInv, ip_out_last  PROVE IInv'
<1>1. txbuf.len \in Nat /\ txbuf.len <= 1480
  BY DEF IInv, LoopInv, Buffer, ip_out_last, max_len
<1>2. txbuf.len + 20 \in Nat /\ txbuf.len + 20 <= 1500
  BY <1>1, SMT
<1>3. arp_out(Ready(txbuf.len + 20))
  BY <1>1, FragmentReady DEF ip_out_last, ip_fragment_out
<1>4. PendingInv' /\ SentInv' /\ (txbuf' = txbuf \/ txbuf' = Leftover)
  BY <1>2, <1>3, ArpOutStep
<1>5. txbuf' \in Buffer
  BY <1>4, ArpFrameValue DEF IInv, LoopInv
<1>6. pc' = "idle" /\ offset' = offset
  BY DEF ip_out_last
<1> QED  BY <1>4, <1>5, <1>6 DEF IInv, LoopInv

LEMMA ArpInInv ==
    ASSUME IInv, arp_in  PROVE IInv'
<1>1. PICK n \in Nat : n <= 1500 /\ pending = Ready(n)
  BY DEF IInv, PendingInv, arp_in
<1>2. IsFrame(ethernet_out(pending))
  BY <1>1, EthernetOut
<1>3. sent' = ethernet_out(pending) /\ pending' = None /\ UNCHANGED <<pc, txbuf, offset>>
  BY DEF arp_in
<1>4. SentInv'
  BY <1>2, <1>3 DEF SentInv, IsFrame
<1> QED  BY <1>3, <1>4 DEF IInv, PendingInv, LoopInv

LEMMA ArpRespInv ==
    ASSUME IInv, arp_resp  PROVE IInv'
<1>1. /\ pc = "idle" /\ txbuf' = Leftover /\ sent' = Leftover
      /\ UNCHANGED <<pc, offset, pending>>
  BY ArpFrameValue DEF arp_resp, ArpFrame
<1>2. IsFrame(Leftover) /\ Leftover \in Buffer
  BY ArpFrameValue
<1>3. SentInv'
  BY <1>1, <1>2 DEF SentInv, IsFrame
<1> QED  BY <1>1, <1>2, <1>3 DEF IInv, PendingInv, LoopInv

(* IInv is an invariant. *)
THEOREM Invariant == Spec => []IInv
<1>1. IInv /\ [Next]_vars => IInv'
  <2> SUFFICES ASSUME IInv, [Next]_vars  PROVE IInv'
    OBVIOUS
  <2>1. ASSUME NEW len \in UdpLengths, udp_send(len)  PROVE IInv'
    BY <2>1, UdpSendInv
  <2>2. ASSUME NEW len \in IcmpLengths, icmp_out(len)  PROVE IInv'
    BY <2>2, IcmpOutInv
  <2>3. CASE ip_out_fragment  BY <2>3, FragmentInv
  <2>4. CASE ip_out_advance  BY <2>4, AdvanceInv
  <2>5. CASE ip_out_last  BY <2>5, LastInv
  <2>6. CASE arp_in  BY <2>6, ArpInInv
  <2>7. CASE arp_resp  BY <2>7, ArpRespInv
  <2>8. CASE UNCHANGED vars
    BY <2>8 DEF vars, IInv, PendingInv, SentInv, LoopInv, IsFrame
  <2> QED  BY <2>1, <2>2, <2>3, <2>4, <2>5, <2>6, <2>7, <2>8 DEF Next
<1> QED  BY <1>1, InitInv, PTL DEF Spec

(* Types and the range of the offset, for datagrams of every length.       *)
THEOREM TypeCorrect == Spec => []TypeOK
<1>1. IInv => TypeOK
  <2> SUFFICES ASSUME IInv  PROVE TypeOK
    OBVIOUS
  <2>1. None \in Buffer
    BY DEF None, Buffer
  <2>2. ASSUME NEW n \in Nat, n <= 1500  PROVE Ready(n) \in Buffer
    <3>1. n <= 65662  BY <2>2, SMT
    <3> QED  BY <3>1, ReadyBuffer
  <2>3. pending \in Buffer
    BY <2>1, <2>2 DEF IInv, PendingInv
  <2>4. sent \in Buffer
    BY <2>1 DEF IInv, SentInv, IsFrame
  <2> QED  BY <2>3, <2>4 DEF IInv, LoopInv, TypeOK
<1> QED  BY <1>1, Invariant, PTL

(* Every frame given to the driver is the packet that the layers wrote,    *)
(* for datagrams of every length.                                          *)
THEOREM OnTheWireHolds == Spec => []OnTheWire
<1>1. IInv => OnTheWire
  BY DEF IInv, SentInv, IsFrame, OnTheWire
<1> QED  BY <1>1, Invariant, PTL

(* udp_checksum restores the buffer, for datagrams of every length.        *)
THEOREM ChecksumRestoresHolds == Spec => []ChecksumRestores
<1>1. IInv => ChecksumRestores
  <2> SUFFICES ASSUME IInv, pc = "ip_out", offset = 0
               PROVE  txbuf.data = txbuf.at /\ txbuf.data + txbuf.len = txbuf.end
    BY DEF ChecksumRestores
  <2>1. PICK n \in Nat : n <= 65543 /\ txbuf = Ready(n)
    BY DEF IInv, LoopInv
  <2>2. txbuf.data = 65662 - n /\ txbuf.at = 65662 - n /\ txbuf.len = n /\ txbuf.end = 65662
    BY <2>1 DEF Ready, Buf4
  <2> QED  BY <2>1, <2>2, SMT
<1> QED  BY <1>1, Invariant, PTL

=============================================================================
