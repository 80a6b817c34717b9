------------------------------- MODULE MCSend -------------------------------
(* Send for lengths around every limit: an empty datagram, the padding of  *)
(* ethernet_out, one, two and three full fragments, the largest datagram   *)
(* that IP can carry, and the largest that udp_send can be given.          *)
EXTENDS Send
=============================================================================
