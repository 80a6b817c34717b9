------------------------------ MODULE MCDriver ------------------------------
(* Driver on a small instance.  net_if_ip is 000, without loss of          *)
(* generality: driver_find only compares it with other addresses.  Two     *)
(* interfaces with any address, one with any two, two with two of a few,   *)
(* and three with one of a few, which share one, two or all bits with      *)
(* net_if_ip.                                                              *)
EXTENDS Driver

zero == [i \in 1 .. Bits |-> 0]
Any == {e \in Entry : ~e.inet => e.addr = zero /\ e.mask = zero}
Few == {e \in Any : /\ e.addr \in {zero, <<0, 0, 1>>, <<0, 1, 1>>}
                    /\ e.inet => e.mask \in {netmask(1), netmask(2)}}
UpTo(n, S) == UNION {[1 .. k -> S] : k \in 0 .. n}
MCDevices ==
    UpTo(2, UpTo(1, Any)) \cup UpTo(1, UpTo(2, Any))
      \cup UpTo(2, UpTo(2, Few)) \cup UpTo(3, UpTo(1, Few))
=============================================================================
