------------------------------- MODULE MCArp -------------------------------
(* Arp on a small instance.  Addresses of one kind are interchangeable. *)
EXTENDS Arp, TLC

Interchangeable == Permutations(Ip) \cup Permutations(Mac)
=============================================================================
