------------------------------ MODULE MCIpOut ------------------------------
(* IpOut on a small instance: datagrams that just fit, just do not, and    *)
(* need three fragments.                                                   *)
EXTENDS IpOut, TLC

Sizes == {1480, 1481, 3000}
Interchangeable == Permutations(Ip) \cup Permutations(Mac)
=============================================================================
