------------------------------- MODULE MCLan -------------------------------
(* Lan on a small instance. *)
EXTENDS Lan
=============================================================================
