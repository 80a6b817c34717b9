----------------------------- MODULE MCTimedMap -----------------------------
(* TimedMap on a small instance. *)
EXTENDS TimedMap
=============================================================================
