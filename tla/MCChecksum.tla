----------------------------- MODULE MCChecksum -----------------------------
(* Checksum for a few words at the ends of their range and in the middle.  *)
EXTENDS Checksum
=============================================================================
