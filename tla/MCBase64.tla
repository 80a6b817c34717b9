------------------------------ MODULE MCBase64 ------------------------------
(* Base64 for every pair of bytes of which one is 0 or 255, which show all *)
(* values of six bits in all places, for the shortest strings, and for     *)
(* files around the ends of the first and the second line.                 *)
EXTENDS Base64

Pattern(n) == [k \in 1 .. n |-> (37 * k) % 256]

SmallFiles ==
    UNION {[1 .. n -> {0, 27, 228}] : n \in 0 .. 4}
    \cup {<<b, c>> : b \in 0 .. 255, c \in {0, 255}}
    \cup {<<c, b>> : b \in 0 .. 255, c \in {0, 255}}
    \cup {Pattern(n) : n \in {5, 6, 7, 8, 9, 10, 11, 17, 18, 19}}
NotEmpty == {f \in SmallFiles : f # <<>>}
=============================================================================
