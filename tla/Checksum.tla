------------------------------ MODULE Checksum ------------------------------
(***************************************************************************)
(* checksum16 (src/utils.c): the words are added up in 32 bits, and the    *)
(* carries are folded in at the end.  What it should compute is the        *)
(* one's complement sum of the words, where every carry is added at once   *)
(* (end-around).  The code runs on a little-endian machine and never swaps *)
(* the words it adds nor the result ("the checksum must not be swapped",   *)
(* udp.c:77), while the sum is meant for words in network byte order.      *)
(***************************************************************************)
EXTENDS Integers

CONSTANTS Word,      \* the words that data consist of
          MaxLen     \* the longest data, in bytes: less than 65662 in the
                     \* code, where buf_init refuses more

(* The values of a uint16_t. *)
Word16 == {x \in Nat : x <= 65535}

ASSUME ChecksumAssumption ==
    /\ Word \subseteq Word16
    /\ MaxLen \in Nat /\ MaxLen <= 131070

VARIABLES i,               \* bytes that are left
          check_number,    \* the accumulator, a uint32_t, by its halves
          checksum,        \* what is returned; -1 before
          ones,            \* history: one's complement sum of the words
          network          \* history: the same in network byte order

vars == <<i, check_number, checksum, ones, network>>

Init ==
    /\ i \in 0 .. MaxLen
    /\ check_number = [hi |-> 0, lo |-> 0]
    /\ checksum = -1
    /\ ones = 0 /\ network = 0

swap16(x) == (x % 256) * 256 + x \div 256

(* One's complement addition of two words. *)
Plus(x, y) == IF x + y > 65535 THEN x + y - 65535 ELSE x + y

(* Variants of Fold: without the second step, and without cutting off what *)
(* is above 16 bits.                                                       *)
Fold_wide(n) == n.hi + n.lo
Fold_once(n) == (n.hi + n.lo) % 65536

(* The two steps that add the carries to the low half.                     *)
Fold(n) ==
    LET once == n.hi + n.lo
    IN  (once + once \div 65536) % 65536

(* A variant of Plus32 whose accumulator has only two bits for carries.    *)
Plus32_short(n, w) ==
    [hi |-> (n.hi + (n.lo + w) \div 65536) % 4, lo |-> (n.lo + w) % 65536]

(* Addition in 32 bits. *)
Plus32(n, w) ==
    [hi |-> (n.hi + (n.lo + w) \div 65536) % 65536, lo |-> (n.lo + w) % 65536]

(* One turn of the loop.  A single last byte is left out.                  *)
Add(w) ==
    /\ i > 1
    /\ check_number' = Plus32(check_number, w)
    /\ ones' = Plus(ones, w)
    /\ network' = Plus(network, swap16(w))
    /\ i' = i - 2
    /\ UNCHANGED checksum

(* After the loop: the complement of the folded sum. *)
Return ==
    /\ i <= 1 /\ checksum = -1
    /\ checksum' = 65535 - Fold(check_number)
    /\ UNCHANGED <<i, check_number, ones, network>>

Next == (\E w \in Word : Add(w)) \/ Return

Spec == Init /\ [][Next]_vars

-----------------------------------------------------------------------------
(* Types of the variables: the loop ends at 0 or 1 and does not run past.  *)
TypeOK ==
    /\ i \in Nat /\ i <= MaxLen
    /\ check_number \in [hi : Word16, lo : Word16]
    /\ checksum \in Word16 \cup {-1}
    /\ ones \in Word16 /\ network \in Word16

(* What checksum16 returns is the complement of the one's complement sum:  *)
(* the accumulator never overflows, and two folds are enough, whatever the *)
(* words and however many.                                                 *)
IsOnesComplement == checksum # -1 => checksum = 65535 - ones

(* The result, stored as it is, is right on the wire: its two bytes, read  *)
(* in network order, are the complement of the sum of the words in network *)
(* order, although neither the words nor the result were ever swapped.     *)
RightOnTheWire == checksum # -1 => swap16(checksum) = 65535 - network

=============================================================================
