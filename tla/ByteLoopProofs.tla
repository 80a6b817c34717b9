--------------------------- MODULE ByteLoopProofs --------------------------
(***************************************************************************)
(* Theorems about the two parts of the repository that run over bytes and  *)
(* whose result has a definition that does not mention the loop: the       *)
(* checksum (Checksum, for all words and all lengths) and the coders of    *)
(* base64 (Base64, for all files, buffer sizes and line lengths).          *)
(***************************************************************************)
EXTENDS Checksum, Base64, SequenceTheorems, TLAPS

(***************************************************************************)
(* Checksum                                                                *)
(***************************************************************************)

LEMMA Word16Def ==
    \A x : x \in Word16 <=> x \in Nat /\ x <= 65535
<1>1. ASSUME NEW x \in Nat, x <= 65535  PROVE x \in Word16
  BY <1>1, SMT DEF Word16
<1>2. ASSUME NEW x \in Word16  PROVE x \in Nat /\ x <= 65535
  BY <1>2, SMT DEF Word16
<1> QED  BY <1>1, <1>2

(* Division of what fits into 17 bits by 2 ^ 16. *)
LEMMA Carry0 ==
    ASSUME NEW s \in Nat, s <= 65535
    PROVE  s \div 65536 = 0 /\ s % 65536 = s
BY SMT

LEMMA Carry1 ==
    ASSUME NEW s \in Nat, s > 65535, s <= 131071
    PROVE  s \div 65536 = 1 /\ s % 65536 = s - 65536
BY SMT

(* Division of a word by 2 ^ 8. *)
LEMMA Bytes ==
    ASSUME NEW x \in Nat, x <= 65535
    PROVE  /\ x \div 256 \in Nat /\ x \div 256 <= 255
           /\ x % 256 \in Nat /\ x % 256 <= 255
           /\ x = 256 * (x \div 256) + (x % 256)
<1>1. x \div 256 \in Nat /\ x \div 256 <= 255  BY SMT
<1>2. x % 256 \in Nat /\ x % 256 <= 255  BY SMT
<1>3. x % 256 = x - 256 * (x \div 256)  BY SMT
<1> QED  BY <1>1, <1>2, <1>3, SMT

(* What the two folds do to the sum s of the halves. *)
LEMMA Folded ==
    ASSUME NEW s \in Nat, s <= 131070
    PROVE  (s + s \div 65536) % 65536 = IF s <= 65535 THEN s ELSE s - 65535
<1>1. CASE s <= 65535
  <2>1. s \div 65536 = 0 /\ s % 65536 = s  BY <1>1, Carry0
  <2>2. s + s \div 65536 = s  BY <2>1, SMT
  <2> QED  BY <1>1, <2>1, <2>2
<1>2. CASE s > 65535
  <2>1. s \div 65536 = 1  BY <1>2, SMT
  <2>2. s + s \div 65536 = s + 1  BY <2>1
  <2>3. (s + 1) % 65536 = s + 1 - 65536  BY <1>2, SMT
  <2>4. s + 1 - 65536 = s - 65535 /\ ~(s <= 65535)  BY <1>2, SMT
  <2> QED  BY <2>2, <2>3, <2>4
<1> QED  BY <1>1, <1>2, SMT

LEMMA FoldValue ==
    ASSUME NEW n, n.hi \in Nat, n.lo \in Nat, n.hi <= 65535, n.lo <= 65535
    PROVE  Fold(n) = IF n.hi + n.lo <= 65535 THEN n.hi + n.lo
                     ELSE n.hi + n.lo - 65535
<1>1. n.hi + n.lo \in Nat /\ n.hi + n.lo <= 131070  BY SMT
<1> QED  BY <1>1, Folded DEF Fold

(* An addition that does not overflow. *)
LEMMA Plus32Value ==
    ASSUME NEW n, n.hi \in Nat, n.lo \in Nat, n.hi < 65535, n.lo <= 65535,
           NEW w \in Nat, w <= 65535
    PROVE  /\ n.lo + w <= 65535 =>
                Plus32(n, w) = [hi |-> n.hi, lo |-> n.lo + w]
           /\ n.lo + w > 65535 =>
                Plus32(n, w) = [hi |-> n.hi + 1, lo |-> n.lo + w - 65536]
<1>1. ASSUME n.lo + w <= 65535
      PROVE  Plus32(n, w) = [hi |-> n.hi, lo |-> n.lo + w]
  <2>1. (n.lo + w) \div 65536 = 0 /\ (n.lo + w) % 65536 = n.lo + w
    BY <1>1, SMT
  <2>2. (n.hi + 0) % 65536 = n.hi
    BY SMT
  <2> QED  BY <2>1, <2>2 DEF Plus32
<1>2. ASSUME n.lo + w > 65535
      PROVE  Plus32(n, w) = [hi |-> n.hi + 1, lo |-> n.lo + w - 65536]
  <2>1. (n.lo + w) \div 65536 = 1 /\ (n.lo + w) % 65536 = n.lo + w - 65536
    BY <1>2, SMT
  <2>2. (n.hi + 1) % 65536 = n.hi + 1
    BY SMT
  <2> QED  BY <2>1, <2>2 DEF Plus32
<1> QED  BY <1>1, <1>2

(* Folding after an addition is adding in one's complement after a fold.   *)
LEMMA FoldPlus ==
    ASSUME NEW n, n.hi \in Nat, n.lo \in Nat, n.hi < 65535, n.lo <= 65535,
           NEW w \in Nat, w <= 65535
    PROVE  /\ Fold(Plus32(n, w)) = Plus(Fold(n), w)
           /\ Plus32(n, w) \in [hi : Word16, lo : Word16]
           /\ Plus32(n, w).hi <= n.hi + 1
<1> DEFINE h == n.hi
           l == n.lo
<1>0. /\ h \in Nat /\ l \in Nat /\ h < 65535 /\ l <= 65535
      /\ Fold(n) = IF h + l <= 65535 THEN h + l ELSE h + l - 65535
  <2>1. n.hi <= 65535  BY SMT
  <2> QED  BY <2>1, FoldValue
<1>1. CASE l + w <= 65535
  <2> DEFINE m == [hi |-> h, lo |-> l + w]
  <2>1. Plus32(n, w) = m /\ m.hi = h /\ m.lo = l + w
    BY <1>1, Plus32Value
  <2>2. m.hi \in Nat /\ m.lo \in Nat /\ m.hi <= 65535 /\ m.lo <= 65535
    BY <1>0, <1>1, SMT
  <2>3. Fold(m) = IF m.hi + m.lo <= 65535 THEN m.hi + m.lo ELSE m.hi + m.lo - 65535
    BY <2>2, FoldValue
  <2>4. Fold(m) = IF h + (l + w) <= 65535 THEN h + (l + w) ELSE h + (l + w) - 65535
    BY <2>1, <2>3
  <2>5. m \in [hi : Word16, lo : Word16]
    BY <2>1, <2>2, Word16Def
  <2> HIDE DEF m, h, l
  <2>6. Fold(m) = Plus(Fold(n), w)
    BY <1>0, <1>1, <2>4, SMT DEF Plus
  <2>7. m.hi <= h + 1
    BY <1>0, <2>1, SMT
  <2> QED  BY <2>1, <2>5, <2>6, <2>7 DEF h
<1>2. CASE l + w > 65535
  <2> DEFINE m == [hi |-> h + 1, lo |-> l + w - 65536]
  <2>1. Plus32(n, w) = m /\ m.hi = h + 1 /\ m.lo = l + w - 65536
    BY <1>2, Plus32Value
  <2>2. m.hi \in Nat /\ m.lo \in Nat /\ m.hi <= 65535 /\ m.lo <= 65535
    BY <1>0, <1>2, SMT
  <2>3. Fold(m) = IF m.hi + m.lo <= 65535 THEN m.hi + m.lo ELSE m.hi + m.lo - 65535
    BY <2>2, FoldValue
  <2>4. Fold(m) = IF (h + 1) + (l + w - 65536) <= 65535
                  THEN (h + 1) + (l + w - 65536)
                  ELSE (h + 1) + (l + w - 65536) - 65535
    BY <2>1, <2>3
  <2>5. m \in [hi : Word16, lo : Word16]
    BY <2>1, <2>2, Word16Def
  <2> HIDE DEF m, h, l
  <2>6. Fold(m) = Plus(Fold(n), w)
    BY <1>0, <1>2, <2>4, SMT DEF Plus
  <2>7. m.hi <= h + 1
    BY <1>0, <2>1, SMT
  <2> QED  BY <2>1, <2>5, <2>6, <2>7 DEF h
<1> QED  BY <1>0, <1>1, <1>2, SMT

(* The bytes of a word after a swap. *)
LEMMA SwapBytes ==
    ASSUME NEW e, NEW f, NEW z, e \in Nat, f \in Nat, e <= 255, f <= 255,
           z = 256 * e + f
    PROVE  swap16(z) = 256 * f + e
<1>1. (256 * e + f) % 256 = f  BY SMT
<1>2. (256 * e + f) \div 256 = e  BY SMT
<1>3. swap16(z) = f * 256 + e  BY <1>1, <1>2 DEF swap16
<1> QED  BY <1>3, SMT

(* Swapping the bytes of a one's complement sum is summing swapped words.  *)
LEMMA SwapPlus ==
    ASSUME NEW x \in Nat, x <= 65535, NEW y \in Nat, y <= 65535
    PROVE  swap16(Plus(x, y)) = Plus(swap16(x), swap16(y))
<1> DEFINE a == x \div 256
           b == x % 256
           c == y \div 256
           d == y % 256
<1>1. /\ a \in Nat /\ a <= 255 /\ b \in Nat /\ b <= 255 /\ x = 256 * a + b
      /\ c \in Nat /\ c <= 255 /\ d \in Nat /\ d <= 255 /\ y = 256 * c + d
  BY Bytes
<1>2. swap16(x) = b * 256 + a /\ swap16(y) = d * 256 + c
  BY DEF swap16
<1> HIDE DEF a, b, c, d
<1>4. CASE b + d < 256 /\ a + c < 256
  <2>1. Plus(x, y) = 256 * (a + c) + (b + d)  BY <1>1, <1>4, SMT DEF Plus
  <2>2. a + c \in Nat /\ a + c <= 255 /\ b + d \in Nat /\ b + d <= 255
    BY <1>1, <1>4, SMT
  <2>3. swap16(Plus(x, y)) = 256 * (b + d) + (a + c)
    BY <2>1, <2>2, SwapBytes
  <2> QED  BY <1>1, <1>2, <1>4, <2>3, SMT DEF Plus
<1>5. CASE b + d < 255 /\ a + c >= 256
  <2>1. Plus(x, y) = 256 * (a + c - 256) + (b + d + 1)
    BY <1>1, <1>5, SMT DEF Plus
  <2>2. /\ a + c - 256 \in Nat /\ a + c - 256 <= 255
        /\ b + d + 1 \in Nat /\ b + d + 1 <= 255
    BY <1>1, <1>5, SMT
  <2>3. swap16(Plus(x, y)) = 256 * (b + d + 1) + (a + c - 256)
    BY <2>1, <2>2, SwapBytes
  <2> QED  BY <1>1, <1>2, <1>5, <2>3, SMT DEF Plus
<1>6. CASE b + d >= 256 /\ a + c < 255
  <2>1. Plus(x, y) = 256 * (a + c + 1) + (b + d - 256)
    BY <1>1, <1>6, SMT DEF Plus
  <2>2. /\ a + c + 1 \in Nat /\ a + c + 1 <= 255
        /\ b + d - 256 \in Nat /\ b + d - 256 <= 255
    BY <1>1, <1>6, SMT
  <2>3. swap16(Plus(x, y)) = 256 * (b + d - 256) + (a + c + 1)
    BY <2>1, <2>2, SwapBytes
  <2> QED  BY <1>1, <1>2, <1>6, <2>3, SMT DEF Plus
<1>7. CASE b + d = 255 /\ a + c >= 256
  <2>1. Plus(x, y) = 256 * (a + c - 255) + 0
    BY <1>1, <1>7, SMT DEF Plus
  <2>2. a + c - 255 \in Nat /\ a + c - 255 <= 255 /\ 0 \in Nat /\ 0 <= 255
    BY <1>1, <1>7, SMT
  <2>3. swap16(Plus(x, y)) = 256 * 0 + (a + c - 255)
    BY <2>1, <2>2, SwapBytes
  <2> QED  BY <1>1, <1>2, <1>7, <2>3, SMT DEF Plus
<1>8. CASE b + d >= 256 /\ a + c >= 255
  <2>1. Plus(x, y) = 256 * (a + c - 255) + (b + d - 255)
    BY <1>1, <1>8, SMT DEF Plus
  <2>2. /\ a + c - 255 \in Nat /\ a + c - 255 <= 255
        /\ b + d - 255 \in Nat /\ b + d - 255 <= 255
    BY <1>1, <1>8, SMT
  <2>3. swap16(Plus(x, y)) = 256 * (b + d - 255) + (a + c - 255)
    BY <2>1, <2>2, SwapBytes
  <2> QED  BY <1>1, <1>2, <1>8, <2>3, SMT DEF Plus
<1> QED  BY <1>1, <1>4, <1>5, <1>6, <1>7, <1>8, SMT

LEMMA SwapType == \A x \in Word16 : swap16(x) \in Word16
<1> SUFFICES ASSUME NEW x \in Word16  PROVE swap16(x) \in Word16
  OBVIOUS
<1>1. x \in Nat /\ x <= 65535  BY Word16Def
<1> DEFINE a == x \div 256
           b == x % 256
<1>2. a \in Nat /\ a <= 255 /\ b \in Nat /\ b <= 255  BY <1>1, Bytes
<1>3. swap16(x) = b * 256 + a  BY DEF swap16
<1> HIDE DEF a, b
<1>4. b * 256 + a \in Nat /\ b * 256 + a <= 65535  BY <1>2, SMT
<1> QED  BY <1>3, <1>4, Word16Def

LEMMA SwapComplement ==
    \A x \in Word16 : swap16(65535 - x) = 65535 - swap16(x)
<1> SUFFICES ASSUME NEW x \in Word16
             PROVE  swap16(65535 - x) = 65535 - swap16(x)
  OBVIOUS
<1>1. x \in Nat /\ x <= 65535  BY Word16Def
<1> DEFINE a == x \div 256
           b == x % 256
<1>2. /\ a \in Nat /\ a <= 255 /\ b \in Nat /\ b <= 255
      /\ x = 256 * a + b
  BY <1>1, Bytes
<1>3. swap16(x) = b * 256 + a  BY DEF swap16
<1> HIDE DEF a, b
<1>4. 65535 - x = 256 * (255 - a) + (255 - b)  BY <1>2, SMT
<1>5. (65535 - x) % 256 = 255 - b /\ (65535 - x) \div 256 = 255 - a
  <2> DEFINE e == 255 - a
             f == 255 - b
  <2>1. e \in Nat /\ e <= 255 /\ f \in Nat /\ f <= 255 /\ 65535 - x = 256 * e + f
    BY <1>2, <1>4, SMT
  <2> HIDE DEF e, f
  <2>2. (256 * e + f) % 256 = f /\ (256 * e + f) \div 256 = e
    <3>1. (256 * e + f) % 256 = f  BY <2>1, SMT
    <3>2. (256 * e + f) \div 256 = e  BY <2>1, SMT
    <3> QED  BY <3>1, <3>2
  <2> QED  BY <2>1, <2>2 DEF e, f
<1>6. swap16(65535 - x) = (255 - b) * 256 + (255 - a)
  BY <1>5 DEF swap16
<1> QED  BY <1>2, <1>3, <1>6, SMT

LEMMA PlusType == \A x, y \in Word16 : Plus(x, y) \in Word16
<1> SUFFICES ASSUME NEW x \in Word16, NEW y \in Word16
             PROVE  Plus(x, y) \in Word16
  OBVIOUS
<1>1. x \in Nat /\ x <= 65535 /\ y \in Nat /\ y <= 65535  BY Word16Def
<1>2. Plus(x, y) \in Nat /\ Plus(x, y) <= 65535  BY <1>1, SMT DEF Plus
<1> QED  BY <1>2, Word16Def

(* The accumulator is kept small by the bytes that are left, and folding   *)
(* it now gives the sum so far, in either order of bytes.                  *)
IInv ==
    /\ TypeOK
    /\ 2 * check_number.hi + i <= MaxLen
    /\ Fold(check_number) = ones
    /\ swap16(ones) = network
    /\ checksum # -1 => checksum = 65535 - ones
    /\ i > 1 => checksum = -1

(* IInv is an invariant. *)
THEOREM Invariant == Spec => []IInv
<1>1. Init => IInv
  <2> SUFFICES ASSUME Init  PROVE IInv
    OBVIOUS
  <2>1. i \in 0 .. MaxLen /\ MaxLen \in Nat
    BY ChecksumAssumption DEF Init
  <2>2. i \in Nat /\ i <= MaxLen /\ 2 * 0 + i <= MaxLen
    BY <2>1, SMT
  <2>3. 0 \in Word16
    BY Word16Def, SMT
  <2>4. check_number = [hi |-> 0, lo |-> 0] /\ checksum = -1 /\ ones = 0 /\ network = 0
    BY DEF Init
  <2>5. Fold(check_number) = 0
    BY <2>4, SMT DEF Fold
  <2>6. swap16(0) = 0
    BY SMT DEF swap16
  <2>7. check_number \in [hi : Word16, lo : Word16] /\ check_number.hi = 0
    BY <2>3, <2>4
  <2>8. TypeOK
    BY <2>2, <2>3, <2>4, <2>7 DEF TypeOK
  <2> QED  BY <2>2, <2>4, <2>5, <2>6, <2>7, <2>8 DEF IInv
<1>2. IInv /\ [Next]_vars => IInv'
  <2> SUFFICES ASSUME IInv, [Next]_vars  PROVE IInv'
    OBVIOUS
  <2>0. /\ i \in Nat /\ i <= MaxLen
        /\ MaxLen \in Nat /\ MaxLen <= 131070
        /\ check_number \in [hi : Word16, lo : Word16]
        /\ checksum \in Word16 \cup {-1}
        /\ ones \in Word16 /\ network \in Word16
    BY ChecksumAssumption DEF IInv, TypeOK
  <2>00. /\ check_number.hi \in Nat /\ check_number.hi <= 65535
         /\ check_number.lo \in Nat /\ check_number.lo <= 65535
         /\ ones \in Nat /\ ones <= 65535
    BY <2>0, Word16Def
  <2>1. ASSUME NEW w \in Word, Add(w)  PROVE IInv'
    <3>1. w \in Word16
      BY ChecksumAssumption
    <3>2. w \in Nat /\ w <= 65535
      BY <3>1, Word16Def
    <3>3. 2 * check_number.hi + i <= MaxLen /\ i > 1
      BY <2>1 DEF IInv, Add
    <3>4. check_number.hi < 65535
      BY <2>0, <2>00, <3>3, SMT
    <3>5. /\ Fold(check_number') = Plus(ones, w)
          /\ check_number' \in [hi : Word16, lo : Word16]
          /\ check_number'.hi <= check_number.hi + 1
      BY <2>00, <2>1, <3>2, <3>4, FoldPlus DEF IInv, Add
    <3>6. swap16(Plus(ones, w)) = Plus(network, swap16(w))
      BY <2>00, <3>2, SwapPlus DEF IInv
    <3>7. Fold(check_number') = ones' /\ swap16(ones') = network'
      BY <2>1, <3>5, <3>6 DEF Add
    <3>8. ones' \in Word16 /\ network' \in Word16
      BY <2>0, <2>1, <3>1, PlusType, SwapType DEF Add
    <3>9. i' = i - 2
      BY <2>1 DEF Add
    <3>10. check_number'.hi \in Nat
      BY <3>5, Word16Def
    <3>11. /\ i' \in Nat /\ i' <= MaxLen
           /\ 2 * check_number'.hi + i' <= MaxLen
      BY <2>0, <2>00, <3>3, <3>5, <3>9, <3>10, SMT
    <3>12. checksum = -1 /\ checksum' = -1
      BY <2>1, <3>3 DEF Add, IInv
    <3>13. checksum' \in Word16 \cup {-1}
      BY <3>12
    <3>14. checksum' # -1 => checksum' = 65535 - ones'
      BY <3>12
    <3>15. TypeOK'
      BY <3>5, <3>8, <3>11, <3>13 DEF TypeOK
    <3> QED  BY <3>7, <3>11, <3>12, <3>14, <3>15 DEF IInv
  <2>2. CASE Return
    <3>1. checksum' = 65535 - ones /\ UNCHANGED <<i, check_number, ones, network>>
      BY <2>2 DEF Return, IInv
    <3>2. 65535 - ones \in Nat /\ 65535 - ones <= 65535
      BY <2>00, SMT
    <3>3. checksum' \in Word16
      BY <3>1, <3>2, Word16Def
    <3>4. i <= 1
      BY <2>2 DEF Return
    <3>5. ~(i' > 1)
      BY <2>0, <3>1, <3>4, SMT
    <3>6. TypeOK'
      BY <2>0, <3>1, <3>3 DEF TypeOK
    <3>7. /\ 2 * check_number'.hi + i' <= MaxLen
          /\ Fold(check_number') = ones' /\ swap16(ones') = network'
      BY <3>1 DEF IInv
    <3>8. checksum' = 65535 - ones'
      BY <3>1
    <3> QED  BY <3>5, <3>6, <3>7, <3>8 DEF IInv
  <2>3. CASE UNCHANGED vars
    BY <2>3 DEF vars, IInv, TypeOK
  <2> QED  BY <2>1, <2>2, <2>3 DEF Next
<1> QED  BY <1>1, <1>2, PTL DEF Spec

(* The types, and that the loop ends at 0 or 1, for all lengths.           *)
THEOREM TypeCorrect == Spec => []TypeOK
<1>1. IInv => TypeOK  BY DEF IInv
<1> QED  BY <1>1, Invariant, PTL

(* checksum16 computes the complement of the one's complement sum for data *)
(* of any words and of up to 131070 bytes.                                 *)
THEOREM IsOnesComplementHolds == Spec => []IsOnesComplement
<1>1. IInv => IsOnesComplement  BY DEF IInv, IsOnesComplement
<1> QED  BY <1>1, Invariant, PTL

(* Its result is right in network byte order without any swap.             *)
THEOREM RightOnTheWireHolds == Spec => []RightOnTheWire
<1>1. IInv => RightOnTheWire
  BY SwapComplement DEF IInv, TypeOK, RightOnTheWire
<1> QED  BY <1>1, Invariant, PTL

(***************************************************************************)
(* Base64.  The invariant CoderInv says at every step of a coder how far   *)
(* the text or the bytes are that it has made, as a function of the file   *)
(* alone; from it the theorems follow at the end of a file.                *)
(***************************************************************************)

(* Division of sums by a divisor that is not a number. *)
LEMMA Divides ==
    ASSUME NEW a \in Nat, NEW p \in Nat \ {0}, NEW q \in Nat, NEW r \in Nat,
           r < p, a = q * p + r
    PROVE  a \div p = q /\ a % p = r
OBVIOUS

LEMMA Divided ==
    ASSUME NEW a \in Nat, NEW p \in Nat \ {0}
    PROVE  /\ a \div p \in Nat /\ a % p \in Nat /\ a % p < p
           /\ a = (a \div p) * p + (a % p)
OBVIOUS

PerLine == CHARS_PER_LINE \div 4

LEMMA PerLineType ==
    /\ PerLine \in Nat /\ PerLine >= 3
    /\ Width \in Nat /\ Width = 4 * PerLine
BY Base64Assumption DEF PerLine, Width

(* What the next group of four does to the count of lines and of groups on *)
(* the present one.                                                        *)
LEMMA NextGroup ==
    ASSUME NEW g \in Nat
    PROVE  /\ g \div PerLine \in Nat /\ g % PerLine \in Nat /\ g % PerLine < PerLine
           /\ IF (g % PerLine) + 1 = PerLine
              THEN (g + 1) \div PerLine = (g \div PerLine) + 1 /\ (g + 1) % PerLine = 0
              ELSE /\ (g + 1) \div PerLine = g \div PerLine
                   /\ (g + 1) % PerLine = (g % PerLine) + 1
<1> DEFINE q == g \div PerLine
           s == g % PerLine
<1>1. PerLine \in Nat \ {0}
    BY PerLineType
<1>2. q \in Nat /\ s \in Nat /\ s < PerLine /\ g = q * PerLine + s
    BY <1>1, Divided
<1> HIDE DEF q, s
<1>3. CASE s + 1 = PerLine
    <2>1. g + 1 = (q + 1) * PerLine + 0
        BY <1>1, <1>2, <1>3
    <2>2. (g + 1) \div PerLine = q + 1 /\ (g + 1) % PerLine = 0
        BY <1>1, <1>2, <2>1, Divides
    <2> QED BY <1>2, <1>3, <2>2 DEF q, s
<1>4. CASE s + 1 # PerLine
    <2>1. s + 1 \in Nat /\ s + 1 < PerLine /\ g + 1 \in Nat
        BY <1>1, <1>2, <1>4
    <2>2. g + 1 = q * PerLine + (s + 1)
        BY <1>1, <1>2
    <2>3. (g + 1) \div PerLine = q /\ (g + 1) % PerLine = s + 1
        BY <1>1, <1>2, <2>1, <2>2, Divides
    <2> QED BY <1>2, <1>4, <2>3 DEF q, s
<1> QED BY <1>3, <1>4

(* Where the j-th character of a group stands, which is never the place of *)
(* a newline, and where the next newline stands.                           *)
LEMMA Place ==
    ASSUME NEW g \in Nat, NEW j \in Nat, 1 <= j, j <= 4
    PROVE  /\ At(4 * g + j) = 4 * g + j + g \div PerLine
           /\ (4 * g + j + g \div PerLine) % (Width + 1) # 0
<1> DEFINE q == g \div PerLine
           s == g % PerLine
<1>1. PerLine \in Nat \ {0} /\ Width = 4 * PerLine
    BY PerLineType
<1>2. q \in Nat /\ s \in Nat /\ s < PerLine /\ g = q * PerLine + s
    BY <1>1, Divided
<1> HIDE DEF q, s
<1>3. (4 * g + j) - 1 = q * (4 * PerLine) + (4 * s + j - 1)
    BY <1>1, <1>2
<1>4. /\ (4 * g + j) - 1 \in Nat /\ 4 * s + j - 1 \in Nat /\ 4 * s + j - 1 < 4 * PerLine
      /\ 4 * PerLine \in Nat \ {0}
    BY <1>1, <1>2
<1>5. ((4 * g + j) - 1) \div Width = q
    BY <1>1, <1>2, <1>3, <1>4, Divides
<1>6. 4 * g + j + q = q * (4 * PerLine + 1) + (4 * s + j)
    BY <1>1, <1>2
<1>7. /\ 4 * s + j \in Nat \ {0} /\ 4 * s + j < 4 * PerLine + 1
      /\ 4 * g + j + q \in Nat /\ 4 * PerLine + 1 \in Nat \ {0}
    BY <1>1, <1>2
<1>8. (4 * g + j + q) % (4 * PerLine + 1) = 4 * s + j
    <2> DEFINE p == 4 * PerLine + 1
               k == 4 * g + j + q
               r == 4 * s + j
    <2>1. k \in Nat /\ p \in Nat \ {0} /\ r \in Nat /\ r < p /\ k = q * p + r
        BY <1>6, <1>7
    <2> HIDE DEF p, k, r
    <2>2. k % p = r
        BY <1>2, <2>1, Divides
    <2> QED BY <2>2 DEF p, k, r
<1>9. (4 * g + j + q) % (Width + 1) # 0
    BY <1>1, <1>7, <1>8
<1> QED BY <1>5, <1>9 DEF At, q

LEMMA NewlinePlace ==
    ASSUME NEW g \in Nat, (g % PerLine) + 1 = PerLine
    PROVE  (4 * g + 4 + (g \div PerLine) + 1) % (Width + 1) = 0
<1> DEFINE q == g \div PerLine
           s == g % PerLine
<1>1. PerLine \in Nat \ {0} /\ Width = 4 * PerLine
    BY PerLineType
<1>2. q \in Nat /\ s \in Nat /\ s + 1 = PerLine /\ g = q * PerLine + s
    BY <1>1, Divided
<1> HIDE DEF q, s
<1>3. 4 * g + 4 + q + 1 = (q + 1) * (4 * PerLine + 1) + 0
    BY <1>1, <1>2
<1>4. /\ 4 * g + 4 + q + 1 \in Nat /\ 4 * PerLine + 1 \in Nat \ {0}
    BY <1>1, <1>2
<1>5. (4 * g + 4 + q + 1) % (Width + 1) = 0
    BY <1>1, <1>2, <1>3, <1>4, Divides
<1> QED BY <1>5 DEF q

LEMMA AtGrows ==
    ASSUME NEW a \in Nat, NEW b \in Nat, 1 <= a, a < b
    PROVE  At(a) \in Nat /\ At(b) \in Nat /\ 1 <= At(a) /\ At(a) < At(b)
<1> DEFINE q == (a - 1) \div Width
           r == (b - 1) \div Width
<1>1. Width \in Nat \ {0}
    BY PerLineType
<1>2. q \in Nat /\ r \in Nat /\ a - 1 >= q * Width /\ b - 1 < (r + 1) * Width
    <2>1. a - 1 \in Nat /\ b - 1 \in Nat
        OBVIOUS
    <2>2. q \in Nat /\ (a - 1) % Width \in Nat /\ a - 1 = q * Width + ((a - 1) % Width)
        BY <1>1, <2>1, Divided
    <2>3. /\ r \in Nat /\ (b - 1) % Width \in Nat /\ (b - 1) % Width < Width
          /\ b - 1 = r * Width + ((b - 1) % Width)
        BY <1>1, <2>1, Divided
    <2> HIDE DEF q, r
    <2>4. (r + 1) * Width = r * Width + Width
        BY <1>1, <2>3
    <2>5. q * Width \in Nat /\ r * Width \in Nat
        BY <1>1, <2>2, <2>3
    <2>6. a - 1 >= q * Width
        BY <2>2, <2>5
    <2>7. b - 1 < (r + 1) * Width
        BY <1>1, <2>3, <2>4, <2>5
    <2> QED BY <2>2, <2>3, <2>6, <2>7
<1> HIDE DEF q, r
<1>3. q <= r
    <2> SUFFICES ASSUME r + 1 <= q PROVE FALSE
        BY <1>2
    <2>1. PICK d \in Nat : q = r + 1 + d
        <3>1. q - (r + 1) \in Nat /\ q = r + 1 + (q - (r + 1))
            BY <1>2
        <3> QED BY <3>1
    <2>2. q * Width = (r + 1) * Width + d * Width /\ d * Width \in Nat
        BY <1>1, <1>2, <2>1
    <2>3. (r + 1) * Width \in Nat
        BY <1>1, <1>2
    <2> QED BY <1>2, <2>2, <2>3
<1>4. At(a) = a + q /\ At(b) = b + r
    BY DEF At, q, r
<1> QED BY <1>2, <1>3, <1>4

-----------------------------------------------------------------------------
(* The four values of a group of three bytes. *)
LEMMA CutGroup ==
    ASSUME NEW a \in Nat, NEW b \in Nat, NEW c \in Nat, a < 256, b < 256, c < 256
    PROVE  LET w == 65536 * a + 256 * b + c
           IN  /\ (w \div 262144) % 64 = a \div 4
               /\ (w \div 4096) % 64 = (a % 4) * 16 + b \div 16
               /\ (w \div 64) % 64 = (b % 16) * 4 + c \div 64
               /\ (w \div 1) % 64 = c % 64
<1> DEFINE w == 65536 * a + 256 * b + c
<1>1. (w \div 262144) % 64 = a \div 4
    <2>1. w \div 262144 = a \div 4
        OBVIOUS
    <2>2. a \div 4 \in Nat /\ a \div 4 < 64
        OBVIOUS
    <2> QED BY <2>1, <2>2
<1>2. (w \div 4096) % 64 = (a % 4) * 16 + b \div 16
    <2>1. w \div 4096 = (a \div 4) * 64 + ((a % 4) * 16 + b \div 16)
        OBVIOUS
    <2>2. (a % 4) * 16 + b \div 16 \in Nat /\ (a % 4) * 16 + b \div 16 < 64
        OBVIOUS
    <2> QED BY <2>1, <2>2
<1>3. (w \div 64) % 64 = (b % 16) * 4 + c \div 64
    <2>1. w \div 64 = (16 * a + b \div 16) * 64 + ((b % 16) * 4 + c \div 64)
        OBVIOUS
    <2>2. (b % 16) * 4 + c \div 64 \in Nat /\ (b % 16) * 4 + c \div 64 < 64
        OBVIOUS
    <2> QED BY <2>1, <2>2
<1>4. (w \div 1) % 64 = c % 64
    OBVIOUS
<1> QED BY <1>1, <1>2, <1>3, <1>4

LEMMA OctetType ==
    ASSUME NEW f \in Seq(Byte), NEW j \in Nat
    PROVE  Octet(f, j) \in Nat /\ Octet(f, j) < 256
<1>1. CASE j < Len(f)
    <2>1. j + 1 \in DOMAIN f /\ f[j + 1] \in Byte
        BY <1>1
    <2> QED BY <1>1, <2>1 DEF Octet, Byte, Below
<1>2. CASE ~ (j < Len(f))
    BY <1>2 DEF Octet
<1> QED BY <1>1, <1>2

LEMMA SextetOf ==
    ASSUME NEW f \in Seq(Byte), NEW g \in Nat
    PROVE  /\ Sextet(f, 4 * g) = Octet(f, 3 * g) \div 4
           /\ Sextet(f, 4 * g + 1) = (Octet(f, 3 * g) % 4) * 16 + Octet(f, 3 * g + 1) \div 16
           /\ Sextet(f, 4 * g + 2) = (Octet(f, 3 * g + 1) % 16) * 4 + Octet(f, 3 * g + 2) \div 64
           /\ Sextet(f, 4 * g + 3) = Octet(f, 3 * g + 2) % 64
<1> DEFINE a == Octet(f, 3 * g)
           b == Octet(f, 3 * g + 1)
           c == Octet(f, 3 * g + 2)
<1>1. a \in Nat /\ b \in Nat /\ c \in Nat /\ a < 256 /\ b < 256 /\ c < 256
    BY OctetType
<1>2. Group(f, g) = 65536 * a + 256 * b + c
    BY DEF Group
<1> HIDE DEF a, b, c
<1>3. /\ (4 * g) \div 4 = g /\ (4 * g) % 4 = 0
      /\ (4 * g + 1) \div 4 = g /\ (4 * g + 1) % 4 = 1
      /\ (4 * g + 2) \div 4 = g /\ (4 * g + 2) % 4 = 2
      /\ (4 * g + 3) \div 4 = g /\ (4 * g + 3) % 4 = 3
    OBVIOUS
<1>4. Weight[1] = 262144 /\ Weight[2] = 4096 /\ Weight[3] = 64 /\ Weight[4] = 1
    BY DEF Weight
<1>5. /\ Sextet(f, 4 * g) = (Group(f, g) \div 262144) % 64
      /\ Sextet(f, 4 * g + 1) = (Group(f, g) \div 4096) % 64
      /\ Sextet(f, 4 * g + 2) = (Group(f, g) \div 64) % 64
      /\ Sextet(f, 4 * g + 3) = (Group(f, g) \div 1) % 64
    BY <1>3, <1>4 DEF Sextet
<1>6. /\ (Group(f, g) \div 262144) % 64 = a \div 4
      /\ (Group(f, g) \div 4096) % 64 = (a % 4) * 16 + b \div 16
      /\ (Group(f, g) \div 64) % 64 = (b % 16) * 4 + c \div 64
      /\ (Group(f, g) \div 1) % 64 = c % 64
    BY <1>1, <1>2, CutGroup
<1> QED BY <1>5, <1>6 DEF a, b, c

LEMMA SextetType ==
    ASSUME NEW f \in Seq(Byte), NEW k \in Nat
    PROVE  Sextet(f, k) \in Below(64)
<1> DEFINE g == k \div 4
<1>1. g \in Nat
    OBVIOUS
<1>2. k = 4 * g \/ k = 4 * g + 1 \/ k = 4 * g + 2 \/ k = 4 * g + 3
    OBVIOUS
<1> HIDE DEF g
<1>3. /\ Octet(f, 3 * g) \in Nat /\ Octet(f, 3 * g) < 256
      /\ Octet(f, 3 * g + 1) \in Nat /\ Octet(f, 3 * g + 1) < 256
      /\ Octet(f, 3 * g + 2) \in Nat /\ Octet(f, 3 * g + 2) < 256
    BY <1>1, OctetType
<1>4. /\ Sextet(f, 4 * g) = Octet(f, 3 * g) \div 4
      /\ Sextet(f, 4 * g + 1) = (Octet(f, 3 * g) % 4) * 16 + Octet(f, 3 * g + 1) \div 16
      /\ Sextet(f, 4 * g + 2) = (Octet(f, 3 * g + 1) % 16) * 4 + Octet(f, 3 * g + 2) \div 64
      /\ Sextet(f, 4 * g + 3) = Octet(f, 3 * g + 2) % 64
    BY <1>1, SextetOf
<1>5. ASSUME NEW a \in Nat, NEW b \in Nat, a < 256, b < 256
      PROVE  /\ a \div 4 \in Below(64) /\ (a % 4) * 16 + b \div 16 \in Below(64)
             /\ (a % 16) * 4 + b \div 64 \in Below(64) /\ a % 64 \in Below(64)
    BY <1>5 DEF Below
<1> DEFINE a == Octet(f, 3 * g)
           b == Octet(f, 3 * g + 1)
           c == Octet(f, 3 * g + 2)
<1>6. /\ Sextet(f, 4 * g) = a \div 4
      /\ Sextet(f, 4 * g + 1) = (a % 4) * 16 + b \div 16
      /\ Sextet(f, 4 * g + 2) = (b % 16) * 4 + c \div 64
      /\ Sextet(f, 4 * g + 3) = c % 64
    BY <1>4
<1>7. a \in Nat /\ a < 256 /\ b \in Nat /\ b < 256 /\ c \in Nat /\ c < 256
    BY <1>3
<1> HIDE DEF a, b, c
<1>8. a \div 4 \in Below(64) /\ (a % 4) * 16 + b \div 16 \in Below(64)
    BY <1>5, <1>7
<1>9. (b % 16) * 4 + c \div 64 \in Below(64) /\ c % 64 \in Below(64)
    BY <1>5, <1>7
<1> QED BY <1>2, <1>6, <1>8, <1>9

(* A character that stands for six bits is neither a newline nor padding,  *)
(* and is decoded to them; those two are skipped.                          *)
LEMMA ValueBack ==
    ASSUME NEW v \in Below(64)
    PROVE  /\ base64_encode_value(v) \in Nat /\ base64_encode_value(v) < 128
           /\ base64_encode_value(v) # Newline /\ base64_encode_value(v) # Padding
           /\ base64_decode_value(base64_encode_value(v)) = v
<1>0. v \in Nat /\ v < 64
    BY DEF Below
<1> DEFINE c == base64_encode_value(v)
<1>1. CASE v < 26
    <2>1. c = 65 + v
        BY <1>0, <1>1 DEF base64_encode_value
    <2> QED BY <1>0, <1>1, <2>1 DEF base64_decode_value, Newline, Padding
<1>2. CASE v \in 26 .. 51
    <2>1. c = 71 + v
        BY <1>0, <1>2 DEF base64_encode_value
    <2> QED BY <1>0, <1>2, <2>1 DEF base64_decode_value, Newline, Padding
<1>3. CASE v \in 52 .. 61
    <2>1. c = v - 4
        BY <1>0, <1>3 DEF base64_encode_value
    <2> QED BY <1>0, <1>3, <2>1 DEF base64_decode_value, Newline, Padding
<1>4. CASE v = 62
    <2>1. c = 43
        BY <1>4 DEF base64_encode_value
    <2> QED BY <1>4, <2>1 DEF base64_decode_value, Newline, Padding
<1>5. CASE v = 63
    <2>1. c = 47
        BY <1>5 DEF base64_encode_value
    <2> QED BY <1>5, <2>1 DEF base64_decode_value, Newline, Padding
<1> QED BY <1>0, <1>1, <1>2, <1>3, <1>4, <1>5

LEMMA Skipped == base64_decode_value(Newline) = -1 /\ base64_decode_value(Padding) = -2
BY DEF base64_decode_value, Newline, Padding

-----------------------------------------------------------------------------
(* The text c holds the first n characters of the encoding in their        *)
(* places, a newline after each full line, and nothing else.               *)
TextIs(f, c, n) ==
    /\ c \in Seq(Below(128))
    /\ \A k \in 1 .. n : At(k) \in DOMAIN c /\ c[At(k)] = Expected(f, k)
    /\ \A p \in DOMAIN c : c[p] # Newline => \E k \in 1 .. n : p = At(k)
    /\ \A p \in DOMAIN c : c[p] = Newline <=> p % (Width + 1) = 0

(* And q newlines. *)
Text(f, c, n, q) == TextIs(f, c, n) /\ Len(c) = n + q

LEMMA Appended ==
    ASSUME NEW c \in Seq(Below(128)), NEW x \in Below(128)
    PROVE  /\ Append(c, x) \in Seq(Below(128))
           /\ Len(c) \in Nat /\ Len(Append(c, x)) = Len(c) + 1
           /\ DOMAIN c = 1 .. Len(c)
           /\ DOMAIN Append(c, x) = 1 .. (Len(c) + 1)
           /\ \A p \in DOMAIN c : p # Len(c) + 1 /\ Append(c, x)[p] = c[p]
           /\ Append(c, x)[Len(c) + 1] = x
OBVIOUS

(* The text d is c and the character after its n-th one, in the group g.   *)
Extends(f, c, d, g, n) ==
    /\ n \in Nat /\ 4 * g <= n /\ n < 4 * g + 4
    /\ Expected(f, n + 1) \in Below(128) /\ Expected(f, n + 1) # Newline
    /\ d = Append(c, Expected(f, n + 1))

LEMMA AddChar ==
    ASSUME NEW f, NEW c, NEW d, NEW g \in Nat, NEW n, Extends(f, c, d, g, n),
           Text(f, c, n, g \div PerLine)
    PROVE  Text(f, d, n + 1, g \div PerLine)
<1> DEFINE l == Len(c) + 1
           x == Expected(f, n + 1)
           m == n + 1
<1>0. TextIs(f, c, n) /\ Len(c) = n + g \div PerLine
    BY DEF Text
<1>1. /\ c \in Seq(Below(128)) /\ m = n + 1 /\ n \in Nat /\ m \in Nat
      /\ x \in Below(128) /\ d = Append(c, x) /\ x # Newline
      /\ 4 * g <= n /\ m <= 4 * g + 4
    BY <1>0 DEF TextIs, Extends
<1> HIDE DEF x
<1>2. /\ d \in Seq(Below(128)) /\ Len(c) \in Nat /\ Len(d) = l
      /\ DOMAIN c = 1 .. Len(c) /\ DOMAIN d = 1 .. l
      /\ \A p \in DOMAIN c : p # l /\ d[p] = c[p]
      /\ d[l] = x
    BY <1>1, Appended
<1>3. g \div PerLine \in Nat
    BY NextGroup
<1>4. l = m + g \div PerLine
    BY <1>0, <1>1, <1>3
<1>5. At(n + 1) = l /\ l % (Width + 1) # 0
    <2>1. PICK j \in Nat : 1 <= j /\ j <= 4 /\ m = 4 * g + j
        <3>1. m - 4 * g \in Nat /\ m = 4 * g + (m - 4 * g)
            BY <1>1
        <3>2. 1 <= m - 4 * g /\ m - 4 * g <= 4
            BY <1>1
        <3> QED BY <3>1, <3>2
    <2> QED BY <1>1, <1>4, <2>1, Place
<1>6. \A p \in DOMAIN d : p \in DOMAIN c \/ p = l
    BY <1>2
<1>7. DOMAIN c \subseteq DOMAIN d /\ l \in DOMAIN d
    BY <1>2
<1>8. TextIs(f, c, n) /\ x = Expected(f, n + 1)
    BY <1>0 DEF x
<1>9. \A k \in 1 .. (n + 1) : k \in 1 .. n \/ k = n + 1
    BY <1>1
<1>10. 1 .. n \subseteq 1 .. (n + 1) /\ n + 1 \in 1 .. (n + 1)
    BY <1>1
<1> HIDE DEF l
<1>11. \A k \in 1 .. (n + 1) : At(k) \in DOMAIN d /\ d[At(k)] = Expected(f, k)
    <2> SUFFICES ASSUME NEW k \in 1 .. (n + 1)
                 PROVE  At(k) \in DOMAIN d /\ d[At(k)] = Expected(f, k)
        OBVIOUS
    <2>1. CASE k \in 1 .. n
        <3>1. At(k) \in DOMAIN c /\ c[At(k)] = Expected(f, k)
            BY <1>8, <2>1 DEF TextIs
        <3> QED BY <1>2, <1>7, <3>1
    <2>2. CASE k = n + 1
        BY <1>2, <1>5, <1>7, <1>8, <2>2
    <2> QED BY <1>9, <2>1, <2>2
<1>12. \A p \in DOMAIN d : d[p] # Newline => \E k \in 1 .. (n + 1) : p = At(k)
    <2> SUFFICES ASSUME NEW p \in DOMAIN d, d[p] # Newline
                 PROVE  \E k \in 1 .. (n + 1) : p = At(k)
        OBVIOUS
    <2>1. CASE p \in DOMAIN c
        <3>1. \E k \in 1 .. n : p = At(k)
            BY <1>2, <1>8, <2>1 DEF TextIs
        <3> QED BY <1>10, <3>1
    <2>2. CASE p = l
        BY <1>5, <1>10, <2>2
    <2> QED BY <1>6, <2>1, <2>2
<1>13. \A p \in DOMAIN d : d[p] = Newline <=> p % (Width + 1) = 0
    <2> SUFFICES ASSUME NEW p \in DOMAIN d
                 PROVE  d[p] = Newline <=> p % (Width + 1) = 0
        OBVIOUS
    <2>1. CASE p \in DOMAIN c
        BY <1>2, <1>8, <2>1 DEF TextIs
    <2>2. CASE p = l
        BY <1>1, <1>2, <1>5, <2>2
    <2> QED BY <1>6, <2>1, <2>2
<1>14. TextIs(f, d, n + 1) /\ Len(d) = l
    BY <1>2, <1>11, <1>12, <1>13 DEF TextIs
<1> QED BY <1>1, <1>4, <1>14 DEF Text

(* And the newline after a full line. *)
LEMMA AddNewline ==
    ASSUME NEW f, NEW c, NEW g \in Nat, (g % PerLine) + 1 = PerLine,
           Text(f, c, 4 * g + 4, g \div PerLine)
    PROVE  Text(f, Append(c, Newline), 4 * g + 4, (g + 1) \div PerLine)
<1> DEFINE n == 4 * g + 4
           d == Append(c, Newline)
<1>n. n \in Nat /\ n = 4 * g + 4 /\ d = Append(c, Newline) /\ Text(f, c, n, g \div PerLine)
    OBVIOUS
<1> HIDE DEF n, d
<1> DEFINE l == Len(c) + 1
<1>0. TextIs(f, c, n) /\ Len(c) = n + g \div PerLine
    BY <1>n DEF Text
<1>1. c \in Seq(Below(128)) /\ Newline \in Below(128)
    BY <1>0 DEF TextIs, Newline, Below
<1>2. /\ d \in Seq(Below(128)) /\ Len(c) \in Nat /\ Len(d) = l
      /\ DOMAIN c = 1 .. Len(c) /\ DOMAIN d = 1 .. l
      /\ \A p \in DOMAIN c : p # l /\ d[p] = c[p]
      /\ d[l] = Newline
    BY <1>1, <1>n, Appended
<1>3. g \div PerLine \in Nat /\ (g + 1) \div PerLine = (g \div PerLine) + 1
    BY NextGroup
<1>4. l = 4 * g + 4 + (g \div PerLine) + 1 /\ l = n + (g + 1) \div PerLine
    BY <1>0, <1>3, <1>n
<1>5. l % (Width + 1) = 0
    BY <1>3, <1>4, <1>n, NewlinePlace
<1>6. \A p \in DOMAIN d : p \in DOMAIN c \/ p = l
    BY <1>2
<1>7. DOMAIN c \subseteq DOMAIN d
    BY <1>2
<1>8. TextIs(f, c, n)
    BY <1>0
<1> HIDE DEF l
<1>9. \A k \in 1 .. n : At(k) \in DOMAIN d /\ d[At(k)] = Expected(f, k)
    BY <1>2, <1>7, <1>8 DEF TextIs
<1>10. \A p \in DOMAIN d : d[p] # Newline => \E k \in 1 .. n : p = At(k)
    BY <1>2, <1>6, <1>8 DEF TextIs
<1>11. \A p \in DOMAIN d : d[p] = Newline <=> p % (Width + 1) = 0
    BY <1>2, <1>5, <1>6, <1>8 DEF TextIs
<1>12. TextIs(f, d, n) /\ Len(d) = l
    BY <1>2, <1>9, <1>10, <1>11 DEF TextIs
<1> QED BY <1>4, <1>12 DEF Text, n, d

-----------------------------------------------------------------------------
(* The text c is what has been written when r bytes of f have been taken,  *)
(* and s what the coder holds of the last one.                             *)
CodeOf(f, c, r) == Text(f, c, 4 * (r \div 3) + (r % 3), (r \div 3) \div PerLine)

Holds(f, r, s) ==
    \/ r % 3 = 0 /\ s.step = "A"
    \/ r % 3 = 1 /\ s.step = "B" /\ s.result = (Octet(f, r - 1) % 4) * 16
    \/ r % 3 = 2 /\ s.step = "C" /\ s.result = (Octet(f, r - 1) % 16) * 4

LEMMA ByteAt ==
    ASSUME NEW f \in Seq(Byte), NEW r \in Nat, r < Len(f)
    PROVE  f[r + 1] = Octet(f, r) /\ f[r + 1] \in Nat /\ f[r + 1] < 256
BY OctetType DEF Octet

(* A value of six bits of f, as it is written. *)
LEMMA ExpectedValue ==
    ASSUME NEW f \in Seq(Byte), NEW k \in Nat, 6 * k < 8 * Len(f)
    PROVE  /\ Expected(f, k + 1) = base64_encode_value(Sextet(f, k))
           /\ Expected(f, k + 1) \in Below(128)
           /\ Expected(f, k + 1) # Newline /\ Expected(f, k + 1) # Padding
<1>1. Sextet(f, k) \in Below(64)
    BY SextetType
<1>2. Expected(f, k + 1) = base64_encode_value(Sextet(f, k))
    BY DEF Expected
<1> QED BY <1>1, <1>2, ValueBack DEF Below

LEMMA CodeA ==
    ASSUME NEW f \in Seq(Byte), NEW r \in Nat, r < Len(f), r % 3 = 0,
           NEW c, CodeOf(f, c, r), NEW b, b = f[r + 1]
    PROVE  /\ CodeOf(f, Append(c, base64_encode_value(b \div 4)), r + 1)
           /\ Holds(f, r + 1, [step |-> "B", result |-> (b % 4) * 16])
           /\ (b % 4) * 16 \in Below(64)
<1> DEFINE g == r \div 3
           x == base64_encode_value(b \div 4)
<1>1. b = Octet(f, r) /\ b \in Nat /\ b < 256
    BY ByteAt
<1>2. g \in Nat /\ r = 3 * g /\ (r + 1) \div 3 = g /\ (r + 1) % 3 = 1 /\ (r + 1) - 1 = r
    OBVIOUS
<1>3. Text(f, c, 4 * g, g \div PerLine)
    BY <1>2 DEF CodeOf
<1> HIDE DEF g
<1>4. Sextet(f, 4 * g) = b \div 4 /\ 6 * (4 * g) < 8 * Len(f) /\ 4 * g \in Nat
    BY <1>1, <1>2, SextetOf
<1>5. x = Expected(f, 4 * g + 1) /\ x \in Below(128) /\ x # Newline
    BY <1>4, ExpectedValue
<1> HIDE DEF x
<1>6. Extends(f, c, Append(c, x), g, 4 * g)
    BY <1>2, <1>5 DEF Extends
<1>7. Text(f, Append(c, x), 4 * g + 1, g \div PerLine)
    BY <1>2, <1>3, <1>6, AddChar
<1>8. CodeOf(f, Append(c, x), r + 1)
    <2>1. 4 * g + ((r + 1) % 3) = 4 * g + 1
        BY <1>2
    <2> QED BY <1>2, <1>7, <2>1 DEF CodeOf
<1>9. Holds(f, r + 1, [step |-> "B", result |-> (b % 4) * 16])
    BY <1>1, <1>2 DEF Holds
<1>10. (b % 4) * 16 \in Below(64)
    BY <1>1 DEF Below
<1> QED BY <1>8, <1>9, <1>10 DEF x

LEMMA CodeB ==
    ASSUME NEW f \in Seq(Byte), NEW r \in Nat, r < Len(f), r % 3 = 1,
           NEW c, CodeOf(f, c, r), NEW b, b = f[r + 1],
           NEW h, h = (Octet(f, r - 1) % 4) * 16
    PROVE  /\ CodeOf(f, Append(c, base64_encode_value(h + b \div 16)), r + 1)
           /\ Holds(f, r + 1, [step |-> "C", result |-> (b % 16) * 4])
           /\ (b % 16) * 4 \in Below(64)
<1> DEFINE g == r \div 3
           x == base64_encode_value(h + b \div 16)
<1>1. b = Octet(f, r) /\ b \in Nat /\ b < 256
    BY ByteAt
<1>2. /\ g \in Nat /\ r = 3 * g + 1 /\ r - 1 = 3 * g /\ (r + 1) \div 3 = g
      /\ (r + 1) % 3 = 2 /\ (r + 1) - 1 = r
    OBVIOUS
<1>3. Text(f, c, 4 * g + 1, g \div PerLine)
    BY <1>2 DEF CodeOf
<1> HIDE DEF g
<1>4. /\ Sextet(f, 4 * g + 1) = h + b \div 16
      /\ 6 * (4 * g + 1) < 8 * Len(f) /\ 4 * g + 1 \in Nat
    BY <1>1, <1>2, SextetOf
<1>5. x = Expected(f, 4 * g + 1 + 1) /\ x \in Below(128) /\ x # Newline
    BY <1>4, ExpectedValue
<1> HIDE DEF x
<1>6. Extends(f, c, Append(c, x), g, 4 * g + 1)
    BY <1>2, <1>5 DEF Extends
<1>7. Text(f, Append(c, x), 4 * g + 1 + 1, g \div PerLine)
    BY <1>2, <1>3, <1>6, AddChar
<1>8. CodeOf(f, Append(c, x), r + 1)
    <2>1. 4 * g + ((r + 1) % 3) = 4 * g + 1 + 1
        BY <1>2
    <2> QED BY <1>2, <1>7, <2>1 DEF CodeOf
<1>9. Holds(f, r + 1, [step |-> "C", result |-> (b % 16) * 4])
    BY <1>1, <1>2 DEF Holds
<1>10. (b % 16) * 4 \in Below(64)
    BY <1>1 DEF Below
<1> QED BY <1>8, <1>9, <1>10 DEF x

LEMMA Thirds ==
    ASSUME NEW r \in Nat
    PROVE  /\ r \div 3 \in Nat
           /\ r % 3 = 0 => r = 3 * (r \div 3)
           /\ r % 3 = 1 => r = 3 * (r \div 3) + 1 /\ (r + 1) \div 3 = r \div 3
           /\ r % 3 = 2 => /\ r = 3 * (r \div 3) + 2
                           /\ (r + 1) \div 3 = (r \div 3) + 1 /\ (r + 1) % 3 = 0
           /\ r % 3 = 0 \/ r % 3 = 1 \/ r % 3 = 2
OBVIOUS

(* The last two characters of a group, and the newline that may follow.    *)
LEMMA LastOfGroup ==
    ASSUME NEW f, NEW c, NEW e, NEW d, NEW g \in Nat,
           Extends(f, c, e, g, 4 * g + 2), Extends(f, e, d, g, 4 * g + 2 + 1),
           Text(f, c, 4 * g + 2, g \div PerLine)
    PROVE  /\ (g % PerLine) + 1 # PerLine =>
                Text(f, d, 4 * g + 4, (g + 1) \div PerLine)
           /\ (g % PerLine) + 1 = PerLine =>
                Text(f, Append(d, Newline), 4 * g + 4, (g + 1) \div PerLine)
<1>1. Text(f, e, 4 * g + 2 + 1, g \div PerLine)
    BY AddChar
<1>2. Text(f, d, 4 * g + 2 + 1 + 1, g \div PerLine)
    BY <1>1, AddChar
<1>3. 4 * g + 2 + 1 + 1 = 4 * g + 4
    OBVIOUS
<1>4. Text(f, d, 4 * g + 4, g \div PerLine)
    BY <1>2, <1>3
<1>5. (g % PerLine) + 1 # PerLine => (g + 1) \div PerLine = g \div PerLine
    BY NextGroup
<1>6. ASSUME (g % PerLine) + 1 = PerLine
      PROVE  Text(f, Append(d, Newline), 4 * g + 4, (g + 1) \div PerLine)
    BY <1>4, <1>6, AddNewline
<1> QED BY <1>4, <1>5, <1>6

LEMMA LastByte ==
    ASSUME NEW f \in Seq(Byte), NEW r \in Nat, r < Len(f), NEW g \in Nat, r = 3 * g + 2
    PROVE  6 * (4 * g + 2) < 8 * Len(f) /\ 6 * (4 * g + 3) < 8 * Len(f)
OBVIOUS

LEMMA CodeC ==
    ASSUME NEW f \in Seq(Byte), NEW r \in Nat, r < Len(f), r % 3 = 2,
           NEW c, CodeOf(f, c, r), NEW b, b = f[r + 1],
           NEW h, h = (Octet(f, r - 1) % 16) * 4,
           NEW d, d = Append(Append(c, base64_encode_value(h + b \div 64)),
                             base64_encode_value(b % 64))
    PROVE  /\ ((r \div 3) % PerLine) + 1 # PerLine => CodeOf(f, d, r + 1)
           /\ ((r \div 3) % PerLine) + 1 = PerLine => CodeOf(f, Append(d, Newline), r + 1)
           /\ (r + 1) % 3 = 0 /\ (r + 1) \div 3 = (r \div 3) + 1
           /\ b % 64 \in Below(64)
<1>1. b = Octet(f, r) /\ b \in Nat /\ b < 256
    BY ByteAt
<1>2. PICK g \in Nat : /\ g = r \div 3 /\ r = 3 * g + 2
                       /\ (r + 1) \div 3 = g + 1 /\ (r + 1) % 3 = 0
    BY Thirds
<1>3. 6 * (4 * g + 2) < 8 * Len(f) /\ 6 * (4 * g + 3) < 8 * Len(f)
    BY <1>2, LastByte
<1>4. CodeOf(f, c, r)
    OBVIOUS
<1>5. Text(f, c, 4 * g + 2, g \div PerLine)
    BY <1>2, <1>4 DEF CodeOf
<1>6. Sextet(f, 4 * g + 2) = h + b \div 64 /\ Sextet(f, 4 * g + 3) = b % 64
    <2>1. /\ Sextet(f, 4 * g + 2)
               = (Octet(f, 3 * g + 1) % 16) * 4 + Octet(f, 3 * g + 2) \div 64
          /\ Sextet(f, 4 * g + 3) = Octet(f, 3 * g + 2) % 64
        BY SextetOf
    <2>2. r - 1 = 3 * g + 1
        BY <1>2
    <2>3. Octet(f, 3 * g + 1) = Octet(f, r - 1) /\ Octet(f, 3 * g + 2) = b
        BY <1>1, <1>2, <2>2
    <2> QED BY <2>1, <2>3
<1> DEFINE x == base64_encode_value(h + b \div 64)
           y == base64_encode_value(b % 64)
<1>7. x = Expected(f, 4 * g + 2 + 1) /\ x \in Below(128) /\ x # Newline
    BY <1>3, <1>6, ExpectedValue
<1>8. y = Expected(f, 4 * g + 3 + 1) /\ y \in Below(128) /\ y # Newline
    BY <1>3, <1>6, ExpectedValue
<1>9. d = Append(Append(c, x), y) /\ b % 64 \in Below(64)
    BY <1>1 DEF Below
<1> HIDE DEF x, y
<1>10. Extends(f, c, Append(c, x), g, 4 * g + 2)
    BY <1>7 DEF Extends
<1>11. Extends(f, Append(c, x), d, g, 4 * g + 2 + 1)
    <2>1. 4 * g + 2 + 1 = 4 * g + 3
        OBVIOUS
    <2> DEFINE e == Append(c, x)
               n == 4 * g + 3
    <2>2. d = Append(e, y)
        BY <1>9
    <2>3. n \in Nat /\ 4 * g <= n /\ n < 4 * g + 4 /\ y = Expected(f, n + 1)
        BY <1>8
    <2> HIDE DEF e, n
    <2>4. Extends(f, e, d, g, n)
        BY <1>8, <2>2, <2>3 DEF Extends
    <2> QED BY <2>1, <2>4 DEF e, n
<1>12. /\ (g % PerLine) + 1 # PerLine => Text(f, d, 4 * g + 4, (g + 1) \div PerLine)
       /\ (g % PerLine) + 1 = PerLine =>
            Text(f, Append(d, Newline), 4 * g + 4, (g + 1) \div PerLine)
    BY <1>5, <1>10, <1>11, LastOfGroup
<1>13. 4 * ((r + 1) \div 3) + ((r + 1) % 3) = 4 * g + 4
    BY <1>2
<1>14. ASSUME (g % PerLine) + 1 # PerLine PROVE CodeOf(f, d, r + 1)
    BY <1>2, <1>12, <1>13, <1>14 DEF CodeOf
<1>15. ASSUME (g % PerLine) + 1 = PerLine PROVE CodeOf(f, Append(d, Newline), r + 1)
    BY <1>2, <1>12, <1>13, <1>15 DEF CodeOf
<1> QED BY <1>2, <1>9, <1>14, <1>15

-----------------------------------------------------------------------------
(* A value without a bit of f is padding. *)
LEMMA ExpectedPadding ==
    ASSUME NEW f \in Seq(Byte), NEW k \in Nat, 6 * k >= 8 * Len(f)
    PROVE  /\ Expected(f, k + 1) = Padding
           /\ Expected(f, k + 1) \in Below(128) /\ Expected(f, k + 1) # Newline
<1>1. ~ (6 * ((k + 1) - 1) < 8 * Len(f))
    OBVIOUS
<1> QED BY <1>1 DEF Expected, Padding, Newline, Below

LEMMA ExpectedType ==
    ASSUME NEW f \in Seq(Byte), NEW k \in Nat, 1 <= k
    PROVE  Expected(f, k) \in Below(128) /\ Expected(f, k) # Newline
<1> DEFINE j == k - 1
<1>1. j \in Nat /\ j + 1 = k
    OBVIOUS
<1>2. 6 * j < 8 * Len(f) \/ 6 * j >= 8 * Len(f)
    BY <1>1
<1> HIDE DEF j
<1> QED BY <1>1, <1>2, ExpectedValue, ExpectedPadding

(* The whole text of f, but for the newline at its end. *)
Whole(f, c) == Text(f, c, Total(f), (Len(f) \div 3) \div PerLine)

LEMMA ConcatAppend ==
    ASSUME NEW S, NEW c \in Seq(S), NEW t \in Seq(S), NEW x \in S
    PROVE  c \o Append(t, x) = Append(c \o t, x)
<1>1. <<x>> \in Seq(S) /\ c \o t \in Seq(S)
    BY ConcatProperties
<1>2. Append(t, x) = t \o <<x>> /\ Append(c \o t, x) = (c \o t) \o <<x>>
    BY <1>1, AppendIsConcat
<1> QED BY <1>1, <1>2, ConcatAssociative

LEMMA EndOfText ==
    ASSUME NEW S, NEW c \in Seq(S), NEW x \in S, NEW y \in S, NEW z \in S, NEW w \in S
    PROVE  /\ c \o <<w>> = Append(c, w)
           /\ c \o <<x, y, w>> = Append(Append(Append(c, x), y), w)
           /\ c \o <<x, y, z, w>> = Append(Append(Append(Append(c, x), y), z), w)
<1>1. <<x, y>> = Append(<<x>>, y) /\ <<x, y, z>> = Append(<<x, y>>, z)
    OBVIOUS
<1>2. <<x, y, w>> = Append(<<x, y>>, w) /\ <<x, y, z, w>> = Append(<<x, y, z>>, w)
    OBVIOUS
<1>3. <<x>> \in Seq(S) /\ <<x, y>> \in Seq(S) /\ <<x, y, z>> \in Seq(S)
    OBVIOUS
<1>4. c \o <<x>> = Append(c, x) /\ c \o <<w>> = Append(c, w)
    BY AppendIsConcat
<1>5. c \o <<x, y>> = Append(Append(c, x), y)
    BY <1>1, <1>3, <1>4, ConcatAppend
<1>6. c \o <<x, y, z>> = Append(Append(Append(c, x), y), z)
    BY <1>1, <1>3, <1>5, ConcatAppend
<1>7. c \o <<x, y, w>> = Append(Append(Append(c, x), y), w)
    BY <1>2, <1>3, <1>5, ConcatAppend
<1>8. c \o <<x, y, z, w>> = Append(Append(Append(Append(c, x), y), z), w)
    BY <1>2, <1>3, <1>6, ConcatAppend
<1> QED BY <1>4, <1>7, <1>8

LEMMA GroupOfText ==
    ASSUME NEW S, NEW c \in Seq(S), NEW x \in S, NEW y \in S, NEW w \in S
    PROVE  /\ c \o (<<x, y>> \o <<>>) = Append(Append(c, x), y)
           /\ c \o (<<x, y>> \o <<w>>) = Append(Append(Append(c, x), y), w)
           /\ Len(<<x, y>> \o <<>>) = 2 /\ Len(<<x, y>> \o <<w>>) = 3
<1>1. /\ <<x, y>> \in Seq(S) /\ <<x>> \in Seq(S) /\ <<x, y>> = Append(<<x>>, y)
      /\ <<x, y, w>> = Append(<<x, y>>, w)
    OBVIOUS
<1>2. <<x, y>> \o <<>> = <<x, y>> /\ <<x, y>> \o <<w>> = <<x, y, w>>
    BY <1>1, AppendIsConcat, ConcatEmptySeq
<1>3. c \o <<x>> = Append(c, x)
    BY AppendIsConcat
<1>4. c \o <<x, y>> = Append(Append(c, x), y)
    BY <1>1, <1>3, ConcatAppend
<1>5. c \o <<x, y, w>> = Append(Append(Append(c, x), y), w)
    BY <1>1, <1>4, ConcatAppend
<1>6. Len(<<x, y>>) = 2 /\ Len(<<x, y, w>>) = 3
    OBVIOUS
<1> QED BY <1>2, <1>4, <1>5, <1>6

LEMMA PastEnd ==
    ASSUME NEW f \in Seq(Byte), NEW j \in Nat, j >= Len(f)
    PROVE  Octet(f, j) = 0
BY DEF Octet

LEMMA EndB ==
    ASSUME NEW f \in Seq(Byte), NEW g \in Nat, Len(f) = 3 * g + 1,
           NEW c, Text(f, c, 4 * g + 1, g \div PerLine),
           NEW h, h = (Octet(f, 3 * g) % 4) * 16
    PROVE  \E x : /\ x = base64_encode_value(h) /\ x \in Below(128)
                  /\ Text(f, Append(Append(Append(c, x), Padding), Padding), 4 * g + 4,
                          g \div PerLine)
<1> DEFINE x == base64_encode_value(h)
           c1 == Append(c, x)
           c2 == Append(c1, Padding)
           c3 == Append(c2, Padding)
<1>1. Octet(f, 3 * g + 1) = 0 /\ Octet(f, 3 * g) \in Nat /\ Octet(f, 3 * g) < 256
    BY PastEnd, OctetType
<1>2. Sextet(f, 4 * g + 1) = h
    <2>1. Sextet(f, 4 * g + 1) = (Octet(f, 3 * g) % 4) * 16 + Octet(f, 3 * g + 1) \div 16
        BY SextetOf
    <2> QED BY <1>1, <2>1
<1>3. 6 * (4 * g + 1) < 8 * Len(f) /\ 6 * (4 * g + 2) >= 8 * Len(f)
      /\ 6 * (4 * g + 3) >= 8 * Len(f)
    OBVIOUS
<1>4. x = Expected(f, 4 * g + 1 + 1) /\ x \in Below(128) /\ x # Newline
    BY <1>2, <1>3, ExpectedValue
<1>5. /\ Padding = Expected(f, 4 * g + 2 + 1) /\ Padding = Expected(f, 4 * g + 3 + 1)
      /\ Padding \in Below(128) /\ Padding # Newline
    BY <1>3 DEF Expected, Padding, Newline, Below
<1> HIDE DEF x, c1, c2, c3
<1>6. Extends(f, c, c1, g, 4 * g + 1)
    BY <1>4 DEF Extends, c1
<1>7. Extends(f, c1, c2, g, 4 * g + 2)
    BY <1>5 DEF Extends, c2
<1>8. Extends(f, c2, c3, g, 4 * g + 3)
    BY <1>5 DEF Extends, c3
<1>9. 4 * g + 1 + 1 = 4 * g + 2 /\ 4 * g + 2 + 1 = 4 * g + 3 /\ 4 * g + 3 + 1 = 4 * g + 4
    OBVIOUS
<1>10. Text(f, c1, 4 * g + 1 + 1, g \div PerLine)
    BY <1>6, AddChar
<1>11. Text(f, c2, 4 * g + 2 + 1, g \div PerLine)
    BY <1>7, <1>9, <1>10, AddChar
<1>12. Text(f, c3, 4 * g + 3 + 1, g \div PerLine)
    BY <1>8, <1>9, <1>11, AddChar
<1> QED BY <1>4, <1>9, <1>12 DEF x, c1, c2, c3

LEMMA EndC ==
    ASSUME NEW f \in Seq(Byte), NEW g \in Nat, Len(f) = 3 * g + 2,
           NEW c, Text(f, c, 4 * g + 2, g \div PerLine),
           NEW h, h = (Octet(f, 3 * g + 1) % 16) * 4
    PROVE  \E x : /\ x = base64_encode_value(h) /\ x \in Below(128)
                  /\ Text(f, Append(Append(c, x), Padding), 4 * g + 4, g \div PerLine)
<1> DEFINE x == base64_encode_value(h)
           c1 == Append(c, x)
           c2 == Append(c1, Padding)
<1>1. Octet(f, 3 * g + 2) = 0 /\ Octet(f, 3 * g + 1) \in Nat /\ Octet(f, 3 * g + 1) < 256
    BY PastEnd, OctetType
<1>2. Sextet(f, 4 * g + 2) = h
    <2>1. Sextet(f, 4 * g + 2)
            = (Octet(f, 3 * g + 1) % 16) * 4 + Octet(f, 3 * g + 2) \div 64
        BY SextetOf
    <2> QED BY <1>1, <2>1
<1>3. 6 * (4 * g + 2) < 8 * Len(f) /\ 6 * (4 * g + 3) >= 8 * Len(f)
    OBVIOUS
<1>4. x = Expected(f, 4 * g + 2 + 1) /\ x \in Below(128) /\ x # Newline
    BY <1>2, <1>3, ExpectedValue
<1>5. /\ Padding = Expected(f, 4 * g + 3 + 1)
      /\ Padding \in Below(128) /\ Padding # Newline
    BY <1>3 DEF Expected, Padding, Newline, Below
<1> HIDE DEF x, c1, c2
<1>6. Extends(f, c, c1, g, 4 * g + 2)
    BY <1>4 DEF Extends, c1
<1>7. Extends(f, c1, c2, g, 4 * g + 3)
    BY <1>5 DEF Extends, c2
<1>8. 4 * g + 2 + 1 = 4 * g + 3 /\ 4 * g + 3 + 1 = 4 * g + 4
    OBVIOUS
<1>9. Text(f, c1, 4 * g + 2 + 1, g \div PerLine)
    BY <1>6, AddChar
<1>10. Text(f, c2, 4 * g + 3 + 1, g \div PerLine)
    BY <1>7, <1>8, <1>9, AddChar
<1> QED BY <1>4, <1>8, <1>10 DEF x, c1, c2

(* What base64_encode_blockend adds completes the text. *)
LEMMA Finished ==
    ASSUME NEW f \in Seq(Byte), NEW c, CodeOf(f, c, Len(f)),
           NEW s, Holds(f, Len(f), s)
    PROVE  /\ \E d : Whole(f, d) /\ c \o base64_encode_blockend(s) = Append(d, Newline)
           /\ Len(base64_encode_blockend(s)) \in 1 .. 4
<1> DEFINE n == Len(f)
           g == n \div 3
<1>1. c \in Seq(Below(128)) /\ Newline \in Below(128) /\ Padding \in Below(128)
    BY DEF CodeOf, Text, TextIs, Newline, Padding, Below
<1>2. n \in Nat /\ g \in Nat
    OBVIOUS
<1>3. Text(f, c, 4 * g + (n % 3), g \div PerLine)
    BY DEF CodeOf
<1>4. Holds(f, n, s)
    OBVIOUS
<1>5. Whole(f, c) <=> Text(f, c, Total(f), g \div PerLine)
    BY DEF Whole
<1>6. ASSUME NEW d PROVE Whole(f, d) <=> Text(f, d, Total(f), g \div PerLine)
    BY DEF Whole
<1>7. Total(f) = 4 * ((n + 2) \div 3)
    BY DEF Total
<1> HIDE DEF n
<1>8. CASE n % 3 = 0 /\ s.step = "A"
    <2>1. 4 * g + (n % 3) = Total(f)
        BY <1>2, <1>7, <1>8
    <2>2. base64_encode_blockend(s) = <<Newline>>
        BY <1>8 DEF base64_encode_blockend
    <2>3. c \o <<Newline>> = Append(c, Newline)
        BY <1>1, EndOfText
    <2> QED BY <1>3, <1>6, <2>1, <2>2, <2>3
<1>9. CASE n % 3 = 1 /\ s.step = "B" /\ s.result = (Octet(f, n - 1) % 4) * 16
    <2>1. n = 3 * g + 1 /\ n - 1 = 3 * g /\ 4 * g + 4 = Total(f)
        BY <1>2, <1>7, <1>9
    <2>2. s.result = (Octet(f, 3 * g) % 4) * 16
        BY <1>9, <2>1
    <2>3. Len(f) = 3 * g + 1
        BY <2>1 DEF n
    <2>4. Text(f, c, 4 * g + 1, g \div PerLine)
        BY <1>3, <1>9
    <2> HIDE DEF g
    <2>5. PICK x : /\ x = base64_encode_value(s.result) /\ x \in Below(128)
                   /\ Text(f, Append(Append(Append(c, x), Padding), Padding), 4 * g + 4,
                           g \div PerLine)
        BY <1>2, <2>2, <2>3, <2>4, EndB
    <2>6. base64_encode_blockend(s) = <<x, Padding, Padding, Newline>>
        BY <1>9, <2>5 DEF base64_encode_blockend
    <2>7. c \o <<x, Padding, Padding, Newline>>
            = Append(Append(Append(Append(c, x), Padding), Padding), Newline)
        BY <1>1, <2>5, EndOfText
    <2>8. Whole(f, Append(Append(Append(c, x), Padding), Padding))
        BY <1>6, <2>1, <2>5
    <2>9. Len(<<x, Padding, Padding, Newline>>) \in 1 .. 4
        OBVIOUS
    <2> QED BY <2>6, <2>7, <2>8, <2>9
<1>10. CASE n % 3 = 2 /\ s.step = "C" /\ s.result = (Octet(f, n - 1) % 16) * 4
    <2>1. n = 3 * g + 2 /\ n - 1 = 3 * g + 1 /\ 4 * g + 4 = Total(f)
        BY <1>2, <1>7, <1>10
    <2>2. s.result = (Octet(f, 3 * g + 1) % 16) * 4
        BY <1>10, <2>1
    <2>3. Len(f) = 3 * g + 2
        BY <2>1 DEF n
    <2>4. Text(f, c, 4 * g + 2, g \div PerLine)
        BY <1>3, <1>10
    <2> HIDE DEF g
    <2>5. PICK x : /\ x = base64_encode_value(s.result) /\ x \in Below(128)
                   /\ Text(f, Append(Append(c, x), Padding), 4 * g + 4, g \div PerLine)
        BY <1>2, <2>2, <2>3, <2>4, EndC
    <2>6. base64_encode_blockend(s) = <<x, Padding, Newline>>
        BY <1>10, <2>5 DEF base64_encode_blockend
    <2>7. c \o <<x, Padding, Newline>> = Append(Append(Append(c, x), Padding), Newline)
        BY <1>1, <2>5, EndOfText
    <2>8. Whole(f, Append(Append(c, x), Padding))
        BY <1>6, <2>1, <2>5
    <2>9. Len(<<x, Padding, Newline>>) \in 1 .. 4
        OBVIOUS
    <2> QED BY <2>6, <2>7, <2>8, <2>9
<1> QED BY <1>4, <1>8, <1>9, <1>10 DEF Holds

(* What that says of the finished text. *)
LEMMA WholeText ==
    ASSUME NEW f \in Seq(Byte), NEW c, Whole(f, c), NEW d, d = Append(c, Newline)
    PROVE  /\ d \in Seq(Below(128)) /\ Len(d) = Len(c) + 1
           /\ \A k \in 1 .. Total(f) : /\ At(k) \in DOMAIN d /\ d[At(k)] = Expected(f, k)
                                       /\ d[At(k)] # Newline
           /\ \A p \in DOMAIN d : d[p] # Newline => \E k \in 1 .. Total(f) : p = At(k)
           /\ \A p \in DOMAIN d : d[p] = Newline <=> p % (Width + 1) = 0 \/ p = Len(d)
<1>1. TextIs(f, c, Total(f))
    BY DEF Whole, Text
<1>2. c \in Seq(Below(128)) /\ Newline \in Below(128)
    BY <1>1 DEF TextIs, Newline, Below
<1> DEFINE l == Len(c) + 1
<1>3. /\ d \in Seq(Below(128)) /\ Len(c) \in Nat /\ Len(d) = l
      /\ DOMAIN c = 1 .. Len(c) /\ DOMAIN d = 1 .. l
      /\ \A p \in DOMAIN c : p # l /\ d[p] = c[p]
      /\ d[l] = Newline
    BY <1>2, Appended
<1>4. \A p \in DOMAIN d : p \in DOMAIN c \/ p = l
    BY <1>3
<1>5. DOMAIN c \subseteq DOMAIN d
    BY <1>3
<1> HIDE DEF l
<1>6. ASSUME NEW k \in 1 .. Total(f)
      PROVE  At(k) \in DOMAIN d /\ d[At(k)] = Expected(f, k) /\ d[At(k)] # Newline
    <2>1. At(k) \in DOMAIN c /\ c[At(k)] = Expected(f, k)
        BY <1>1 DEF TextIs
    <2>2. k \in Nat /\ 1 <= k
        OBVIOUS
    <2>3. Expected(f, k) # Newline
        BY <2>2, ExpectedType
    <2> QED BY <1>3, <1>5, <2>1, <2>3
<1>7. ASSUME NEW p \in DOMAIN d, d[p] # Newline
      PROVE  \E k \in 1 .. Total(f) : p = At(k)
    <2>1. p \in DOMAIN c /\ c[p] # Newline
        BY <1>3, <1>4, <1>7
    <2> QED BY <1>1, <2>1 DEF TextIs
<1>8. ASSUME NEW p \in DOMAIN d
      PROVE  d[p] = Newline <=> p % (Width + 1) = 0 \/ p = Len(d)
    <2>1. CASE p \in DOMAIN c
        <3>1. d[p] = c[p] /\ p # Len(d)
            BY <1>3, <2>1
        <3>2. c[p] = Newline <=> p % (Width + 1) = 0
            BY <1>1, <2>1 DEF TextIs
        <3> QED BY <3>1, <3>2
    <2>2. CASE p = l
        BY <1>3, <2>2
    <2> QED BY <1>4, <2>1, <2>2
<1>9. Len(d) = Len(c) + 1
    BY <1>3 DEF l
<1> QED BY <1>3, <1>6, <1>7, <1>8, <1>9

-----------------------------------------------------------------------------
(* The text d is what encode_file or encode_str has made of f. *)
Complete(f, d) == \E c : Whole(f, c) /\ d = Append(c, Newline)

(* When t characters have been decoded, n values of six bits of f have     *)
(* been: those whose places have been passed.                              *)
Values(f, t, n) ==
    /\ n \in Nat
    /\ n # 0 => 6 * (n - 1) < 8 * Len(f) /\ At(n) <= t
    /\ 6 * n < 8 * Len(f) => t < At(n + 1)

(* And D is what the decoder has at its step, and out what it has written: *)
(* the bytes of f that are complete, and the bits of the next one.         *)
DecoderHas(f, n, D) ==
    \/ n % 4 = 0 /\ D.step = "a"
    \/ n % 4 = 1 /\ D.step = "b" /\ D.plainchar = (Octet(f, 3 * (n \div 4)) \div 4) * 4
    \/ /\ n % 4 = 2 /\ D.step = "c"
       /\ D.plainchar = (Octet(f, 3 * (n \div 4) + 1) \div 16) * 16
    \/ /\ n % 4 = 3 /\ D.step = "d"
       /\ D.plainchar = (Octet(f, 3 * (n \div 4) + 2) \div 64) * 64

Out(f, n, out) ==
    /\ out \in Seq(Byte) /\ Len(out) = (3 * n) \div 4 /\ Len(out) <= Len(f)
    /\ \A j \in 1 .. Len(out) : out[j] = f[j]

Decoded(f, t, D, out) ==
    \E n \in Nat : Values(f, t, n) /\ DecoderHas(f, n, D) /\ Out(f, n, out)

(* The next value of f is in the text. *)
LEMMA InText ==
    ASSUME NEW f \in Seq(Byte), NEW d, Complete(f, d), NEW n \in Nat, 6 * n < 8 * Len(f)
    PROVE  /\ At(n + 1) \in DOMAIN d
           /\ base64_decode_value(d[At(n + 1)]) = Sextet(f, n)
           /\ Sextet(f, n) \in Below(64)
<1>1. PICK c : Whole(f, c) /\ d = Append(c, Newline)
    BY DEF Complete
<1>2. n + 1 \in 1 .. Total(f)
    BY DEF Total
<1>3. At(n + 1) \in DOMAIN d /\ d[At(n + 1)] = Expected(f, n + 1)
    BY <1>1, <1>2, WholeText
<1>4. Expected(f, n + 1) = base64_encode_value(Sextet(f, n))
    BY ExpectedValue
<1>5. Sextet(f, n) \in Below(64)
    BY SextetType
<1> QED BY <1>3, <1>4, <1>5, ValueBack

(* A character without a value leaves the count of values as it is. *)
LEMMA SkippedChar ==
    ASSUME NEW f \in Seq(Byte), NEW d, Complete(f, d), NEW t \in Nat, NEW n,
           Values(f, t, n), base64_decode_value(d[t + 1]) < 0
    PROVE  Values(f, t + 1, n)
<1>1. n \in Nat
    BY DEF Values
<1>2. n # 0 => 6 * (n - 1) < 8 * Len(f) /\ At(n) <= t + 1
    <2> SUFFICES ASSUME n # 0 PROVE 6 * (n - 1) < 8 * Len(f) /\ At(n) <= t + 1
        OBVIOUS
    <2>1. 6 * (n - 1) < 8 * Len(f) /\ At(n) <= t
        BY DEF Values
    <2>2. n + 1 \in Nat /\ 1 <= n /\ n < n + 1
        BY <1>1
    <2>3. At(n) \in Nat
        BY <1>1, <2>2, AtGrows
    <2> QED BY <2>1, <2>3
<1>3. ASSUME 6 * n < 8 * Len(f) PROVE t + 1 < At(n + 1)
    <2>1. t < At(n + 1)
        BY <1>3 DEF Values
    <2>2. base64_decode_value(d[At(n + 1)]) = Sextet(f, n) /\ Sextet(f, n) \in Below(64)
        BY <1>1, <1>3, InText
    <2>3. ~ (Sextet(f, n) < 0)
        BY <2>2 DEF Below
    <2>4. At(n + 1) # t + 1
        BY <2>2, <2>3
    <2>5. n + 1 \in Nat /\ n + 2 \in Nat /\ 1 <= n + 1 /\ n + 1 < n + 2
        BY <1>1
    <2>6. At(n + 1) \in Nat
        BY <2>5, AtGrows
    <2> QED BY <2>1, <2>4, <2>6
<1> QED BY <1>1, <1>2, <1>3 DEF Values

(* One with a value is that of the next six bits. *)
LEMMA NextValue ==
    ASSUME NEW f \in Seq(Byte), NEW d, Complete(f, d), NEW t \in Nat, t < Len(d), NEW n,
           Values(f, t, n), base64_decode_value(d[t + 1]) >= 0
    PROVE  /\ n \in Nat /\ 6 * n < 8 * Len(f)
           /\ base64_decode_value(d[t + 1]) = Sextet(f, n)
           /\ Values(f, t + 1, n + 1)
<1>1. n \in Nat
    BY DEF Values
<1>2. PICK c : Whole(f, c) /\ d = Append(c, Newline)
    BY DEF Complete
<1>3. d \in Seq(Below(128))
    BY <1>2, WholeText
<1>4. t + 1 \in DOMAIN d
    BY <1>3
<1>5. /\ base64_decode_value(Newline) = -1 /\ ~ (-1 >= 0)
      /\ base64_decode_value(Padding) = -2 /\ ~ (-2 >= 0)
    BY Skipped
<1>6. d[t + 1] # Newline /\ d[t + 1] # Padding
    BY <1>5
<1>7. PICK k \in 1 .. Total(f) : t + 1 = At(k)
    BY <1>2, <1>4, <1>6, WholeText
<1>8. k \in Nat /\ 1 <= k /\ d[At(k)] = Expected(f, k)
    BY <1>2, <1>7, WholeText
<1>9. 6 * (k - 1) < 8 * Len(f)
    <2>1. Expected(f, k) # Padding
        BY <1>6, <1>7, <1>8
    <2> QED BY <2>1 DEF Expected
<1>10. ~ (k <= n)
    <2> SUFFICES ASSUME k <= n PROVE FALSE
        OBVIOUS
    <2>1. n # 0 /\ At(n) <= t
        BY <1>8 DEF Values
    <2>2. n + 1 \in Nat /\ 1 <= n /\ n < n + 1
        BY <1>1, <1>8
    <2>3. At(n) \in Nat
        BY <1>1, <2>2, AtGrows
    <2>4. k # n => At(k) < At(n)
        BY <1>1, <1>8, AtGrows
    <2>5. k = n => At(k) = At(n)
        OBVIOUS
    <2> QED BY <1>7, <2>1, <2>3, <2>4, <2>5
<1>11. 6 * n < 8 * Len(f)
    BY <1>1, <1>8, <1>9, <1>10
<1>12. t < At(n + 1)
    BY <1>11 DEF Values
<1>13. k = n + 1
    <2> SUFFICES ASSUME k # n + 1 PROVE FALSE
        OBVIOUS
    <2>1. n + 1 \in Nat /\ 1 <= n + 1 /\ n + 1 < k
        BY <1>1, <1>8, <1>10
    <2>2. At(n + 1) \in Nat /\ At(n + 1) < At(k)
        BY <1>8, <2>1, AtGrows
    <2> QED BY <1>7, <1>12, <2>2
<1>14. base64_decode_value(d[t + 1]) = Sextet(f, n)
    BY <1>1, <1>7, <1>11, <1>13, InText
<1>15. Values(f, t + 1, n + 1)
    <2>1. n + 1 \in Nat /\ (n + 1) - 1 = n /\ n + 1 # 0
        BY <1>1
    <2>2. At(n + 1) = t + 1
        BY <1>7, <1>13
    <2>3. n + 2 \in Nat /\ n + 1 < n + 2 /\ 1 <= n + 1 /\ n + 1 + 1 = n + 2
        BY <1>1
    <2>4. t + 1 < At(n + 1 + 1)
        BY <2>1, <2>2, <2>3, AtGrows
    <2>5. 6 * ((n + 1) - 1) < 8 * Len(f)
        BY <1>11, <2>1
    <2> QED BY <2>1, <2>2, <2>4, <2>5 DEF Values
<1> QED BY <1>1, <1>11, <1>14, <1>15

-----------------------------------------------------------------------------
(* The steps of the decoder put the bits together again. *)
LEMMA Joined ==
    ASSUME NEW a \in Nat, NEW b \in Nat, a < 256, b < 256
    PROVE  /\ (a \div 4) * 4 \in Byte
           /\ (b \div 16) * 16 \in Byte
           /\ (b \div 64) * 64 \in Byte
           /\ (((a % 4) * 16 + b \div 16) % 16) * 16 = (b \div 16) * 16
           /\ (a \div 4) * 4 + ((a % 4) * 16 + b \div 16) \div 16 = a
           /\ (((a % 16) * 4 + b \div 64) % 4) * 64 = (b \div 64) * 64
           /\ (a \div 16) * 16 + ((a % 16) * 4 + b \div 64) \div 4 = a
           /\ (a \div 64) * 64 + (a % 64) = a
<1>1. (a \div 4) * 4 \in Byte /\ (b \div 16) * 16 \in Byte /\ (b \div 64) * 64 \in Byte
    BY DEF Byte, Below
<1>2. b \div 16 \in Nat /\ b \div 16 < 16 /\ b \div 64 \in Nat /\ b \div 64 < 4
    OBVIOUS
<1>3. ((a % 4) * 16 + b \div 16) % 16 = b \div 16
    BY <1>2
<1>4. ((a % 4) * 16 + b \div 16) \div 16 = a % 4
    BY <1>2
<1>5. ((a % 16) * 4 + b \div 64) % 4 = b \div 64
    BY <1>2
<1>6. ((a % 16) * 4 + b \div 64) \div 4 = a % 16
    BY <1>2
<1>7. /\ (a \div 4) * 4 + (a % 4) = a /\ (a \div 16) * 16 + (a % 16) = a
      /\ (a \div 64) * 64 + (a % 64) = a
    OBVIOUS
<1> QED BY <1>1, <1>3, <1>4, <1>5, <1>6, <1>7

LEMMA OctetsType ==
    ASSUME NEW f \in Seq(Byte), NEW g \in Nat
    PROVE  /\ Octet(f, 3 * g) \in Nat /\ Octet(f, 3 * g) < 256
           /\ Octet(f, 3 * g + 1) \in Nat /\ Octet(f, 3 * g + 1) < 256
           /\ Octet(f, 3 * g + 2) \in Nat /\ Octet(f, 3 * g + 2) < 256
BY OctetType

LEMMA OneMore ==
    ASSUME NEW f \in Seq(Byte), NEW n \in Nat, NEW out, Out(f, n, out),
           NEW x, Len(out) < Len(f), x = f[Len(out) + 1],
           (3 * (n + 1)) \div 4 = ((3 * n) \div 4) + 1
    PROVE  Out(f, n + 1, Append(out, x))
<1> DEFINE e == Append(out, x)
<1>1. out \in Seq(Byte) /\ Len(out) = (3 * n) \div 4 /\ \A j \in 1 .. Len(out) : out[j] = f[j]
    BY DEF Out
<1>2. x \in Byte
    OBVIOUS
<1>3. e \in Seq(Byte) /\ Len(e) = Len(out) + 1
    BY <1>1, <1>2
<1>4. \A j \in 1 .. Len(out) : e[j] = out[j]
    BY <1>1, <1>2
<1>5. e[Len(out) + 1] = x
    BY <1>1, <1>2
<1>6. Len(out) \in Nat
    BY <1>1
<1> HIDE DEF e
<1>7. Len(e) = (3 * (n + 1)) \div 4 /\ Len(e) <= Len(f)
    BY <1>1, <1>3, <1>6
<1>8. \A j \in 1 .. Len(e) : e[j] = f[j]
    <2> SUFFICES ASSUME NEW j \in 1 .. Len(e) PROVE e[j] = f[j]
        OBVIOUS
    <2>1. j \in 1 .. Len(out) \/ j = Len(out) + 1
        BY <1>3, <1>6
    <2>2. CASE j \in 1 .. Len(out)
        BY <1>1, <1>4, <2>2
    <2>3. CASE j = Len(out) + 1
        BY <1>5, <2>3
    <2> QED BY <2>1, <2>2, <2>3
<1> QED BY <1>3, <1>7, <1>8 DEF Out, e

LEMMA Quarters ==
    ASSUME NEW n \in Nat
    PROVE  \E g \in Nat :
             /\ g = n \div 4
             /\ \/ n % 4 = 0 /\ n = 4 * g
                \/ n % 4 = 1 /\ n = 4 * g + 1
                \/ n % 4 = 2 /\ n = 4 * g + 2
                \/ n % 4 = 3 /\ n = 4 * g + 3
OBVIOUS

LEMMA DataA ==
    ASSUME NEW f \in Seq(Byte), NEW n \in Nat, 6 * n < 8 * Len(f), n % 4 = 0,
           NEW out, Out(f, n, out), NEW v, v = Sextet(f, n)
    PROVE  /\ DecoderHas(f, n + 1, [step |-> "b", plainchar |-> v * 4])
           /\ v * 4 \in Byte
           /\ Out(f, n + 1, out)
<1>1. PICK g \in Nat : n = 4 * g
    BY Quarters
<1>2. /\ (n + 1) % 4 = 1 /\ (n + 1) \div 4 = g
      /\ (3 * n) \div 4 = 3 * g /\ (3 * (n + 1)) \div 4 = 3 * g
    BY <1>1
<1> DEFINE a == Octet(f, 3 * g)
<1>3. a \in Nat /\ a < 256
    BY OctetsType
<1>4. v = a \div 4
    BY <1>1, SextetOf
<1>5. v * 4 = (a \div 4) * 4 /\ v * 4 \in Byte
    BY <1>3, <1>4, Joined
<1>6. DecoderHas(f, n + 1, [step |-> "b", plainchar |-> v * 4])
    BY <1>2, <1>5 DEF DecoderHas
<1>7. Out(f, n + 1, out)
    BY <1>2 DEF Out
<1> QED BY <1>5, <1>6, <1>7

LEMMA DataB ==
    ASSUME NEW f \in Seq(Byte), NEW n \in Nat, 6 * n < 8 * Len(f), n % 4 = 1,
           NEW out, Out(f, n, out), NEW v, v = Sextet(f, n),
           NEW D, DecoderHas(f, n, D)
    PROVE  /\ DecoderHas(f, n + 1, [step |-> "c", plainchar |-> (v % 16) * 16])
           /\ (v % 16) * 16 \in Byte
           /\ Out(f, n + 1, Append(out, D.plainchar + v \div 16))
<1>1. PICK g \in Nat : g = n \div 4 /\ n = 4 * g + 1
    BY Quarters
<1>2. /\ (n + 1) % 4 = 2 /\ (n + 1) \div 4 = g
      /\ (3 * n) \div 4 = 3 * g /\ (3 * (n + 1)) \div 4 = 3 * g + 1
      /\ 3 * g < Len(f)
    BY <1>1
<1> DEFINE a == Octet(f, 3 * g)
           b == Octet(f, 3 * g + 1)
<1>3. a \in Nat /\ a < 256 /\ b \in Nat /\ b < 256
    BY OctetsType
<1>4. v = (a % 4) * 16 + b \div 16
    BY <1>1, SextetOf
<1>5. D.plainchar = (a \div 4) * 4
    BY <1>1 DEF DecoderHas
<1>6. a = f[3 * g + 1]
    BY <1>2 DEF Octet
<1> DEFINE x == D.plainchar + v \div 16
           p == (v % 16) * 16
<1>7. x = a /\ p = (b \div 16) * 16 /\ p \in Byte
    <2> HIDE DEF a, b
    <2> QED BY <1>3, <1>4, <1>5, Joined
<1> HIDE DEF x, p
<1>8. DecoderHas(f, n + 1, [step |-> "c", plainchar |-> p])
    BY <1>2, <1>7 DEF DecoderHas
<1>9. Len(out) = 3 * g
    BY <1>2 DEF Out
<1> HIDE DEF a
<1>10. Len(out) < Len(f) /\ x = f[Len(out) + 1] /\ (3 * (n + 1)) \div 4 = ((3 * n) \div 4) + 1
    BY <1>2, <1>6, <1>7, <1>9
<1>11. Out(f, n + 1, Append(out, x))
    BY <1>10, OneMore
<1> QED BY <1>7, <1>8, <1>11 DEF x, p

LEMMA DataC ==
    ASSUME NEW f \in Seq(Byte), NEW n \in Nat, 6 * n < 8 * Len(f), n % 4 = 2,
           NEW out, Out(f, n, out), NEW v, v = Sextet(f, n),
           NEW D, DecoderHas(f, n, D)
    PROVE  /\ DecoderHas(f, n + 1, [step |-> "d", plainchar |-> (v % 4) * 64])
           /\ (v % 4) * 64 \in Byte
           /\ Out(f, n + 1, Append(out, D.plainchar + v \div 4))
<1>1. PICK g \in Nat : g = n \div 4 /\ n = 4 * g + 2
    BY Quarters
<1>2. /\ (n + 1) % 4 = 3 /\ (n + 1) \div 4 = g
      /\ (3 * n) \div 4 = 3 * g + 1 /\ (3 * (n + 1)) \div 4 = 3 * g + 2
      /\ 3 * g + 1 < Len(f)
    BY <1>1
<1> DEFINE a == Octet(f, 3 * g + 1)
           b == Octet(f, 3 * g + 2)
<1>3. a \in Nat /\ a < 256 /\ b \in Nat /\ b < 256
    BY OctetsType
<1>4. v = (a % 16) * 4 + b \div 64
    BY <1>1, SextetOf
<1>5. D.plainchar = (a \div 16) * 16
    BY <1>1 DEF DecoderHas
<1>6. a = f[3 * g + 1 + 1]
    BY <1>2 DEF Octet
<1> DEFINE x == D.plainchar + v \div 4
           p == (v % 4) * 64
<1>7. x = a /\ p = (b \div 64) * 64 /\ p \in Byte
    <2> HIDE DEF a, b
    <2> QED BY <1>3, <1>4, <1>5, Joined
<1> HIDE DEF x, p
<1>8. DecoderHas(f, n + 1, [step |-> "d", plainchar |-> p])
    BY <1>2, <1>7 DEF DecoderHas
<1>9. Len(out) = 3 * g + 1
    BY <1>2 DEF Out
<1> HIDE DEF a
<1>10. Len(out) < Len(f) /\ x = f[Len(out) + 1] /\ (3 * (n + 1)) \div 4 = ((3 * n) \div 4) + 1
    BY <1>2, <1>6, <1>7, <1>9
<1>11. Out(f, n + 1, Append(out, x))
    BY <1>10, OneMore
<1> QED BY <1>7, <1>8, <1>11 DEF x, p

LEMMA DataD ==
    ASSUME NEW f \in Seq(Byte), NEW n \in Nat, 6 * n < 8 * Len(f), n % 4 = 3,
           NEW out, Out(f, n, out), NEW v, v = Sextet(f, n),
           NEW D, DecoderHas(f, n, D), NEW E, E.step = "a"
    PROVE  /\ DecoderHas(f, n + 1, E)
           /\ Out(f, n + 1, Append(out, D.plainchar + v))
<1>1. PICK g \in Nat : g = n \div 4 /\ n = 4 * g + 3
    BY Quarters
<1>2. /\ (n + 1) % 4 = 0
      /\ (3 * n) \div 4 = 3 * g + 2 /\ (3 * (n + 1)) \div 4 = 3 * g + 3
      /\ 3 * g + 2 < Len(f)
    BY <1>1
<1> DEFINE a == Octet(f, 3 * g + 2)
<1>3. a \in Nat /\ a < 256
    BY OctetsType
<1>4. v = a % 64
    BY <1>1, SextetOf
<1>5. D.plainchar = (a \div 64) * 64
    BY <1>1 DEF DecoderHas
<1>6. a = f[3 * g + 2 + 1]
    BY <1>2 DEF Octet
<1> DEFINE x == D.plainchar + v
<1>7. x = a
    <2> HIDE DEF a
    <2> QED BY <1>3, <1>4, <1>5, Joined
<1> HIDE DEF x
<1>8. DecoderHas(f, n + 1, E)
    BY <1>2 DEF DecoderHas
<1>9. Len(out) = 3 * g + 2
    BY <1>2 DEF Out
<1> HIDE DEF a
<1>10. Len(out) < Len(f) /\ x = f[Len(out) + 1] /\ (3 * (n + 1)) \div 4 = ((3 * n) \div 4) + 1
    BY <1>2, <1>6, <1>7, <1>9
<1>11. Out(f, n + 1, Append(out, x))
    BY <1>10, OneMore
<1> QED BY <1>8, <1>11 DEF x

(* What has been decoded is there as soon as its last bit has been taken.  *)
LEMMA WhenComplete ==
    ASSUME NEW f \in Seq(Byte), NEW t \in Nat, NEW N, Values(f, t, N),
           NEW n \in 1 .. Len(f)
    PROVE  n <= (3 * N) \div 4 <=> At((8 * n + 5) \div 6) <= t
<1> DEFINE m == (8 * n + 5) \div 6
<1>1. N \in Nat
    BY DEF Values
<1>2. m \in Nat /\ 1 <= m /\ 6 * (m - 1) < 8 * n /\ 6 * m >= 8 * n
    OBVIOUS
<1>3. n <= (3 * N) \div 4 <=> m <= N
    BY <1>1
<1> HIDE DEF m
<1>4. CASE m <= N
    <2>1. N # 0 /\ At(N) <= t
        BY <1>1, <1>2, <1>4 DEF Values
    <2>2. N + 1 \in Nat /\ 1 <= N /\ N < N + 1
        BY <1>1, <1>2, <1>4
    <2>3. At(N) \in Nat
        BY <1>1, <2>2, AtGrows
    <2>4. m # N => At(m) < At(N) /\ At(m) \in Nat
        BY <1>1, <1>2, <1>4, AtGrows
    <2>5. At(m) <= t
        BY <2>1, <2>3, <2>4
    <2> QED BY <1>3, <1>4, <2>5 DEF m
<1>5. CASE ~ (m <= N)
    <2>1. 6 * N < 8 * Len(f) /\ N + 1 \in Nat /\ 1 <= N + 1 /\ N + 1 <= m
        BY <1>1, <1>2, <1>5
    <2>2. t < At(N + 1)
        BY <2>1 DEF Values
    <2>3. N + 2 \in Nat /\ N + 1 < N + 2
        BY <1>1
    <2>4. At(N + 1) \in Nat
        BY <2>1, <2>3, AtGrows
    <2>5. N + 1 # m => At(N + 1) < At(m) /\ At(m) \in Nat
        BY <1>2, <2>1, AtGrows
    <2>6. ~ (At(m) <= t)
        BY <2>2, <2>4, <2>5
    <2> QED BY <1>3, <1>5, <2>6 DEF m
<1> QED BY <1>4, <1>5

LEMMA BeginningOf ==
    ASSUME NEW f \in Seq(Byte), NEW n, NEW out, Out(f, n, out)
    PROVE  out = SubSeq(f, 1, Len(out))
<1>1. out \in Seq(Byte) /\ Len(out) <= Len(f) /\ \A j \in 1 .. Len(out) : out[j] = f[j]
    BY DEF Out
<1>2. Len(out) \in Nat
    BY <1>1
<1> DEFINE e == SubSeq(f, 1, Len(out))
<1>3. e = [j \in 1 .. Len(out) |-> f[j]]
    BY <1>1, <1>2
<1>4. out = [j \in 1 .. Len(out) |-> out[j]]
    BY <1>1
<1> QED BY <1>1, <1>3, <1>4

-----------------------------------------------------------------------------
(* The buffers. *)
LEMMA LinesOf ==
    ASSUME NEW g \in Nat
    PROVE  /\ g \div PerLine \in Nat /\ 3 * (g \div PerLine) <= g
           /\ g < 3 => g \div PerLine = 0
<1> DEFINE q == g \div PerLine
           s == g % PerLine
<1>1. PerLine \in Nat \ {0} /\ PerLine >= 3
    BY PerLineType
<1>2. q \in Nat /\ s \in Nat /\ g = q * PerLine + s
    BY <1>1, Divided
<1> HIDE DEF q, s
<1>3. PICK e \in Nat : PerLine = 3 + e
    <2>1. PerLine - 3 \in Nat /\ PerLine = 3 + (PerLine - 3)
        BY <1>1
    <2> QED BY <2>1
<1>4. q * PerLine = 3 * q + q * e /\ q * e \in Nat
    BY <1>2, <1>3
<1>5. 3 * q <= g
    BY <1>2, <1>4
<1>6. g < 3 => q = 0
    BY <1>2, <1>5
<1> QED BY <1>2, <1>5, <1>6 DEF q

LEMMA StrRoom ==
    ASSUME NEW n \in Nat, NEW q \in Nat, 3 * q <= n \div 3, n \div 3 < 3 => q = 0,
           n = 3 \/ n > 4
    PROVE  4 * ((n + 2) \div 3) + q + 2 <= 2 * n
<1>1. CASE n < 9
    <2>1. q = 0
        BY <1>1
    <2>2. n = 3 \/ n = 5 \/ n = 6 \/ n = 7 \/ n = 8
        BY <1>1
    <2> QED BY <2>1, <2>2
<1>2. CASE ~ (n < 9)
    <2>1. 3 * ((n + 2) \div 3) <= n + 2 /\ 9 * q <= n
        OBVIOUS
    <2>2. 9 * (4 * ((n + 2) \div 3) + q + 2) <= 9 * (2 * n)
        BY <1>2, <2>1
    <2> QED BY <1>2, <2>2
<1> QED BY <1>1, <1>2

-----------------------------------------------------------------------------
(* The invariant.  While the encoder runs, the text is that of the bytes   *)
(* taken, the coder holds the bits left over, wherever it keeps them, and  *)
(* the count of groups on the line is that of the text; ...                *)
EncodeInv ==
    /\ at # "done" => /\ CodeOf(file, code, read)
                      /\ es.stepcount = (read \div 3) % PerLine
    /\ at \in {"start", "fread", "blockend"} => Holds(file, read, es)
    /\ at = "block" => Holds(file, read, enc)

(* ... a call has what it was called with; ... *)
CallInv ==
    /\ at = "start" <=> by = "none"
    /\ at = "start" => read = 0 /\ code = <<>> /\ cnt = 0
    /\ at = "fread" => by = "encode_file"
    /\ at = "block" => read <= limit
    /\ at = "block" /\ by = "encode_str" => limit = Len(file)
    /\ at = "blockend" => by = "encode_str" /\ read = Len(file)

(* ... what has been written stays within five characters for three bytes, *)
(* with an allowance that depends on the step: two are written in C, and   *)
(* perhaps a newline; ...                                                  *)
Allowance(step) == CASE step = "A" -> 4 [] step = "B" -> 2 [] step = "C" -> 0

CountInv ==
    /\ by = "encode_file" /\ at = "block" =>
         /\ limit - read <= SIZE
         /\ 3 * cnt <= 5 * (SIZE - (limit - read)) + Allowance(enc.step)
    /\ by = "encode_file" /\ at # "block" => cnt <= 2 * SIZE
    /\ by = "encode_str" /\ at # "done" => cnt = Len(code)
    /\ by = "encode_str" /\ at = "done" => cnt = Len(code) + 1

(* ... when it has ended the text is complete, and before that nothing has *)
(* been decoded; and what has been decoded is right.                       *)
FinalInv == at = "done" => Complete(file, code)

IdleInv ==
    at # "done" => /\ taken = 0 /\ upto = 0 /\ plain = <<>>
                   /\ ds = base64_init_decodestate /\ dec = NotCalled

Decoder == IF dec = NotCalled THEN ds ELSE dec
DecodeInv == Decoded(file, taken, Decoder, plain)

CoderInv == CoderTypeOK /\ EncodeInv /\ CallInv /\ CountInv /\ FinalInv /\ IdleInv /\ DecodeInv

LEMMA NoGroup == 0 \div 3 = 0 /\ 0 % 3 = 0 /\ 0 \div PerLine = 0 /\ 0 % PerLine = 0
<1>1. PerLine \in Nat \ {0}
    BY PerLineType
<1>2. 0 = 0 * PerLine + 0
    BY <1>1
<1>3. 0 \div PerLine = 0 /\ 0 % PerLine = 0
    BY <1>1, <1>2, Divides
<1> QED BY <1>3

LEMMA FileType == CoderTypeOK => /\ file \in Seq(Byte) /\ Len(file) \in Nat
                                 /\ code \in Seq(Below(128))
                                 /\ PerLine = CHARS_PER_LINE \div 4
BY Base64Assumption DEF CoderTypeOK, PerLine

LEMMA CoderStarts == CoderInit => CoderInv
<1> SUFFICES ASSUME CoderInit PROVE CoderInv
    OBVIOUS
<1> USE DEF CoderInit
<1>1. file \in Seq(Byte) /\ Len(file) \in Nat
    BY Base64Assumption
<1>2. PerLine = CHARS_PER_LINE \div 4 /\ PerLine \in Nat /\ PerLine >= 3
    BY PerLineType DEF PerLine
<1>3. CoderTypeOK
    <2>1. es \in [step : {"A", "B", "C"}, result : Below(64), stepcount : Below(CHARS_PER_LINE \div 4)]
        BY <1>2 DEF base64_init_encodestate, Below
    <2>2. enc \in [step : {"A", "B", "C"}, result : Below(64)]
        BY DEF Below
    <2>3. ds \in [step : {"a", "b", "c", "d"}, plainchar : Byte]
        BY DEF base64_init_decodestate, Byte, Below
    <2>4. code \in Seq(Below(128)) /\ plain \in Seq(Byte) /\ upto <= Len(code)
        OBVIOUS
    <2> QED BY <1>1, <2>1, <2>2, <2>3, <2>4 DEF CoderTypeOK
<1>4. CodeOf(file, <<>>, 0)
    <2>1. TextIs(file, <<>>, 0)
        BY DEF TextIs
    <2>2. Len(<<>>) = 0
        OBVIOUS
    <2>3. 4 * (0 \div 3) + (0 % 3) = 0 /\ (0 \div 3) \div PerLine = 0
        BY NoGroup
    <2> QED BY <2>1, <2>2, <2>3 DEF CodeOf, Text
<1>5. EncodeInv
    BY <1>4, NoGroup DEF EncodeInv, Holds, base64_init_encodestate
<1>6. CallInv
    BY DEF CallInv
<1>7. CountInv
    BY DEF CountInv
<1>8. FinalInv /\ IdleInv
    BY DEF FinalInv, IdleInv
<1>9. DecodeInv
    <2>1. Values(file, 0, 0)
        <3>1. 0 < At(0 + 1)
            <4>1. At(1) \in Nat /\ 1 <= At(1)
                BY AtGrows
            <4>2. 0 + 1 = 1
                OBVIOUS
            <4> QED BY <4>1, <4>2
        <3> QED BY <3>1 DEF Values
    <2>2. DecoderHas(file, 0, base64_init_decodestate)
        BY DEF DecoderHas, base64_init_decodestate
    <2>3. Out(file, 0, <<>>)
        BY <1>1 DEF Out
    <2>4. Decoder = base64_init_decodestate
        BY DEF Decoder
    <2> QED BY <2>1, <2>2, <2>3, <2>4 DEF DecodeInv, Decoded
<1> QED BY <1>3, <1>5, <1>6, <1>7, <1>8, <1>9 DEF CoderInv

(* What a step of the encoder leaves to show. *)
LEMMA EncoderStep ==
    ASSUME CoderInv, at # "done", UNCHANGED <<file, decoder>>,
           CoderTypeOK', EncodeInv', CallInv', CountInv', FinalInv'
    PROVE  CoderInv'
<1>1. DecodeInv'
    BY DEF CoderInv, DecodeInv, Decoder, decoder
<1>2. IdleInv'
    BY DEF CoderInv, IdleInv, decoder
<1> QED BY <1>1, <1>2 DEF CoderInv

LEMMA CallsFile == CoderInv /\ encode_file => CoderInv'
<1> SUFFICES ASSUME CoderInv, encode_file PROVE CoderInv'
    OBVIOUS
<1> USE DEF encode_file
<1>1. CoderTypeOK /\ EncodeInv /\ CallInv /\ CountInv /\ FinalInv
    BY DEF CoderInv
<1>2. read = 0 /\ cnt = 0
    BY <1>1 DEF CallInv
<1>3. CoderTypeOK'
    <2>1. es' \in [step : {"A", "B", "C"}, result : Below(64), stepcount : Below(CHARS_PER_LINE \div 4)]
        BY PerLineType DEF base64_init_encodestate, Below, PerLine
    <2> QED BY <1>1, <2>1 DEF CoderTypeOK, decoder
<1>4. EncodeInv'
    <2>1. CodeOf(file, code, read)
        BY <1>1 DEF EncodeInv
    <2>2. Holds(file, read, base64_init_encodestate)
        BY <1>2, NoGroup DEF Holds, base64_init_encodestate
    <2>3. base64_init_encodestate.stepcount = (read \div 3) % PerLine
        BY <1>2, NoGroup DEF base64_init_encodestate
    <2> QED BY <2>1, <2>2, <2>3 DEF EncodeInv
<1>5. CallInv'
    BY <1>1 DEF CallInv
<1>6. CountInv'
    BY <1>2, Base64Assumption DEF CountInv
<1>7. FinalInv'
    BY DEF FinalInv
<1> QED BY <1>3, <1>4, <1>5, <1>6, <1>7, EncoderStep

LEMMA CallsStr == CoderInv /\ encode_str => CoderInv'
<1> SUFFICES ASSUME CoderInv, encode_str PROVE CoderInv'
    OBVIOUS
<1> USE DEF encode_str
<1>1. CoderTypeOK /\ EncodeInv /\ CallInv /\ CountInv /\ FinalInv
    BY DEF CoderInv
<1>2. read = 0 /\ code = <<>>
    BY <1>1 DEF CallInv
<1>3. enc' = [step |-> "A", result |-> 0]
    BY DEF base64_encode_block, base64_init_encodestate
<1>4. CoderTypeOK'
    <2>1. es' \in [step : {"A", "B", "C"}, result : Below(64), stepcount : Below(CHARS_PER_LINE \div 4)]
        BY PerLineType DEF base64_init_encodestate, Below, PerLine
    <2>2. enc' \in [step : {"A", "B", "C"}, result : Below(64)]
        BY <1>3 DEF Below
    <2>3. limit' \in Nat /\ limit' <= Len(file)
        BY <1>1, FileType
    <2> QED BY <1>1, <2>1, <2>2, <2>3 DEF CoderTypeOK, decoder
<1>5. EncodeInv'
    <2>1. CodeOf(file, code, read)
        BY <1>1 DEF EncodeInv
    <2>2. Holds(file, read, [step |-> "A", result |-> 0])
        BY <1>2, NoGroup DEF Holds
    <2>3. base64_init_encodestate.stepcount = (read \div 3) % PerLine
        BY <1>2, NoGroup DEF base64_init_encodestate
    <2> QED BY <1>3, <2>1, <2>2, <2>3 DEF EncodeInv
<1>6. CallInv'
    BY <1>1, <1>2, FileType DEF CallInv
<1>7. CountInv'
    <2>1. Len(code') = 0
        BY <1>2
    <2> QED BY <2>1 DEF CountInv
<1>8. FinalInv'
    BY DEF FinalInv
<1> QED BY <1>4, <1>5, <1>6, <1>7, <1>8, EncoderStep DEF encoder

LEMMA Reads == CoderInv /\ EncodeChunk => CoderInv'
<1> SUFFICES ASSUME CoderInv, EncodeChunk PROVE CoderInv'
    OBVIOUS
<1> USE DEF EncodeChunk
<1>1. CoderTypeOK /\ EncodeInv /\ CallInv /\ CountInv /\ FinalInv
    BY DEF CoderInv
<1>2. read \in Nat /\ read <= Len(file) /\ Len(file) \in Nat /\ SIZE \in Nat
    BY <1>1, FileType, Base64Assumption DEF CoderTypeOK
<1>3. limit' \in Nat /\ limit' <= Len(file) /\ read <= limit' /\ limit' - read <= SIZE
    BY <1>2 DEF fread, Least
<1>4. enc' = [step |-> es.step, result |-> es.result]
    BY DEF base64_encode_block
<1>5. enc' \in [step : {"A", "B", "C"}, result : Below(64)]
    BY <1>1, <1>4 DEF CoderTypeOK
<1>6. CoderTypeOK'
    BY <1>1, <1>3, <1>5 DEF CoderTypeOK, decoder
<1>7. EncodeInv'
    <2>1. Holds(file, read, es)
        BY <1>1 DEF EncodeInv
    <2>2. Holds(file, read, [step |-> es.step, result |-> es.result])
        BY <2>1 DEF Holds
    <2> QED BY <1>1, <1>4, <2>2 DEF EncodeInv
<1>8. CallInv'
    BY <1>1, <1>3 DEF CallInv
<1>9. CountInv'
    <2>1. Allowance(enc'.step) \in Nat
        BY <1>5 DEF Allowance
    <2>2. 3 * cnt' <= 5 * (SIZE - (limit' - read)) + Allowance(enc'.step)
        BY <1>2, <1>3, <2>1
    <2>3. by = "encode_file"
        BY <1>1 DEF CallInv
    <2> QED BY <1>3, <2>2, <2>3 DEF CountInv
<1>10. FinalInv'
    BY DEF FinalInv
<1> QED BY <1>6, <1>7, <1>8, <1>9, <1>10, EncoderStep

LEMMA BlockEnds ==
    ASSUME CoderInv, at \in {"fread", "blockend"}, read = Len(file)
    PROVE  /\ Complete(file, code \o base64_encode_blockend(es))
           /\ code \o base64_encode_blockend(es) \in Seq(Below(128))
           /\ Len(base64_encode_blockend(es)) \in 1 .. 4
           /\ Len(code \o base64_encode_blockend(es))
                = Len(code) + Len(base64_encode_blockend(es))
<1> DEFINE end == base64_encode_blockend(es)
<1>1. file \in Seq(Byte) /\ code \in Seq(Below(128))
    BY FileType DEF CoderInv
<1>2. CodeOf(file, code, Len(file)) /\ Holds(file, Len(file), es)
    BY DEF CoderInv, EncodeInv
<1>3. PICK d : Whole(file, d) /\ code \o end = Append(d, Newline)
    BY <1>1, <1>2, Finished
<1>4. Len(end) \in 1 .. 4
    BY <1>1, <1>2, Finished
<1>5. code \o end \in Seq(Below(128))
    BY <1>1, <1>3, WholeText
<1>6. end \in Seq(Below(128))
    <2>1. es \in [step : {"A", "B", "C"}, result : Below(64), stepcount : Below(CHARS_PER_LINE \div 4)]
        BY DEF CoderInv, CoderTypeOK
    <2>2. es.result \in Below(64) /\ es.step \in {"A", "B", "C"}
        BY <2>1
    <2>3. base64_encode_value(es.result) \in Below(128)
        BY <2>2, ValueBack DEF Below
    <2>4. Newline \in Below(128) /\ Padding \in Below(128)
        BY DEF Newline, Padding, Below
    <2> QED BY <2>2, <2>3, <2>4 DEF base64_encode_blockend
<1>7. Len(code \o end) = Len(code) + Len(end)
    BY <1>1, <1>6, ConcatProperties
<1> QED BY <1>3, <1>4, <1>5, <1>7 DEF Complete

LEMMA FileEnds == CoderInv /\ EncodeEnd => CoderInv'
<1> SUFFICES ASSUME CoderInv, EncodeEnd PROVE CoderInv'
    OBVIOUS
<1> USE DEF EncodeEnd
<1>1. CoderTypeOK /\ EncodeInv /\ CallInv /\ CountInv /\ FinalInv
    BY DEF CoderInv
<1>2. read \in Nat /\ read <= Len(file) /\ Len(file) \in Nat /\ SIZE \in Nat /\ SIZE > 1
    BY <1>1, FileType, Base64Assumption DEF CoderTypeOK
<1>3. read = Len(file)
    BY <1>2 DEF fread, Least
<1>4. /\ Complete(file, code') /\ code' \in Seq(Below(128))
      /\ cnt' \in 1 .. 4 /\ Len(code') = Len(code) + cnt'
    BY <1>3, BlockEnds
<1>5. taken = 0 /\ upto = 0
    BY DEF CoderInv, IdleInv
<1>6. CoderTypeOK'
    BY <1>1, <1>4, <1>5 DEF CoderTypeOK, decoder
<1>7. EncodeInv'
    BY DEF EncodeInv
<1>8. CallInv'
    BY <1>1 DEF CallInv
<1>9. CountInv'
    <2>1. by = "encode_file"
        BY <1>1 DEF CallInv
    <2> DEFINE k == cnt'
    <2>2. k \in Nat /\ k <= 4
        <3>1. k \in 1 .. 4
            BY <1>4
        <3> HIDE DEF k
        <3> QED BY <3>1, SMT
    <2> HIDE DEF k
    <2>3. k <= 2 * SIZE
        BY <1>2, <2>2
    <2> QED BY <2>1, <2>2, <2>3 DEF CountInv, k
<1>10. FinalInv'
    BY <1>4 DEF FinalInv
<1> QED BY <1>6, <1>7, <1>8, <1>9, <1>10, EncoderStep

LEMMA StrEnds == CoderInv /\ StrEnd => CoderInv'
<1> SUFFICES ASSUME CoderInv, StrEnd PROVE CoderInv'
    OBVIOUS
<1> USE DEF StrEnd
<1>1. CoderTypeOK /\ EncodeInv /\ CallInv /\ CountInv /\ FinalInv
    BY DEF CoderInv
<1>2. by = "encode_str" /\ read = Len(file) /\ cnt = Len(code) /\ cnt \in Nat
    BY <1>1 DEF CallInv, CountInv, CoderTypeOK
<1>3. /\ Complete(file, code') /\ code' \in Seq(Below(128))
      /\ cnt' \in Nat /\ cnt' = Len(code') + 1
    BY <1>2, BlockEnds
<1>4. taken = 0 /\ upto = 0
    BY DEF CoderInv, IdleInv
<1>5. CoderTypeOK'
    BY <1>1, <1>3, <1>4 DEF CoderTypeOK, decoder
<1>6. EncodeInv'
    BY DEF EncodeInv
<1>7. CallInv'
    BY <1>1 DEF CallInv
<1>8. CountInv'
    BY <1>2, <1>3 DEF CountInv
<1>9. FinalInv'
    BY <1>3 DEF FinalInv
<1> QED BY <1>5, <1>6, <1>7, <1>8, <1>9, EncoderStep

LEMMA Returns == CoderInv /\ BlockReturn => CoderInv'
<1> SUFFICES ASSUME CoderInv, BlockReturn PROVE CoderInv'
    OBVIOUS
<1> USE DEF BlockReturn
<1>1. CoderTypeOK /\ EncodeInv /\ CallInv /\ CountInv /\ FinalInv
    BY DEF CoderInv
<1>2. by = "encode_file" \/ by = "encode_str"
    BY <1>1 DEF CallInv, CoderTypeOK
<1>3. /\ es \in [step : {"A", "B", "C"}, result : Below(64), stepcount : Below(CHARS_PER_LINE \div 4)]
      /\ enc \in [step : {"A", "B", "C"}, result : Below(64)]
    BY <1>1 DEF CoderTypeOK
<1>4. /\ es' \in [step : {"A", "B", "C"}, result : Below(64), stepcount : Below(CHARS_PER_LINE \div 4)]
      /\ es'.step = enc.step /\ es'.result = enc.result /\ es'.stepcount = es.stepcount
    BY <1>3
<1>5. CoderTypeOK'
    BY <1>1, <1>2, <1>4 DEF CoderTypeOK, decoder
<1>6. EncodeInv'
    <2>1. Holds(file, read, enc)
        BY <1>1 DEF EncodeInv
    <2>2. Holds(file, read, es')
        BY <1>4, <2>1 DEF Holds
    <2>3. CodeOf(file, code, read) /\ es'.stepcount = (read \div 3) % PerLine
        BY <1>1, <1>4 DEF EncodeInv
    <2> QED BY <1>2, <2>2, <2>3 DEF EncodeInv
<1>7. CallInv'
    BY <1>1, <1>2 DEF CallInv
<1>8. CountInv'
    <2>1. CASE by = "encode_file"
        <3>1. read \in Nat /\ limit \in Nat /\ cnt \in Nat /\ SIZE \in Nat /\ SIZE > 1
            BY <1>1, Base64Assumption DEF CoderTypeOK
        <3>2. 3 * cnt <= 5 * (SIZE - (limit - read)) + Allowance(enc.step)
            BY <1>1, <2>1 DEF CountInv
        <3>3. Allowance(enc.step) \in Nat /\ Allowance(enc.step) <= 4
            BY <1>3 DEF Allowance
        <3>4. 3 * cnt <= 5 * SIZE + 4
            BY <3>1, <3>2, <3>3
        <3>5. cnt <= 2 * SIZE
            BY <3>1, <3>4
        <3> QED BY <2>1, <3>5 DEF CountInv
    <2>2. CASE by = "encode_str"
        BY <1>1, <2>2 DEF CountInv
    <2> QED BY <1>2, <2>1, <2>2
<1>9. FinalInv'
    BY <1>2 DEF FinalInv
<1> QED BY <1>5, <1>6, <1>7, <1>8, <1>9, EncoderStep

-----------------------------------------------------------------------------
(* The steps of the encoder: what they have in common, ... *)
LEMMA ByteTaken ==
    ASSUME CoderInv, NEW step, Takes(step)
    PROVE  /\ file \in Seq(Byte) /\ read \in Nat /\ read < Len(file) /\ read < limit
           /\ limit \in Nat /\ limit <= Len(file)
           /\ code \in Seq(Below(128)) /\ cnt \in Nat
           /\ CodeOf(file, code, read) /\ Holds(file, read, enc) /\ enc.step = step
           /\ es.stepcount = (read \div 3) % PerLine
           /\ enc.result \in Below(64)
           /\ fragment = file[read + 1] /\ fragment \in Nat /\ fragment < 256
           /\ at # "done" /\ UNCHANGED <<file, decoder>>
<1>1. /\ file \in Seq(Byte) /\ read \in Nat /\ limit \in Nat /\ limit <= Len(file)
      /\ code \in Seq(Below(128)) /\ cnt \in Nat /\ enc.result \in Below(64)
    BY FileType DEF CoderInv, CoderTypeOK
<1>2. read < limit /\ at = "block" /\ enc.step = step /\ UNCHANGED <<file, decoder>>
    BY DEF Takes
<1>3. read < Len(file)
    BY <1>1, <1>2
<1>4. CodeOf(file, code, read) /\ Holds(file, read, enc) /\ es.stepcount = (read \div 3) % PerLine
    BY <1>2 DEF CoderInv, EncodeInv
<1>5. fragment = file[read + 1] /\ fragment \in Nat /\ fragment < 256
    BY <1>1, <1>3, ByteAt DEF fragment
<1> QED BY <1>1, <1>2, <1>3, <1>4, <1>5

LEMMA Pace ==
    ASSUME NEW c \in Nat, NEW n \in Nat, NEW a \in Nat, NEW b \in Nat, NEW l \in Nat,
           NEW r \in Nat, NEW S \in Nat,
           3 * c <= 5 * (S - (l - r)) + a, 3 * n + a <= 5 + b
    PROVE  3 * (c + n) <= 5 * (S - (l - (r + 1))) + b
OBVIOUS

(* ... and what remains to be shown of one that writes n characters. *)
LEMMA ByteWritten ==
    ASSUME CoderInv, NEW step, Takes(step),
           CodeOf(file, code', read + 1), Holds(file, read + 1, enc'),
           enc' \in [step : {"A", "B", "C"}, result : Below(64)],
           es' \in [step : {"A", "B", "C"}, result : Below(64),
                    stepcount : Below(CHARS_PER_LINE \div 4)],
           es'.stepcount = ((read + 1) \div 3) % PerLine,
           NEW n \in Nat, cnt' = cnt + n, Len(code') = Len(code) + n,
           3 * n + Allowance(step) <= 5 + Allowance(enc'.step)
    PROVE  CoderInv'
<1>1. /\ file \in Seq(Byte) /\ read \in Nat /\ limit \in Nat /\ read < limit
      /\ limit <= Len(file) /\ cnt \in Nat /\ at # "done" /\ UNCHANGED <<file, decoder>>
      /\ enc.step = step /\ enc.result \in Below(64) /\ code \in Seq(Below(128))
    BY ByteTaken
<1>2. /\ read' = read + 1 /\ limit' = limit /\ at' = "block" /\ at = "block" /\ by' = by
    BY DEF Takes
<1>3. CoderTypeOK /\ CallInv /\ CountInv
    BY DEF CoderInv
<1>4. code' \in Seq(Below(128))
    BY DEF CodeOf, Text, TextIs
<1>5. CoderTypeOK'
    <2>1. taken' = 0 /\ upto' = 0 /\ ds' = ds /\ dec' = dec /\ plain' = plain
        BY <1>1 DEF CoderInv, IdleInv, decoder
    <2>2. Len(code') \in Nat
        BY <1>4
    <2>3. read' \in Nat /\ read' <= Len(file') /\ limit' \in Nat /\ limit' <= Len(file')
        BY <1>1, <1>2
    <2>4. cnt' \in Nat
        BY <1>1
    <2> QED BY <1>1, <1>2, <1>3, <1>4, <2>1, <2>2, <2>3, <2>4 DEF CoderTypeOK
<1>6. EncodeInv'
    <2>1. CodeOf(file', code', read') /\ Holds(file', read', enc')
        BY <1>1, <1>2
    <2>2. es'.stepcount = (read' \div 3) % PerLine
        BY <1>2
    <2> QED BY <1>2, <2>1, <2>2 DEF EncodeInv
<1>7. CallInv'
    <2>1. read' <= limit'
        BY <1>1, <1>2
    <2> QED BY <1>1, <1>2, <1>3, <2>1 DEF CallInv
<1>8. CountInv'
    <2>1. CASE by = "encode_file"
        <3>1. limit - read <= SIZE /\ 3 * cnt <= 5 * (SIZE - (limit - read)) + Allowance(step)
            BY <1>1, <1>2, <1>3, <2>1 DEF CountInv
        <3>2. SIZE \in Nat
            BY Base64Assumption
        <3>3. enc.step \in {"A", "B", "C"} /\ enc'.step \in {"A", "B", "C"}
            BY <1>3 DEF CoderTypeOK
        <3>4. Allowance(step) \in Nat /\ Allowance(enc'.step) \in Nat
            BY <1>1, <3>3 DEF Allowance
        <3>5. limit' - read' <= SIZE
            BY <1>1, <1>2, <3>1, <3>2
        <3>6. 3 * (cnt + n) <= 5 * (SIZE - (limit - (read + 1))) + Allowance(enc'.step)
            BY <1>1, <3>1, <3>2, <3>4, Pace
        <3>7. 3 * cnt' <= 5 * (SIZE - (limit' - read')) + Allowance(enc'.step)
            BY <1>2, <3>6
        <3> QED BY <1>2, <2>1, <3>5, <3>7 DEF CountInv
    <2>2. CASE by # "encode_file"
        <3>1. by = "encode_str" => cnt = Len(code)
            BY <1>2, <1>3 DEF CountInv
        <3>2. by = "encode_str" => cnt' = Len(code')
            BY <3>1
        <3> QED BY <1>2, <2>2, <3>2 DEF CountInv
    <2> QED BY <2>1, <2>2
<1>9. FinalInv'
    BY <1>2 DEF FinalInv
<1> QED BY <1>1, <1>5, <1>6, <1>7, <1>8, <1>9, EncoderStep

LEMMA StepA == CoderInv /\ step_A => CoderInv'
<1> SUFFICES ASSUME CoderInv, step_A PROVE CoderInv'
    OBVIOUS
<1>1. Takes("A")
    BY DEF step_A
<1> DEFINE b == file[read + 1]
           x == base64_encode_value(b \div 4)
<1>2. /\ file \in Seq(Byte) /\ read \in Nat /\ read < Len(file) /\ code \in Seq(Below(128))
      /\ CodeOf(file, code, read) /\ Holds(file, read, enc) /\ enc.step = "A"
      /\ es.stepcount = (read \div 3) % PerLine
      /\ fragment = b /\ b \in Nat /\ b < 256
    BY <1>1, ByteTaken
<1>3. read % 3 = 0
    BY <1>2 DEF Holds
<1>4. (read + 1) \div 3 = read \div 3
    BY <1>2, <1>3
<1>5. /\ CodeOf(file, Append(code, x), read + 1)
      /\ Holds(file, read + 1, [step |-> "B", result |-> (b % 4) * 16])
      /\ (b % 4) * 16 \in Below(64)
    <2> HIDE DEF x
    <2> QED BY <1>2, <1>3, CodeA DEF x
<1>6. x \in Below(128)
    <2>1. b \div 4 \in Below(64)
        BY <1>2 DEF Below
    <2> HIDE DEF b
    <2> QED BY <2>1, ValueBack DEF Below
<1>7. enc' = [step |-> "B", result |-> (b % 4) * 16] /\ code' = code \o <<x>> /\ es' = es
    BY <1>2 DEF step_A, Write
<1>8. cnt' = cnt + 1
    BY DEF step_A, Write
<1> HIDE DEF x, b
<1>9. code' = Append(code, x)
    BY <1>2, <1>6, <1>7, EndOfText
<1>10. Len(code') = Len(code) + 1
    BY <1>2, <1>6, <1>9
<1>11. /\ es' \in [step : {"A", "B", "C"}, result : Below(64),
                   stepcount : Below(CHARS_PER_LINE \div 4)]
       /\ es'.stepcount = ((read + 1) \div 3) % PerLine
    BY <1>2, <1>4, <1>7 DEF CoderInv, CoderTypeOK
<1>12. enc' \in [step : {"A", "B", "C"}, result : Below(64)]
    BY <1>5, <1>7
<1>13. 3 * 1 + Allowance("A") <= 5 + Allowance(enc'.step)
    BY <1>7 DEF Allowance
<1>14. CodeOf(file, code', read + 1) /\ Holds(file, read + 1, enc')
    BY <1>5, <1>7, <1>9
<1> QED BY <1>1, <1>8, <1>10, <1>11, <1>12, <1>13, <1>14, ByteWritten

LEMMA StepB == CoderInv /\ step_B => CoderInv'
<1> SUFFICES ASSUME CoderInv, step_B PROVE CoderInv'
    OBVIOUS
<1>1. Takes("B")
    BY DEF step_B
<1> DEFINE b == file[read + 1]
           h == enc.result
           x == base64_encode_value(h + b \div 16)
<1>2. /\ file \in Seq(Byte) /\ read \in Nat /\ read < Len(file) /\ code \in Seq(Below(128))
      /\ CodeOf(file, code, read) /\ Holds(file, read, enc) /\ enc.step = "B"
      /\ es.stepcount = (read \div 3) % PerLine
      /\ fragment = b /\ b \in Nat /\ b < 256
    BY <1>1, ByteTaken
<1>3. read % 3 = 1 /\ h = (Octet(file, read - 1) % 4) * 16
    BY <1>2 DEF Holds
<1>4. (read + 1) \div 3 = read \div 3
    BY <1>2, <1>3, Thirds
<1>5. /\ CodeOf(file, Append(code, x), read + 1)
      /\ Holds(file, read + 1, [step |-> "C", result |-> (b % 16) * 4])
      /\ (b % 16) * 4 \in Below(64)
    <2> HIDE DEF x, h
    <2> QED BY <1>2, <1>3, CodeB DEF x
<1>6. x \in Below(128)
    <2>1. read - 1 \in Nat
        BY <1>2, <1>3
    <2>2. Octet(file, read - 1) \in Nat
        BY <1>2, <2>1, OctetType
    <2> DEFINE o == Octet(file, read - 1)
    <2>3. o \in Nat /\ h = (o % 4) * 16
        BY <1>3, <2>2
    <2> HIDE DEF o, b, h
    <2>4. h + b \div 16 \in Below(64)
        BY <1>2, <2>3 DEF Below
    <2> QED BY <2>4, ValueBack DEF Below
<1>7. enc' = [step |-> "C", result |-> (b % 16) * 4] /\ code' = code \o <<x>> /\ es' = es
    BY <1>2 DEF step_B, Write
<1>8. cnt' = cnt + 1
    BY DEF step_B, Write
<1> HIDE DEF x, b, h
<1>9. code' = Append(code, x)
    BY <1>2, <1>6, <1>7, EndOfText
<1>10. Len(code') = Len(code) + 1
    BY <1>2, <1>6, <1>9
<1>11. /\ es' \in [step : {"A", "B", "C"}, result : Below(64),
                   stepcount : Below(CHARS_PER_LINE \div 4)]
       /\ es'.stepcount = ((read + 1) \div 3) % PerLine
    BY <1>2, <1>4, <1>7 DEF CoderInv, CoderTypeOK
<1>12. enc' \in [step : {"A", "B", "C"}, result : Below(64)]
    BY <1>5, <1>7
<1>13. 3 * 1 + Allowance("B") <= 5 + Allowance(enc'.step)
    BY <1>7 DEF Allowance
<1>14. CodeOf(file, code', read + 1) /\ Holds(file, read + 1, enc')
    BY <1>5, <1>7, <1>9
<1> QED BY <1>1, <1>8, <1>10, <1>11, <1>12, <1>13, <1>14, ByteWritten

LEMMA StepC == CoderInv /\ step_C => CoderInv'
<1> SUFFICES ASSUME CoderInv, step_C PROVE CoderInv'
    OBVIOUS
<1>1. Takes("C")
    BY DEF step_C
<1> DEFINE b == file[read + 1]
           h == enc.result
           x == base64_encode_value(h + b \div 64)
           y == base64_encode_value(b % 64)
           d == Append(Append(code, x), y)
           s == (read \div 3) % PerLine
<1>2. /\ file \in Seq(Byte) /\ read \in Nat /\ read < Len(file) /\ code \in Seq(Below(128))
      /\ CodeOf(file, code, read) /\ Holds(file, read, enc) /\ enc.step = "C"
      /\ es.stepcount = s
      /\ fragment = b /\ b \in Nat /\ b < 256
    BY <1>1, ByteTaken
<1>3. read % 3 = 2 /\ h = (Octet(file, read - 1) % 16) * 4
    BY <1>2 DEF Holds
<1>4. /\ s + 1 # PerLine => CodeOf(file, d, read + 1)
      /\ s + 1 = PerLine => CodeOf(file, Append(d, Newline), read + 1)
      /\ (read + 1) % 3 = 0 /\ (read + 1) \div 3 = (read \div 3) + 1
      /\ b % 64 \in Below(64)
    <2>1. d = Append(Append(code, base64_encode_value(h + b \div 64)),
                     base64_encode_value(b % 64))
        OBVIOUS
    <2>2. b = file[read + 1]
        OBVIOUS
    <2>3. /\ file \in Seq(Byte) /\ read \in Nat /\ read < Len(file) /\ read % 3 = 2
          /\ CodeOf(file, code, read) /\ h = (Octet(file, read - 1) % 16) * 4
        BY <1>2, <1>3
    <2> HIDE DEF h, b, d
    <2> QED BY <2>1, <2>2, <2>3, CodeC, ZenonT(60)
<1>5. x \in Below(128) /\ y \in Below(128) /\ Newline \in Below(128)
    <2>1. read - 1 \in Nat
        BY <1>2, <1>3
    <2>2. Octet(file, read - 1) \in Nat
        BY <1>2, <2>1, OctetType
    <2> DEFINE o == Octet(file, read - 1)
    <2>3. o \in Nat /\ h = (o % 16) * 4
        BY <1>3, <2>2
    <2> HIDE DEF o, b, h
    <2>4. h + b \div 64 \in Below(64)
        BY <1>2, <2>3 DEF Below
    <2> QED BY <1>4, <2>4, ValueBack DEF Below, Newline
<1>6. read \div 3 \in Nat
    BY <1>2
<1>7. /\ s \in Nat /\ s < PerLine
      /\ IF s + 1 = PerLine THEN ((read \div 3) + 1) % PerLine = 0
         ELSE ((read \div 3) + 1) % PerLine = s + 1
    BY <1>6, NextGroup
<1> DEFINE last == <<x, y>> \o IF EndOfLine(es.stepcount + 1) THEN <<Newline>> ELSE <<>>
<1>8. /\ enc' = [step |-> "A", result |-> b % 64]
      /\ code' = code \o last /\ cnt' = cnt + Len(last)
      /\ es' = [es EXCEPT !.stepcount = NextCount(es.stepcount + 1)]
    BY <1>2 DEF step_C, Write
<1> HIDE DEF x, y, b, h
<1>9. /\ s + 1 # PerLine => code' = d /\ cnt' = cnt + 2
      /\ s + 1 = PerLine => code' = Append(d, Newline) /\ cnt' = cnt + 3
    <2>1. EndOfLine(es.stepcount + 1) <=> s + 1 = PerLine
        BY <1>2 DEF EndOfLine, PerLine
    <2>2. /\ code \o (<<x, y>> \o <<>>) = d /\ Len(<<x, y>> \o <<>>) = 2
          /\ code \o (<<x, y>> \o <<Newline>>) = Append(d, Newline)
          /\ Len(<<x, y>> \o <<Newline>>) = 3
        BY <1>2, <1>5, GroupOfText
    <2>3. s + 1 # PerLine => last = <<x, y>> \o <<>>
        BY <2>1
    <2>4. s + 1 = PerLine => last = <<x, y>> \o <<Newline>>
        BY <2>1
    <2> HIDE DEF last, d, s
    <2> QED BY <1>8, <2>2, <2>3, <2>4
<1>10. Len(d) = Len(code) + 2 /\ Len(Append(d, Newline)) = Len(code) + 3
    BY <1>2, <1>5
<1>11. /\ es' \in [step : {"A", "B", "C"}, result : Below(64),
                   stepcount : Below(CHARS_PER_LINE \div 4)]
       /\ es'.stepcount = ((read + 1) \div 3) % PerLine
    <2>1. es \in [step : {"A", "B", "C"}, result : Below(64), stepcount : Below(CHARS_PER_LINE \div 4)]
        BY DEF CoderInv, CoderTypeOK
    <2>2. PerLine = CHARS_PER_LINE \div 4 /\ PerLine \in Nat
        BY PerLineType DEF PerLine
    <2>3. NextCount(es.stepcount + 1) = IF s + 1 = PerLine THEN 0 ELSE s + 1
        BY <1>2, <2>2 DEF NextCount, EndOfLine
    <2> HIDE DEF s
    <2>4. /\ NextCount(es.stepcount + 1) \in Below(CHARS_PER_LINE \div 4)
          /\ NextCount(es.stepcount + 1) = ((read \div 3) + 1) % PerLine
        BY <1>7, <2>2, <2>3 DEF Below
    <2> QED BY <1>4, <1>8, <2>1, <2>4
<1>12. enc' \in [step : {"A", "B", "C"}, result : Below(64)]
    BY <1>4, <1>8
<1>13. 3 * 2 + Allowance("C") <= 5 + Allowance(enc'.step)
       /\ 3 * 3 + Allowance("C") <= 5 + Allowance(enc'.step)
    BY <1>8 DEF Allowance
<1>14. Holds(file, read + 1, enc')
    BY <1>4, <1>8 DEF Holds
<1> HIDE DEF d, s
<1>15. CASE s + 1 # PerLine
    <2>1. CodeOf(file, code', read + 1) /\ Len(code') = Len(code) + 2 /\ cnt' = cnt + 2
        BY <1>4, <1>9, <1>10, <1>15
    <2> QED BY <1>1, <1>11, <1>12, <1>13, <1>14, <2>1, ByteWritten
<1>16. CASE s + 1 = PerLine
    <2>1. CodeOf(file, code', read + 1) /\ Len(code') = Len(code) + 3 /\ cnt' = cnt + 3
        BY <1>4, <1>9, <1>10, <1>16
    <2> QED BY <1>1, <1>11, <1>12, <1>13, <1>14, <2>1, ByteWritten
<1> QED BY <1>15, <1>16

-----------------------------------------------------------------------------
(* The decoder: what its steps have in common, ... *)
LEMMA DecoderStep ==
    ASSUME CoderInv, at = "done", UNCHANGED encoder, CoderTypeOK', DecodeInv'
    PROVE  CoderInv'
<1>1. EncodeInv' /\ CallInv' /\ CountInv' /\ FinalInv' /\ IdleInv'
    BY DEF CoderInv, EncodeInv, CallInv, CountInv, FinalInv, IdleInv, encoder
<1> QED BY <1>1 DEF CoderInv

LEMMA Called ==
    ASSUME NEW D \in [step : {"a", "b", "c", "d"}, plainchar : Byte]
    PROVE  D # NotCalled
<1>1. D.step \in {"a", "b", "c", "d"}
    OBVIOUS
<1>2. NotCalled.step = "none"
    BY DEF NotCalled
<1> QED BY <1>1, <1>2

LEMMA CharTaken ==
    ASSUME CoderInv, DecodeTakes
    PROVE  /\ at = "done" /\ file \in Seq(Byte)
           /\ dec \in [step : {"a", "b", "c", "d"}, plainchar : Byte]
           /\ taken \in Nat /\ upto \in Nat /\ taken < Len(code) /\ taken + 1 <= upto
           /\ Complete(file, code) /\ Decoded(file, taken, dec, plain)
           /\ taken' = taken + 1 /\ upto' = upto /\ ds' = ds /\ UNCHANGED encoder
           /\ value = base64_decode_value(code[taken + 1])
<1>1. dec # NotCalled /\ taken < upto /\ taken' = taken + 1 /\ UNCHANGED <<encoder, upto, ds>>
    BY DEF DecodeTakes
<1>2. at = "done"
    BY <1>1 DEF CoderInv, IdleInv
<1>3. /\ dec \in [step : {"a", "b", "c", "d"}, plainchar : Byte]
      /\ taken \in Nat /\ upto \in Nat /\ upto <= Len(code) /\ code \in Seq(Below(128))
      /\ file \in Seq(Byte)
    BY <1>1, FileType DEF CoderInv, CoderTypeOK
<1>4. taken < Len(code) /\ taken + 1 <= upto
    BY <1>1, <1>3
<1>5. Complete(file, code)
    BY <1>2 DEF CoderInv, FinalInv
<1>6. Decoded(file, taken, dec, plain)
    BY <1>1 DEF CoderInv, DecodeInv, Decoder
<1> QED BY <1>1, <1>2, <1>3, <1>4, <1>5, <1>6 DEF value

LEMMA ValueTaken ==
    ASSUME CoderInv, DecodeTakes, value >= 0
    PROVE  \E n \in Nat : /\ 6 * n < 8 * Len(file) /\ value = Sextet(file, n)
                          /\ Values(file, taken + 1, n + 1)
                          /\ DecoderHas(file, n, dec) /\ Out(file, n, plain)
<1>1. /\ file \in Seq(Byte) /\ taken \in Nat /\ taken < Len(code)
      /\ Complete(file, code) /\ Decoded(file, taken, dec, plain)
      /\ base64_decode_value(code[taken + 1]) >= 0
      /\ value = base64_decode_value(code[taken + 1])
    BY CharTaken
<1>2. PICK n \in Nat : Values(file, taken, n) /\ DecoderHas(file, n, dec) /\ Out(file, n, plain)
    BY <1>1 DEF Decoded
<1>3. /\ 6 * n < 8 * Len(file) /\ base64_decode_value(code[taken + 1]) = Sextet(file, n)
      /\ Values(file, taken + 1, n + 1)
    BY <1>1, <1>2, NextValue
<1> QED BY <1>1, <1>2, <1>3

(* ... and what remains to be shown of one that has taken a value. *)
LEMMA ValueKept ==
    ASSUME CoderInv, DecodeTakes,
           dec' \in [step : {"a", "b", "c", "d"}, plainchar : Byte],
           NEW n \in Nat, Values(file, taken + 1, n),
           DecoderHas(file, n, dec'), Out(file, n, plain')
    PROVE  CoderInv'
<1>1. /\ at = "done" /\ taken \in Nat /\ upto \in Nat /\ taken + 1 <= upto
      /\ taken' = taken + 1 /\ upto' = upto /\ ds' = ds /\ UNCHANGED encoder
    BY CharTaken
<1>2. file' = file /\ code' = code
    BY <1>1 DEF encoder
<1>3. plain' \in Seq(Byte)
    BY DEF Out
<1>4. CoderTypeOK'
    <2>1. CoderTypeOK
        BY DEF CoderInv
    <2> QED BY <1>1, <1>3, <2>1 DEF CoderTypeOK, encoder
<1>5. DecodeInv'
    <2>1. Decoder' = dec'
        BY Called DEF Decoder
    <2>2. Decoded(file, taken + 1, dec', plain')
        BY DEF Decoded
    <2> QED BY <1>1, <1>2, <2>1, <2>2 DEF DecodeInv
<1> QED BY <1>1, <1>4, <1>5, DecoderStep

LEMMA Skips == CoderInv /\ SkipChar => CoderInv'
<1> SUFFICES ASSUME CoderInv, SkipChar PROVE CoderInv'
    OBVIOUS
<1>1. DecodeTakes /\ value < 0 /\ dec' = dec /\ plain' = plain
    BY DEF SkipChar
<1>2. /\ dec \in [step : {"a", "b", "c", "d"}, plainchar : Byte] /\ file \in Seq(Byte)
      /\ taken \in Nat /\ Complete(file, code) /\ Decoded(file, taken, dec, plain)
      /\ value = base64_decode_value(code[taken + 1])
    BY <1>1, CharTaken
<1>3. PICK n \in Nat : Values(file, taken, n) /\ DecoderHas(file, n, dec) /\ Out(file, n, plain)
    BY <1>2 DEF Decoded
<1>4. Values(file, taken + 1, n)
    BY <1>1, <1>2, <1>3, SkippedChar
<1> QED BY <1>1, <1>2, <1>3, <1>4, ValueKept

LEMMA StepDecA == CoderInv /\ step_a => CoderInv'
<1> SUFFICES ASSUME CoderInv, step_a PROVE CoderInv'
    OBVIOUS
<1>1. /\ DecodeTakes /\ value >= 0 /\ dec.step = "a" /\ plain' = plain
      /\ dec' = [step |-> "b", plainchar |-> value * 4]
    BY DEF step_a
<1>2. file \in Seq(Byte)
    BY <1>1, CharTaken
<1>3. PICK n \in Nat : /\ 6 * n < 8 * Len(file) /\ value = Sextet(file, n)
                       /\ Values(file, taken + 1, n + 1)
                       /\ DecoderHas(file, n, dec) /\ Out(file, n, plain)
    BY <1>1, ValueTaken
<1>4. n % 4 = 0
    BY <1>1, <1>3 DEF DecoderHas
<1>5. /\ DecoderHas(file, n + 1, dec') /\ value * 4 \in Byte /\ Out(file, n + 1, plain')
    BY <1>1, <1>2, <1>3, <1>4, DataA
<1>6. dec' \in [step : {"a", "b", "c", "d"}, plainchar : Byte] /\ n + 1 \in Nat
    BY <1>1, <1>5
<1> QED BY <1>1, <1>3, <1>5, <1>6, ValueKept

LEMMA StepDecB == CoderInv /\ step_b => CoderInv'
<1> SUFFICES ASSUME CoderInv, step_b PROVE CoderInv'
    OBVIOUS
<1>1. /\ DecodeTakes /\ value >= 0 /\ dec.step = "b"
      /\ plain' = Append(plain, dec.plainchar + value \div 16)
      /\ dec' = [step |-> "c", plainchar |-> (value % 16) * 16]
    BY DEF step_b
<1>2. file \in Seq(Byte)
    BY <1>1, CharTaken
<1>3. PICK n \in Nat : /\ 6 * n < 8 * Len(file) /\ value = Sextet(file, n)
                       /\ Values(file, taken + 1, n + 1)
                       /\ DecoderHas(file, n, dec) /\ Out(file, n, plain)
    BY <1>1, ValueTaken
<1>4. n % 4 = 1
    BY <1>1, <1>3 DEF DecoderHas
<1>5. /\ DecoderHas(file, n + 1, dec') /\ (value % 16) * 16 \in Byte
      /\ Out(file, n + 1, plain')
    BY <1>1, <1>2, <1>3, <1>4, DataB
<1>6. dec' \in [step : {"a", "b", "c", "d"}, plainchar : Byte] /\ n + 1 \in Nat
    BY <1>1, <1>5
<1> QED BY <1>1, <1>3, <1>5, <1>6, ValueKept

LEMMA StepDecC == CoderInv /\ step_c => CoderInv'
<1> SUFFICES ASSUME CoderInv, step_c PROVE CoderInv'
    OBVIOUS
<1>1. /\ DecodeTakes /\ value >= 0 /\ dec.step = "c"
      /\ plain' = Append(plain, dec.plainchar + value \div 4)
      /\ dec' = [step |-> "d", plainchar |-> (value % 4) * 64]
    BY DEF step_c
<1>2. file \in Seq(Byte)
    BY <1>1, CharTaken
<1>3. PICK n \in Nat : /\ 6 * n < 8 * Len(file) /\ value = Sextet(file, n)
                       /\ Values(file, taken + 1, n + 1)
                       /\ DecoderHas(file, n, dec) /\ Out(file, n, plain)
    BY <1>1, ValueTaken
<1>4. n % 4 = 2
    BY <1>1, <1>3 DEF DecoderHas
<1>5. /\ DecoderHas(file, n + 1, dec') /\ (value % 4) * 64 \in Byte
      /\ Out(file, n + 1, plain')
    BY <1>1, <1>2, <1>3, <1>4, DataC
<1>6. dec' \in [step : {"a", "b", "c", "d"}, plainchar : Byte] /\ n + 1 \in Nat
    BY <1>1, <1>5
<1> QED BY <1>1, <1>3, <1>5, <1>6, ValueKept

LEMMA StepDecD == CoderInv /\ step_d => CoderInv'
<1> SUFFICES ASSUME CoderInv, step_d PROVE CoderInv'
    OBVIOUS
<1>1. /\ DecodeTakes /\ value >= 0 /\ dec.step = "d"
      /\ plain' = Append(plain, dec.plainchar + value)
    BY DEF step_d
<1>2. PICK memory \in Memory : dec' = [step |-> "a", plainchar |-> memory]
    BY DEF step_d
<1>3. file \in Seq(Byte)
    BY <1>1, CharTaken
<1>4. PICK n \in Nat : /\ 6 * n < 8 * Len(file) /\ value = Sextet(file, n)
                       /\ Values(file, taken + 1, n + 1)
                       /\ DecoderHas(file, n, dec) /\ Out(file, n, plain)
    BY <1>1, ValueTaken
<1>5. n % 4 = 3
    BY <1>1, <1>4 DEF DecoderHas
<1>6. dec' \in [step : {"a", "b", "c", "d"}, plainchar : Byte] /\ n + 1 \in Nat
      /\ dec'.step = "a"
    BY <1>2, Base64Assumption
<1>7. DecoderHas(file, n + 1, dec') /\ Out(file, n + 1, plain')
    BY <1>1, <1>3, <1>4, <1>5, <1>6, DataD
<1> QED BY <1>1, <1>4, <1>6, <1>7, ValueKept

LEMMA CallsDecoder == CoderInv /\ DecodeCall => CoderInv'
<1> SUFFICES ASSUME CoderInv, DecodeCall PROVE CoderInv'
    OBVIOUS
<1>1. CoderTypeOK
    BY DEF CoderInv
<1>2. /\ at = "done" /\ dec = NotCalled /\ dec' = ds /\ UNCHANGED <<encoder, taken, ds, plain>>
    BY DEF DecodeCall
<1>3. upto' \in Nat /\ upto' <= Len(code) /\ taken <= upto'
    <2>1. taken \in Nat /\ MaxPiece \in Nat
        BY <1>1, Base64Assumption DEF CoderTypeOK
    <2>2. PICK n \in 1 .. MaxPiece : taken + n <= Len(code) /\ upto' = taken + n
        BY DEF DecodeCall
    <2> QED BY <2>1, <2>2
<1>4. CoderTypeOK'
    BY <1>1, <1>2, <1>3 DEF CoderTypeOK, encoder
<1>5. DecodeInv'
    <2>1. Decoder = ds
        BY <1>2 DEF Decoder
    <2>2. Decoder' = ds
        <3>1. ds # NotCalled
            BY <1>1, Called DEF CoderTypeOK
        <3> QED BY <1>2, <3>1 DEF Decoder
    <2> QED BY <1>2, <2>1, <2>2 DEF CoderInv, DecodeInv, encoder
<1> QED BY <1>2, <1>4, <1>5, DecoderStep

LEMMA DecoderReturns == CoderInv /\ DecodeReturn => CoderInv'
<1> SUFFICES ASSUME CoderInv, DecodeReturn PROVE CoderInv'
    OBVIOUS
<1>1. CoderTypeOK
    BY DEF CoderInv
<1>2. dec # NotCalled /\ ds' = dec /\ dec' = NotCalled /\ UNCHANGED <<encoder, taken, upto, plain>>
    BY DEF DecodeReturn
<1>3. at = "done"
    BY <1>2 DEF CoderInv, IdleInv
<1>4. CoderTypeOK'
    BY <1>1, <1>2 DEF CoderTypeOK, encoder
<1>5. DecodeInv'
    <2>1. Decoder = dec /\ Decoder' = dec
        BY <1>2 DEF Decoder
    <2> QED BY <1>2, <2>1 DEF CoderInv, DecodeInv, encoder
<1> QED BY <1>2, <1>3, <1>4, <1>5, DecoderStep

LEMMA CoderSteps == CoderInv /\ [CoderNext]_coderVars => CoderInv'
<1>1. CoderInv /\ CoderNext => CoderInv'
    BY CallsFile, CallsStr, Reads, FileEnds, StrEnds, Returns, StepA, StepB, StepC, Skips,
       StepDecA, StepDecB, StepDecC, StepDecD, CallsDecoder, DecoderReturns DEF CoderNext
<1>2. CoderInv /\ UNCHANGED coderVars => CoderInv'
    BY DEF coderVars, encoder, decoder, CoderInv, CoderTypeOK, EncodeInv, CallInv, CountInv,
           FinalInv, IdleInv, DecodeInv, Decoder
<1> QED BY <1>1, <1>2

LEMMA CoderInvariant == CoderSpec => []CoderInv
BY CoderStarts, CoderSteps, PTL DEF CoderSpec

-----------------------------------------------------------------------------
(* For chunks and lines of every size the coders keep to the ranges of     *)
(* what they carry from call to call.                                      *)
THEOREM CoderTypeCorrect == CoderSpec => []CoderTypeOK
<1>1. CoderInv => CoderTypeOK
    BY DEF CoderInv
<1> QED BY <1>1, CoderInvariant, PTL

LEMMA EncodesRight == CoderInv => EncodesFile
<1> SUFFICES ASSUME CoderInv, at = "done"
             PROVE  /\ {p \in DOMAIN code : code[p] # Newline}
                         = {At(k) : k \in 1 .. Total(file)}
                    /\ \A k \in 1 .. Total(file) : code[At(k)] = Expected(file, k)
    BY DEF EncodesFile
<1>1. file \in Seq(Byte)
    BY FileType DEF CoderInv
<1>2. PICK c : Whole(file, c) /\ code = Append(c, Newline)
    BY DEF CoderInv, FinalInv, Complete
<1>3. /\ \A k \in 1 .. Total(file) : /\ At(k) \in DOMAIN code
                                     /\ code[At(k)] = Expected(file, k)
                                     /\ code[At(k)] # Newline
      /\ \A p \in DOMAIN code :
           code[p] # Newline => \E k \in 1 .. Total(file) : p = At(k)
    <2>1. ASSUME NEW k \in 1 .. Total(file)
          PROVE  At(k) \in DOMAIN code /\ code[At(k)] = Expected(file, k) /\ code[At(k)] # Newline
        BY <1>1, <1>2, WholeText
    <2>2. ASSUME NEW p \in DOMAIN code, code[p] # Newline
          PROVE  \E k \in 1 .. Total(file) : p = At(k)
        BY <1>1, <1>2, <2>2, WholeText
    <2> QED BY <2>1, <2>2
<1>4. \A p : p \in {q \in DOMAIN code : code[q] # Newline}
               <=> p \in {At(k) : k \in 1 .. Total(file)}
    BY <1>3
<1> QED BY <1>3, <1>4

(* Wherever the chunks of encode_file fall and whatever their size, the    *)
(* text is the encoding of the whole file.                                 *)
THEOREM EncodesFileHolds == CoderSpec => []EncodesFile
BY EncodesRight, CoderInvariant, PTL

LEMMA LinesRight == CoderInv => Lines
<1> SUFFICES ASSUME CoderInv, NEW p \in DOMAIN code
             PROVE  code[p] = Newline
                      <=> p % (Width + 1) = 0 \/ (at = "done" /\ p = Len(code))
    BY DEF Lines
<1>1. CASE at # "done"
    <2>1. TextIs(file, code, 4 * (read \div 3) + (read % 3))
        BY <1>1 DEF CoderInv, EncodeInv, CodeOf, Text
    <2>2. code[p] = Newline <=> p % (Width + 1) = 0
        BY <2>1 DEF TextIs
    <2> QED BY <1>1, <2>2
<1>2. CASE at = "done"
    <2>1. file \in Seq(Byte)
        BY FileType DEF CoderInv
    <2>2. PICK c : Whole(file, c) /\ code = Append(c, Newline)
        BY <1>2 DEF CoderInv, FinalInv, Complete
    <2>3. code[p] = Newline <=> p % (Width + 1) = 0 \/ p = Len(code)
        BY <2>1, <2>2, WholeText
    <2> QED BY <1>2, <2>3
<1> QED BY <1>1, <1>2

(* And it is broken into lines as one text, at every moment: a newline     *)
(* stands after each full line and at the end, and nowhere else.           *)
THEOREM LinesHold == CoderSpec => []Lines
BY LinesRight, CoderInvariant, PTL

LEMMA DecodesRight == CoderInv => DecodesFile
<1> SUFFICES ASSUME CoderInv PROVE DecodesFile
    OBVIOUS
<1>1. file \in Seq(Byte) /\ taken \in Nat
    BY FileType DEF CoderInv, CoderTypeOK
<1>2. PICK n \in Nat : Values(file, taken, n) /\ Out(file, n, plain)
    BY DEF CoderInv, DecodeInv, Decoded
<1>3. plain = SubSeq(file, 1, Len(plain))
    BY <1>1, <1>2, BeginningOf
<1>4. Len(plain) = (3 * n) \div 4 /\ Len(plain) <= Len(file)
    BY <1>2 DEF Out
<1>5. \A k \in 1 .. Len(file) : k <= (3 * n) \div 4 <=> At((8 * k + 5) \div 6) <= taken
    BY <1>1, <1>2, WhenComplete
<1> QED BY <1>3, <1>4, <1>5 DEF DecodesFile

(* However the text is cut up, the decoder gives the beginning of the      *)
(* file, each byte as soon as its last bit has been taken, whatever was in *)
(* the memory past its output.                                             *)
THEOREM DecodesFileHolds == CoderSpec => []DecodesFile
BY DecodesRight, CoderInvariant, PTL

LEMMA FitsRight == CoderInv => Fits
<1> SUFFICES ASSUME CoderInv PROVE Fits
    OBVIOUS
<1>1. CoderTypeOK /\ CallInv /\ CountInv /\ FinalInv
    BY DEF CoderInv
<1>2. /\ file \in Seq(Byte) /\ Len(file) \in Nat
      /\ read \in Nat /\ limit \in Nat /\ cnt \in Nat /\ SIZE \in Nat /\ SIZE > 1
    BY <1>1, FileType, Base64Assumption DEF CoderTypeOK
<1>3. ASSUME by = "encode_file" PROVE cnt <= Room(SIZE)
    <2>1. CASE at = "block"
        <3>1. enc \in [step : {"A", "B", "C"}, result : Below(64)]
            BY <1>1 DEF CoderTypeOK
        <3>2. Allowance(enc.step) \in Nat /\ Allowance(enc.step) <= 4
            BY <3>1 DEF Allowance
        <3>3. read <= limit /\ 3 * cnt <= 5 * (SIZE - (limit - read)) + Allowance(enc.step)
            BY <1>1, <1>3, <2>1 DEF CallInv, CountInv
        <3>4. 3 * cnt <= 5 * SIZE + 4
            BY <1>2, <3>2, <3>3
        <3>5. cnt <= 2 * SIZE
            BY <1>2, <3>4
        <3> QED BY <3>5 DEF Room
    <2>2. CASE at # "block"
        BY <1>1, <1>3, <2>2 DEF CountInv, Room
    <2> QED BY <2>1, <2>2
<1>4. ASSUME by = "encode_str", at = "done", Len(file) = 3 \/ Len(file) > 4
      PROVE  cnt <= Room(Len(file))
    <2> DEFINE n == Len(file)
               q == (n \div 3) \div PerLine
    <2>1. PICK c : Whole(file, c) /\ code = Append(c, Newline)
        BY <1>1, <1>4 DEF FinalInv, Complete
    <2>2. Len(code) = Len(c) + 1
        BY <1>2, <2>1, WholeText
    <2>3. Len(c) = 4 * ((n + 2) \div 3) + q
        BY <2>1 DEF Whole, Text, Total
    <2>4. cnt = Len(code) + 1
        BY <1>1, <1>4 DEF CountInv
    <2>5. n \div 3 \in Nat
        BY <1>2
    <2>6. q \in Nat /\ 3 * q <= n \div 3 /\ (n \div 3 < 3 => q = 0)
        BY <2>5, LinesOf
    <2>7. n \in Nat /\ (n = 3 \/ n > 4)
        BY <1>2, <1>4
    <2> HIDE DEF q, n
    <2>8. 4 * ((n + 2) \div 3) + q + 2 <= 2 * n
        BY <2>6, <2>7, StrRoom
    <2>9. cnt = 4 * ((n + 2) \div 3) + q + 2
        BY <2>2, <2>3, <2>4, <2>6, <2>7
    <2>10. cnt <= 2 * n
        BY <2>8, <2>9
    <2> QED BY <2>10 DEF Room, n
<1> QED BY <1>3, <1>4 DEF Fits

(* No call of encode_file overruns its output buffer, for every SIZE above *)
(* 1, and encode_str does for no string of 3 or of more than 4 characters. *)
THEOREM FitsHolds == CoderSpec => []Fits
BY FitsRight, CoderInvariant, PTL

=============================================================================
