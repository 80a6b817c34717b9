------------------------------- MODULE Base64 -------------------------------
(***************************************************************************)
(* The Base64 coder of Lab9_maillab.  encode_file reads a file in chunks,  *)
(* hands each to base64_encode_block and ends with base64_encode_blockend; *)
(* encode_str does so for one string.  base64_decode_block then decodes    *)
(* the text in whatever pieces it arrives.  Both coders are coroutines: a  *)
(* call resumes in the middle of a group of three bytes or four characters *)
(* where the last one has stopped, with what that one saved.               *)
(*                                                                         *)
(* Bytes and characters are numbers (ASCII); char is signed.               *)
(***************************************************************************)
EXTENDS Integers, Sequences

CONSTANTS Files,            \* what may be encoded: sequences of bytes
          SIZE,             \* 4096 in the code: bytes read at once
          CHARS_PER_LINE,   \* 72 in the code
          MaxStr,           \* 3000 in the code: longest input of encode_str
          MaxPiece,         \* most characters decoded in one call
          Memory            \* what an uninitialized byte may hold

Below(n) == {x \in Nat : x < n}
Byte == Below(256)

(* With SIZE = 1 the end of a line would not fit into the output buffer,   *)
(* nor would, for encode_str, the ends of lines of one or two groups.      *)
ASSUME Base64Assumption ==
    /\ Files \subseteq Seq(Byte)
    /\ SIZE \in Nat /\ SIZE > 1
    /\ CHARS_PER_LINE \in Nat /\ CHARS_PER_LINE >= 12
    /\ MaxStr \in Nat /\ MaxPiece \in Nat
    /\ Memory \subseteq Byte

VARIABLES file,      \* the input,
          read,      \* the bytes of it that have been encoded, and
          limit,     \* plaintextend: the end of the chunk in hand
          at,        \* where the caller is: "start", "fread", "block" (in
                     \* base64_encode_block), "blockend", "done"
          by,        \* the function that was called
          es,        \* base64_encodestate
          enc,       \* where base64_encode_block is, and its local result
          cnt,       \* bytes written to the output buffer it was given
          code,      \* the text
          taken,     \* the characters of it that have been decoded, and
          upto,      \* the end of the piece in hand
          ds,        \* base64_decodestate
          dec,       \* where base64_decode_block is, and its *plainchar
          plain      \* the bytes decoded so far

encoder == <<file, read, limit, at, by, es, enc, cnt, code>>
decoder == <<taken, upto, ds, dec, plain>>
coderVars == <<encoder, decoder>>

base64_init_encodestate == [step |-> "A", result |-> 0, stepcount |-> 0]
base64_init_decodestate == [step |-> "a", plainchar |-> 0]
NotCalled == [step |-> "none", plainchar |-> 0]

CoderInit ==
    /\ file \in Files /\ read = 0 /\ limit = 0
    /\ at = "start" /\ by = "none"
    /\ es = base64_init_encodestate
    /\ enc = [step |-> "A", result |-> 0]
    /\ cnt = 0 /\ code = <<>>
    /\ taken = 0 /\ upto = 0
    /\ ds = base64_init_decodestate
    /\ dec = NotCalled
    /\ plain = <<>>

-----------------------------------------------------------------------------
Newline == 10
Padding == 61

(* A-Z, a-z, 0-9, + and /. *)
base64_encode_value(v) ==
    CASE v < 26 -> 65 + v
      [] v \in 26 .. 51 -> 71 + v
      [] v \in 52 .. 61 -> v - 4
      [] v = 62 -> 43
      [] v = 63 -> 47
      [] v > 63 -> Padding

(* Variants: a line is counted in characters instead of groups of four;    *)
(* the count of groups is not reset at the end of a line.                  *)
EndOfLine_by_chars(count) == count = CHARS_PER_LINE
NextCount_no_reset(count) == count

EndOfLine(count) == count = CHARS_PER_LINE \div 4
NextCount(count) == IF EndOfLine(count) THEN 0 ELSE count

(* Variant: each block is encoded as if it were the first. *)
base64_encode_block_anew(s) == [step |-> "A", result |-> 0]

(* What a call of base64_encode_block begins with. *)
base64_encode_block(s) == [step |-> s.step, result |-> s.result]

Write(chars) == code' = code \o chars /\ cnt' = cnt + Len(chars)

(* The coder is at a step and takes the next byte. *)
Takes(step) ==
    /\ at = "block" /\ enc.step = step /\ read < limit
    /\ read' = read + 1
    /\ UNCHANGED <<file, limit, at, by, decoder>>

fragment == file[read + 1]

step_A ==
    /\ Takes("A")
    /\ enc' = [step |-> "B", result |-> (fragment % 4) * 16]
    /\ Write(<<base64_encode_value(fragment \div 4)>>)
    /\ UNCHANGED es

step_B ==
    /\ Takes("B")
    /\ enc' = [step |-> "C", result |-> (fragment % 16) * 4]
    /\ Write(<<base64_encode_value(enc.result + fragment \div 16)>>)
    /\ UNCHANGED es

step_C ==
    /\ Takes("C")
    /\ enc' = [step |-> "A", result |-> fragment % 64]
    /\ Write(<<base64_encode_value(enc.result + fragment \div 64),
               base64_encode_value(fragment % 64)>>
             \o IF EndOfLine(es.stepcount + 1) THEN <<Newline>> ELSE <<>>)
    /\ es' = [es EXCEPT !.stepcount = NextCount(es.stepcount + 1)]

(* At the end of the chunk the coder saves where it is and returns.        *)
BlockReturn ==
    /\ at = "block" /\ read = limit
    /\ es' = [es EXCEPT !.step = enc.step, !.result = enc.result]
    /\ at' = IF by = "encode_file" THEN "fread" ELSE "blockend"
    /\ UNCHANGED <<file, read, limit, by, enc, cnt, code, decoder>>

(* What base64_encode_blockend writes. *)
base64_encode_blockend(s) ==
    CASE s.step = "A" -> <<Newline>>
      [] s.step = "B" -> <<base64_encode_value(s.result), Padding, Padding, Newline>>
      [] s.step = "C" -> <<base64_encode_value(s.result), Padding, Newline>>

-----------------------------------------------------------------------------
(* The call of encode_file. *)
encode_file ==
    /\ at = "start"
    /\ at' = "fread" /\ by' = "encode_file"
    /\ es' = base64_init_encodestate
    /\ UNCHANGED <<file, read, limit, enc, cnt, code, decoder>>

Least(x, y) == IF x < y THEN x ELSE y

(* Variant of fread: the size of the output buffer given for the input's.  *)
fread_twice == Least(read + 2 * SIZE, Len(file))

(* How far the file has been read after fread, which is short only at its  *)
(* end.                                                                    *)
fread == Least(read + SIZE, Len(file))

(* A turn of its loop, which ends when nothing has been read. *)
EncodeChunk ==
    /\ at = "fread" /\ fread # read
    /\ limit' = fread
    /\ enc' = base64_encode_block(es) /\ cnt' = 0
    /\ at' = "block"
    /\ UNCHANGED <<file, read, by, es, code, decoder>>

EncodeEnd ==
    /\ at = "fread" /\ fread = read
    /\ LET end == base64_encode_blockend(es)
       IN  code' = code \o end /\ cnt' = Len(end)
    /\ at' = "done"
    /\ UNCHANGED <<file, read, limit, by, es, enc, decoder>>

(* encode_str: the input is a string, which ends at the first 0.           *)
encode_str ==
    /\ at = "start" /\ Len(file) <= MaxStr
    /\ \A k \in DOMAIN file : file[k] # 0
    /\ es' = base64_init_encodestate
    /\ limit' = Len(file)
    /\ enc' = base64_encode_block(base64_init_encodestate) /\ cnt' = 0
    /\ at' = "block" /\ by' = "encode_str"
    /\ UNCHANGED <<file, read, code, decoder>>

(* Its end.  The output gets a 0, too, which cnt counts and code leaves    *)
(* out.                                                                    *)
StrEnd ==
    /\ at = "blockend"
    /\ LET end == base64_encode_blockend(es)
       IN  code' = code \o end /\ cnt' = cnt + Len(end) + 1
    /\ at' = "done"
    /\ UNCHANGED <<file, read, limit, by, es, enc, decoder>>

(* The output buffers that the two functions allocate. *)
Room(len) == 2 * len

-----------------------------------------------------------------------------
(* Variant: padding counts as a character of value 0. *)
base64_decode_value_padded(c) ==
    CASE c = Padding -> 0
      [] c \in 48 .. 57 -> c + 4
      [] c \in 65 .. 90 -> c - 65
      [] c \in 97 .. 122 -> c - 71
      [] c = 43 -> 62
      [] c = 47 -> 63
      [] OTHER -> -1

base64_decode_value(c) ==
    CASE c = Padding -> -2
      [] c \in 48 .. 57 -> c + 4
      [] c \in 65 .. 90 -> c - 65
      [] c \in 97 .. 122 -> c - 71
      [] c = 43 -> 62
      [] c = 47 -> 63
      [] OTHER -> -1

(* A piece of the text is handed to base64_decode_block, which goes on     *)
(* with what the last call saved.                                          *)
DecodeCall ==
    /\ at = "done" /\ dec = NotCalled
    /\ \E n \in 1 .. MaxPiece :
         taken + n <= Len(code) /\ upto' = taken + n
    /\ dec' = ds
    /\ UNCHANGED <<encoder, taken, ds, plain>>

(* The decoder takes a character; p is what it has at its step when the    *)
(* character has the value v, and out what it has written.                 *)
value == base64_decode_value(code[taken + 1])
DecodeTakes ==
    /\ dec # NotCalled /\ taken < upto
    /\ taken' = taken + 1
    /\ UNCHANGED <<encoder, upto, ds>>

SkipChar ==
    /\ DecodeTakes /\ value < 0
    /\ UNCHANGED <<dec, plain>>

step_a ==
    /\ DecodeTakes /\ value >= 0 /\ dec.step = "a"
    /\ dec' = [step |-> "b", plainchar |-> value * 4]
    /\ UNCHANGED plain

step_b ==
    /\ DecodeTakes /\ value >= 0 /\ dec.step = "b"
    /\ dec' = [step |-> "c", plainchar |-> (value % 16) * 16]
    /\ plain' = Append(plain, dec.plainchar + value \div 16)

step_c ==
    /\ DecodeTakes /\ value >= 0 /\ dec.step = "c"
    /\ dec' = [step |-> "d", plainchar |-> (value % 4) * 64]
    /\ plain' = Append(plain, dec.plainchar + value \div 4)

(* After the last byte of a group plainchar points to what the output      *)
(* buffer happens to hold.                                                 *)
step_d ==
    /\ DecodeTakes /\ value >= 0 /\ dec.step = "d"
    /\ \E memory \in Memory : dec' = [step |-> "a", plainchar |-> memory]
    /\ plain' = Append(plain, dec.plainchar + value)

DecodeReturn ==
    /\ dec # NotCalled /\ taken = upto
    /\ ds' = dec /\ dec' = NotCalled
    /\ UNCHANGED <<encoder, taken, upto, plain>>

CoderNext ==
    \/ encode_file \/ EncodeChunk \/ EncodeEnd \/ encode_str \/ StrEnd
    \/ step_A \/ step_B \/ step_C \/ BlockReturn
    \/ DecodeCall \/ SkipChar \/ step_a \/ step_b \/ step_c \/ step_d
    \/ DecodeReturn

CoderSpec == CoderInit /\ [][CoderNext]_coderVars

-----------------------------------------------------------------------------
(* Types, with the ranges of what the coders carry from call to call: the  *)
(* bits that are left over of a byte and the groups on the present line.   *)
CoderTypeOK ==
    /\ file \in Files /\ read \in Nat /\ limit \in Nat
    /\ read <= Len(file) /\ limit <= Len(file)
    /\ at \in {"start", "fread", "block", "blockend", "done"}
    /\ by \in {"none", "encode_file", "encode_str"}
    /\ es \in [step : {"A", "B", "C"}, result : Below(64),
               stepcount : Below(CHARS_PER_LINE \div 4)]
    /\ enc \in [step : {"A", "B", "C"}, result : Below(64)]
    /\ cnt \in Nat /\ code \in Seq(Below(128))
    /\ taken \in Nat /\ upto \in Nat /\ taken <= upto /\ upto <= Len(code)
    /\ ds \in [step : {"a", "b", "c", "d"}, plainchar : Byte]
    /\ dec \in [step : {"a", "b", "c", "d"}, plainchar : Byte] \cup {NotCalled}
    /\ plain \in Seq(Byte)

(* The encoding of a file by its definition (RFC 4648): three bytes make a *)
(* group of 24 bits, which is cut into four values of six bits.  A value   *)
(* without a bit of the file is written as padding.                        *)
Octet(f, j) == IF j < Len(f) THEN f[j + 1] ELSE 0
Group(f, g) ==
    65536 * Octet(f, 3 * g) + 256 * Octet(f, 3 * g + 1) + Octet(f, 3 * g + 2)
Weight == <<262144, 4096, 64, 1>>
Sextet(f, k) == (Group(f, k \div 4) \div Weight[(k % 4) + 1]) % 64
Expected(f, k) ==
    IF 6 * (k - 1) < 8 * Len(f) THEN base64_encode_value(Sextet(f, k - 1))
    ELSE Padding
Total(f) == 4 * ((Len(f) + 2) \div 3)

(* The characters on a full line, and the place of the k-th character in   *)
(* the text: there is a newline for each line before its own.              *)
Width == 4 * (CHARS_PER_LINE \div 4)
At(k) == k + (k - 1) \div Width

(* Wherever the chunks of encode_file fall, its text is the encoding of    *)
(* the whole file: the bits left over of one chunk go with the next.       *)
EncodesFile ==
    at = "done" =>
      /\ {p \in DOMAIN code : code[p] # Newline} = {At(k) : k \in 1 .. Total(file)}
      /\ \A k \in 1 .. Total(file) : code[At(k)] = Expected(file, k)

(* All lines but the last are full, the last one is not longer, and the    *)
(* text ends with a newline: stepcount, too, goes from chunk to chunk.     *)
Lines ==
    \A p \in DOMAIN code :
      code[p] = Newline <=> p % (Width + 1) = 0 \/ (at = "done" /\ p = Len(code))

(* However the text is cut up, what has been decoded is the beginning of   *)
(* the file, and a byte of it is there as soon as the character with its   *)
(* last bit has been taken: neither padding and newlines nor the memory    *)
(* past the output matter.                                                 *)
DecodesFile ==
    /\ Len(plain) <= Len(file)
    /\ plain = SubSeq(file, 1, Len(plain))
    /\ \A n \in 1 .. Len(file) :
         n <= Len(plain) <=> At((8 * n + 5) \div 6) <= taken

(* The outputs fit the buffers of twice the length of the input, newlines, *)
(* padding and the final 0 included: of encode_file in every call,         *)
(* whatever the calls before have left over, and of encode_str for every   *)
(* string that has 3 characters or more than 4.                            *)
Fits ==
    /\ by = "encode_file" => cnt <= Room(SIZE)
    /\ by = "encode_str" /\ at = "done" /\ (Len(file) = 3 \/ Len(file) > 4)
         => cnt <= Room(Len(file))

(* base64_utils.c:22 says of the buffer of encode_str that it is large     *)
(* enough to hold the encoded data, of a string of any length.             *)
StrFits == by = "encode_str" /\ at = "done" => cnt <= Room(Len(file))

=============================================================================
