-------------------------------- MODULE Buf --------------------------------
(***************************************************************************)
(* The packet buffer (src/buf.c): len bytes of data inside an array of     *)
(* BUF_MAX_LEN bytes, the payload.  The pointer data of the code is here   *)
(* the index of the byte it points to.  A call that would leave the        *)
(* payload fails, and leaves the buffer as it was; nobody looks at the     *)
(* result, so the operators return the buffer only.                        *)
(***************************************************************************)
EXTENDS Integers

CONSTANT BUF_MAX_LEN      \* 2 * 65535 + 255

ASSUME BufAssumption == BUF_MAX_LEN \in Nat \ {0}

BufType == [data : 0 .. BUF_MAX_LEN, len : Nat]

Half == BUF_MAX_LEN \div 2

(* The data end in the middle of the payload. *)
buf_init(buf, len) ==
    IF len >= Half THEN buf ELSE [data |-> Half - len, len |-> len]

buf_add_header(buf, len) ==
    IF buf.data - len < 0 THEN buf
    ELSE [data |-> buf.data - len, len |-> buf.len + len]

(* A variant of buf_remove_header that does not move the data. *)
buf_remove_header_stay(buf, len) ==
    IF buf.len < len THEN buf ELSE [buf EXCEPT !.len = @ - len]

buf_remove_header(buf, len) ==
    IF buf.len < len THEN buf
    ELSE [data |-> buf.data + len, len |-> buf.len - len]

(* A variant of the next operator that does not look for room. *)
buf_add_padding_unchecked(buf, len) == [buf EXCEPT !.len = @ + len]

(* The test asks for one byte more than the padding needs. *)
buf_add_padding(buf, len) ==
    IF buf.data + buf.len + len >= BUF_MAX_LEN THEN buf
    ELSE [buf EXCEPT !.len = @ + len]

buf_remove_padding(buf, len) ==
    IF buf.len < len THEN buf ELSE [buf EXCEPT !.len = @ - len]

Inside(buf) == buf.data + buf.len <= BUF_MAX_LEN

=============================================================================
