--------------------------------- MODULE Rlp ---------------------------------
(***************************************************************************)
(* The RLP headers of the transaction parser: how many bytes a header has, *)
(* which is known from its first one (rlpCanDecode), and what it says of   *)
(* the item that follows (rlpDecodeLength).                                *)
(***************************************************************************)
EXTENDS Naturals, Sequences

Byte == 0..255

(* The parser's buffer for a header: a first byte and four of length. *)
RLP_BUFFER == 5

(* A byte below 0x80 is an item by itself and its header at the same time. *)
IsSingle(first) == first <= 127

IsListHeader(first) == first >= 192

(* Bytes of length that follow the first byte. *)
LengthBytes(first) ==
    IF first \in 184..191 THEN first - 183
    ELSE IF first \in 248..255 THEN first - 247 ELSE 0

HeaderLen(first) == 1 + LengthBytes(first)

(* The length bytes are a big-endian number. *)
LongLength(h) ==
    IF Len(h) = 2 THEN h[2]
    ELSE IF Len(h) = 3 THEN h[2] * 256 + h[3]
    ELSE IF Len(h) = 4 THEN (h[2] * 256 + h[3]) * 256 + h[4]
    ELSE ((h[2] * 256 + h[3]) * 256 + h[4]) * 256 + h[5]

ShortLength(first) ==
    IF IsSingle(first) THEN 1 ELSE first - (IF IsListHeader(first) THEN 192 ELSE 128)

FieldLength(h) ==
    IF LengthBytes(h[1]) = 0 THEN ShortLength(h[1]) ELSE LongLength(h)
==============================================================================
