-------------------------------- MODULE Items --------------------------------
(***************************************************************************)
(* What the bytes of a transaction say, read without the parser: items     *)
(* that follow each other, the fields of the type in their order.          *)
(*                                                                         *)
(* A position counts the bytes in front of it; one beyond the bytes is the *)
(* end of an item that is not there as a whole.                            *)
(***************************************************************************)
EXTENDS Rlp, TxTypes

(* The byte at a position; behind the last one it does not matter. *)
ByteAt(bytes, p) == IF p < Len(bytes) THEN bytes[p + 1] ELSE 0

(* A whole header, of which the parser can hold all. *)
HasHeader(bytes, p) ==
    LET size == HeaderLen(ByteAt(bytes, p)) IN
    p + size <= Len(bytes) /\ size <= RLP_BUFFER

HeaderAt(bytes, p) == SubSeq(bytes, p + 1, p + HeaderLen(ByteAt(bytes, p)))

(* A single byte is its own header. *)
PayloadAt(bytes, p) ==
    IF IsSingle(ByteAt(bytes, p)) THEN p ELSE p + HeaderLen(ByteAt(bytes, p))

LengthAt(bytes, p) == FieldLength(HeaderAt(bytes, p))

IsListAt(bytes, p) == IsListHeader(ByteAt(bytes, p))

(* Of the list that holds the other fields only the header is taken. *)
SizeAt(bytes, name, p) == IF name = "content" THEN 0 ELSE LengthAt(bytes, p)

Behind(bytes, name, p) ==
    IF HasHeader(bytes, p)
       /\ PayloadAt(bytes, p) + SizeAt(bytes, name, p) <= Len(bytes)
    THEN PayloadAt(bytes, p) + SizeAt(bytes, name, p)
    ELSE Len(bytes) + 1

PayloadOf(bytes, p) ==
    SubSeq(bytes, PayloadAt(bytes, p) + 1, PayloadAt(bytes, p) + LengthAt(bytes, p))

(* The fields start behind the header of the outer list and that of its first
   item, unless this is a single byte: then it is a legacy transaction's first
   field. *)
StartOf(bytes) == PayloadAt(bytes, PayloadAt(bytes, 0))

(* The type is told by the byte behind the next header. *)
TypeOf(bytes) ==
    IF IsSingle(ByteAt(bytes, PayloadAt(bytes, 0))) THEN LEGACY
    ELSE ByteAt(bytes, PayloadAt(bytes, StartOf(bytes)))

(* The field of a fee ratio that the type has not. *)
Absent(type, i) ==
    Fields(type)[i] = "ratio" /\ type # LEGACY /\ type \notin PartialFeeDelegated

(* The positions of the fields, and that behind the last one. *)
PlacesOf(bytes, type) ==
    LET names == Fields(type)
        place[i \in 1 .. Len(names) + 1] ==
            IF i = 1 THEN StartOf(bytes)
            ELSE IF Absent(type, i - 1) THEN place[i - 1]
            ELSE Behind(bytes, names[i - 1], place[i - 1])
    IN  place
==============================================================================
