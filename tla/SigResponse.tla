----------------------------- MODULE SigResponse -----------------------------
(***************************************************************************)
(* helper_send_response_sig: the response made of a signature, v in one    *)
(* byte and r and s taken out of the DER encoding the SDK signed into.     *)
(***************************************************************************)
EXTENDS Naturals, Sequences, FiniteSetsExt

CONSTANT WIDTH   \* the bytes of r and of s: 32

ASSUME WidthAssumption == WIDTH \in Nat \ {0}

(* MAX_DER_SIG_LEN: two bytes of header, and for r and for s two of header, a
   zero that keeps it positive, and the number. *)
MAX_DER_SIG_LEN == 2 + 2 * (3 + WIDTH)

(* The response buffer, 1 + MAX_DER_SIG_LEN + 1 bytes, and what is sent. *)
RESPONSE_BUFFER == MAX_DER_SIG_LEN + 2
RESPONSE == 1 + 2 * WIDTH

(* memmove(out + to, in + from, n); the offsets count from 0, as in C. *)
Moved(out, to, in, from, n) ==
    [i \in DOMAIN out |->
        IF i \in to + 1 .. to + n THEN in[from + i - to] ELSE out[i]]

(* Slip: the zero in front of a long number is taken for its first byte. *)
KeepsFirst(xlength) == FALSE

(* A number of WIDTH + 1 bytes begins with a zero that is left out. *)
HasZero(xlength) == xlength = WIDTH + 1

(* The number whose tag and length end before xoffset, right-aligned in the
   WIDTH bytes at offset of out; and the offset behind it. *)
CopyNumber(out, offset, signature, xoffset) ==
    LET xlength == signature[xoffset]
        skip == IF HasZero(xlength) THEN 1 ELSE 0
        n == xlength - skip
    IN  [out |-> Moved(out, offset + WIDTH - n, signature, xoffset + skip, n),
         end |-> xoffset + xlength]

(* r is at byte 4; the tag and the length of s are behind it. *)
format_signature_out(signature, out) ==
    LET r == CopyNumber(out, 1, signature, 4)
    IN  CopyNumber(r.out, 1 + WIDTH, signature, r.end + 2).out

------------------------------------------------------------------------------
(* The SDK's encoding of a signature: tag, length and number, the number
   without leading zeros but with one if it would read as negative. *)

DerNumber(number) ==
    LET n == Min({i \in 1..WIDTH : number[i] # 0} \cup {WIDTH})
        short == SubSeq(number, n, WIDTH)
        bytes == IF short[1] > 127 THEN <<0>> \o short ELSE short
    IN  <<2, Len(bytes)>> \o bytes

Der(signature) ==
    LET numbers == DerNumber(signature.r) \o DerNumber(signature.s)
    IN  <<48, Len(numbers)>> \o numbers

------------------------------------------------------------------------------
(* u32_from_BE of the first four bytes of the chain id at most; of the 32-bit
   number only the lowest byte reaches v. *)
LowestByte(chainID) ==
    IF chainID = <<>> THEN 0
    ELSE chainID[IF Len(chainID) < 4 THEN Len(chainID) ELSE 4]

FirstByte(chainID, v) == (LowestByte(chainID) * 2 + 35 + v) % 256

helper_send_response_sig(chainID, v, signature) ==
    LET resp == [i \in 1..RESPONSE_BUFFER |->
                    IF i = 1 THEN FirstByte(chainID, v) ELSE 0]
    IN  SubSeq(format_signature_out(signature, resp), 1, RESPONSE)
==============================================================================
