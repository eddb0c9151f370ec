-------------------------------- MODULE Format --------------------------------
(***************************************************************************)
(* helper/format.c: how a transaction's numbers become text.               *)
(*                                                                         *)
(* A text is a sequence of digits and at most one POINT, without the       *)
(* terminating NUL; a conversion that returns false gives Failed.  The     *)
(* 256-bit number is what the code makes it, sixteen limbs of sixteen      *)
(* bits, most significant first, divided by ten over and over.             *)
(***************************************************************************)
EXTENDS Naturals, Sequences, SequencesExt, FiniteSetsExt

MAX_INT256 == 32
U64_BYTES == 8

(* The buffers of amount_to_string and of its caller; "KAIA " and a NUL share
   the last one with the amount. *)
DECIMAL_BUFFER == 100
AMOUNT_BUFFER == 50
SHOWN_AMOUNT == AMOUNT_BUFFER - 6

EXPONENT_SMALLEST_UNIT == 18

Digit == 0..9
POINT == 10
Failed == <<>>

Zeros(n) == [i \in 1..n |-> 0]

------------------------------------------------------------------------------
(* uint256_to_decimal *)

LIMBS == 16
LIMB == 65536

(* The bytes, right-aligned, in big-endian pairs. *)
Limbs(value) ==
    LET n == Zeros(MAX_INT256 - Len(value)) \o value
    IN  [i \in 1..LIMBS |-> 256 * n[2 * i - 1] + n[2 * i]]

allzeroes(n) == \A i \in DOMAIN n : n[i] = 0

(* A limb behind what the division of the limbs before it left over. *)
Wide(carry, limb) == carry * LIMB + limb

Rest(carry, limb) == Wide(carry, limb) % 10

(* The quotient is stored in sixteen bits. *)
Quotient(carry, limb) == (Wide(carry, limb) \div 10) % LIMB

(* One pass over the number: its quotient by ten, and the digit left over. *)
DivideBy10(n) ==
    LET carry[i \in 0..LIMBS] == IF i = 0 THEN 0 ELSE Rest(carry[i - 1], n[i])
    IN  [quotient |-> [i \in 1..LIMBS |-> Quotient(carry[i - 1], n[i])],
         digit    |-> carry[LIMBS]]

(* The digits come from the last one on. *)
decimal[n \in [1..LIMBS -> 0..LIMB - 1]] ==
    IF allzeroes(n) THEN <<>>
    ELSE LET pass == DivideBy10(n) IN Append(decimal[pass.quotient], pass.digit)

(* They fill the buffer from its end; a number they do not fit is refused. *)
uint256_to_decimal(value, out_len) ==
    IF Len(value) > MAX_INT256 THEN Failed
    ELSE IF allzeroes(Limbs(value)) THEN (IF out_len < 2 THEN Failed ELSE <<0>>)
    ELSE LET digits == decimal[Limbs(value)]
         IN  IF Len(digits) > out_len THEN Failed ELSE digits

------------------------------------------------------------------------------
(* adjustDecimals *)

(* What stays whatever its digits are: "0." and the zeros a small amount
   lacks, or the whole part and the point. *)
Whole(src, decimals) ==
    IF Len(src) <= decimals THEN <<0, POINT>> \o Zeros(decimals - Len(src))
    ELSE SubSeq(src, 1, Len(src) - decimals)
         \o (IF decimals = 0 THEN <<>> ELSE <<POINT>>)

(* What its trailing zeros are cut from. *)
Fraction(src, decimals) ==
    IF Len(src) <= decimals THEN src
    ELSE SubSeq(src, Len(src) - decimals + 1, Len(src))

(* The room the target is asked for. *)
Room(src, decimals) ==
    IF Len(src) <= decimals THEN Len(src) + 3 + (decimals - Len(src))
    ELSE Len(src) + 2

LastNonZero(digits) == Max({0} \cup {i \in DOMAIN digits : digits[i] # 0})

(* Slip: zeros are cut although a digit follows them. *)
CutAtFirstZero(whole, fraction) ==
    whole \o SubSeq(fraction, 1, Min({Len(fraction)} \cup
                        {i - 1 : i \in {j \in DOMAIN fraction : fraction[j] = 0}}))

(* The point goes with the last of the fraction. *)
CutZeros(whole, fraction) ==
    IF LastNonZero(fraction) = 0 /\ fraction # <<>> /\ Last(whole) = POINT
    THEN Front(whole)
    ELSE whole \o SubSeq(fraction, 1, LastNonZero(fraction))

adjustDecimals(src, targetLength, decimals) ==
    IF src = <<0>> THEN (IF targetLength < 2 THEN Failed ELSE <<0>>)
    ELSE IF targetLength < Room(src, decimals) THEN Failed
    ELSE CutZeros(Whole(src, decimals), Fraction(src, decimals))

amount_to_string(amount, decimals, out_buffer_size) ==
    LET digits == uint256_to_decimal(amount, DECIMAL_BUFFER) IN
    IF digits = Failed THEN Failed
    ELSE adjustDecimals(digits, out_buffer_size - 1, decimals)

(* snprintf of "KAIA %s" keeps what fits. *)
Printed(text) == SubSeq(text, 1, Min({Len(text), SHOWN_AMOUNT}))

------------------------------------------------------------------------------
(* Numbers of at most 64 bits.  format_u64 is the SDK's; the decimal it
   writes is named by the number's bytes. *)

Significant(bytes) ==
    LET n == Min({i \in 1..Len(bytes) : bytes[i] # 0} \cup {Len(bytes) + 1})
    IN  SubSeq(bytes, n, Len(bytes))

(* Eight bytes from the front, however many there are. *)
convertUint256ToUint64(bytes) == SubSeq(bytes, 1, Min({Len(bytes), U64_BYTES}))

U64Text(bytes) == <<"number", Significant(bytes)>>
==============================================================================
