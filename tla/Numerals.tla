------------------------------- MODULE Numerals -------------------------------
(***************************************************************************)
(* What a sequence of digits denotes, the first one weighing most, and     *)
(* what an amount's text does: the numbers that the texts of Format are    *)
(* compared with.                                                          *)
(***************************************************************************)
EXTENDS Format

Denoted(base, digits) ==
    LET upTo[i \in 0..Len(digits)] ==
            IF i = 0 THEN 0 ELSE base * upTo[i - 1] + digits[i]
    IN  upTo[Len(digits)]

(* Its remainder modulo m, for numbers longer than an integer of TLC's. *)
DenotedModulo(m, base, digits) ==
    LET upTo[i \in 0..Len(digits)] ==
            IF i = 0 THEN 0 ELSE (base * upTo[i - 1] + digits[i]) % m
    IN  upTo[Len(digits)]

(* Where the point is, or would be behind the last digit. *)
PointAt(text) == Min({i \in DOMAIN text : text[i] = POINT} \cup {Len(text) + 1})

(* The digits of an amount in peb: the decimals it leaves out are zeros. *)
InPeb(text) ==
    LET point == PointAt(text) IN
    [i \in 1 .. point - 1 + EXPONENT_SMALLEST_UNIT |->
        IF i < point THEN text[i]
        ELSE IF i < Len(text) THEN text[i + 1] ELSE 0]
==============================================================================
