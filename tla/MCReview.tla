------------------------------- MODULE MCReview -------------------------------
(***************************************************************************)
(* Review on transactions of every type and amounts of every size.         *)
(***************************************************************************)
EXTENDS Review

MCWidth == 2
MCMaxReviews == 2

------------------------------------------------------------------------------
(* The transactions. *)

(* The bytes of a number: one with n zero bytes behind it. *)
Power(n) == [i \in 1 .. n + 1 |-> IF i = 1 THEN 1 ELSE 0]

(* 0, in no byte and in three; small amounts; 10^17, 10^18, 10^18 + 1, 10^19
   and 8 * 10^13, with zeros behind and in the middle; 2^64, and 2^152 and
   2^144, the one longer than the screen, the other as long; and amounts that
   are too long, one of more bytes than a number has. *)
Amounts ==
    <<<<>>, <<1, 99, 69, 120, 93, 138, 0, 0>>, <<0, 0, 0>>,
      <<13, 224, 182, 179, 167, 100, 0, 0>>, <<10>>,
      <<13, 224, 182, 179, 167, 100, 0, 1>>, <<0, 200>>, Power(18),
      <<138, 199, 35, 4, 137, 232, 0, 0>>, Power(7), <<72, 194, 115, 149, 0, 0>>,
      Power(8), Power(19), Power(2), [i \in 1..32 |-> 255], [i \in 1..33 |-> 1]>>

Nonces == <<<<5>>, <<>>, <<0, 7>>, Power(7), Power(8)>>

ChainIDs == <<<<32, 25>>, <<>>, <<255>>, <<1, 2, 3, 4>>, <<1, 2, 3, 4, 5>>>>

(* A transaction of a type with the n-th of each; what the type has no field
   for is zero, as the first APDU left it. *)
Sample(type, ratio, n) ==
    [txType |-> type, nonce |-> Nonces[(n % 5) + 1], gasprice |-> <<186, 1>>,
     startgas |-> <<99>>,
     to |-> IF Has(type, "to") THEN <<17, 254>> ELSE <<0, 0>>,
     value |-> IF Has(type, "value") THEN Amounts[(n % 16) + 1] ELSE <<>>,
     ratio |-> IF type \in PartialFeeDelegated THEN ratio ELSE 0,
     chainID |-> ChainIDs[(n % 5) + 1]]

(* Every amount, ten of them in legacy transactions; every type with a nonce, a chain id
   and an amount of its own, the partially fee delegated ones with a ratio and
   without; and a type that is not reviewed. *)
MCTxs ==
    {Sample(LEGACY, 0, n) : n \in 3..7 \cup 11..15}
    \cup {Sample(type, 30, type) : type \in Types \ {LEGACY}}
    \cup {Sample(type, 0, 0) : type \in PartialFeeDelegated}
    \cup {[Sample(LEGACY, 0, 1) EXCEPT !.txType = 2]}

(* Numbers with and without leading zeros and a leading bit, both parities of
   one pair of them, and two that differ in a first byte only. *)
MCSignatures ==
    {[r |-> <<200, 1>>, s |-> <<0, 128>>, v |-> 0],
     [r |-> <<200, 1>>, s |-> <<0, 128>>, v |-> 1],
     [r |-> <<200, 1>>, s |-> <<129, 128>>, v |-> 0],
     [r |-> <<0, 9>>, s |-> <<7, 8>>, v |-> 1]}

(* Twelve primes below 2^23: their product is above 2^266, and both the numbers
   of 32 bytes and those of eighty digits are below, so that two of them with
   the same remainders are the same. *)
MCModuli ==
    {8388593, 8388587, 8388581, 8388571, 8388547, 8388539,
     8388473, 8388461, 8388451, 8388449, 8388439, 8388427}
==============================================================================
