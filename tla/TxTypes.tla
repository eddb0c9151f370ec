------------------------------- MODULE TxTypes -------------------------------
(***************************************************************************)
(* The types of transaction and the order of their fields, which the       *)
(* parser fills in and the review lays out.                                *)
(***************************************************************************)
EXTENDS Naturals, Sequences

LEGACY == 192

Kinds == {"value_transfer", "memo", "deploy", "execution", "cancel"}

FirstType(kind) ==
    CASE kind = "value_transfer" -> 8
      [] kind = "memo" -> 16
      [] kind = "deploy" -> 40
      [] kind = "execution" -> 48
      [] kind = "cancel" -> 56

(* A kind has a basic, a fee delegated and a partially fee delegated type. *)
TypesOf(kind) == FirstType(kind) .. FirstType(kind) + 2

PartialFeeDelegated == {FirstType(kind) + 2 : kind \in Kinds}

Preamble == <<"content", "type", "nonce", "gasprice", "startgas">>
Trailer == <<"chainID", "discard", "discard">>

(* The enumerations rlp...TxField_e with the function that processes each. *)
FieldsOfKind(kind) ==
    Preamble \o
    (CASE kind = "value_transfer" -> <<"to", "value", "discard", "ratio">>
       [] kind = "memo" -> <<"to", "value", "discard", "data", "ratio">>
       [] kind = "deploy" -> <<"discard", "value", "discard", "data", "discard",
                               "ratio", "discard">>
       [] kind = "execution" -> <<"to", "value", "discard", "data", "ratio">>
       [] kind = "cancel" -> <<"discard", "ratio">>)
    \o Trailer

LegacyFields == <<"nonce", "gasprice", "startgas", "to", "value", "data">> \o Trailer

Supported(type) == type = LEGACY \/ \E kind \in Kinds : type \in TypesOf(kind)

Fields(type) == IF type = LEGACY THEN LegacyFields
                ELSE FieldsOfKind(CHOOSE kind \in Kinds : type \in TypesOf(kind))
==============================================================================
