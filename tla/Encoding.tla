------------------------------- MODULE Encoding -------------------------------
(***************************************************************************)
(* A reference encoder, and what the parser makes of what it encoded.      *)
(*                                                                         *)
(* The encoding is that of doc/TRANSACTION.md: SigRLP, which encodes the   *)
(* fields of every type but the legacy one twice.  The parser is given it  *)
(* as it is, cut short, or with bytes behind it.                           *)
(***************************************************************************)
EXTENDS TxParser, SequencesExt

CONSTANT Originals    \* the transactions that are encoded

------------------------------------------------------------------------------
(* The encoder. *)

(* Two bytes of length are enough for all that a device can hold. *)
MAX_ENCODED == 65535

Header(base, length) ==
    IF length <= 55 THEN <<base + length>>
    ELSE IF length <= 255 THEN <<base + 56, length>>
    ELSE <<base + 57, (length \div 256) % 256, length % 256>>

RlpString(bytes) ==
    IF Len(bytes) = 1 /\ bytes[1] <= 127 THEN bytes
    ELSE Header(128, Len(bytes)) \o bytes

RlpList(items) ==
    LET body == FlattenSeq(items) IN Header(192, Len(body)) \o body

Strings(fields) == [i \in 1..Len(fields) |-> RlpString(fields[i])]

Fee(t) == IF t.type \in PartialFeeDelegated THEN <<t.ratio>> ELSE <<>>

(* What the sender signs but for the chain id: the fields in front of the fee
   ratio, the ratio, and behind it the code format of a deployment. *)
Leading(t) ==
    CASE t.type = LEGACY ->
             <<t.nonce, t.gasprice, t.startgas, t.to, t.value, t.data>>
      [] t.type \in TypesOf("value_transfer") ->
             <<<<t.type>>, t.nonce, t.gasprice, t.startgas, t.to, t.value, t.sender>>
      [] t.type \in TypesOf("memo") \cup TypesOf("execution") ->
             <<<<t.type>>, t.nonce, t.gasprice, t.startgas, t.to, t.value, t.sender,
               t.data>>
      [] t.type \in TypesOf("deploy") ->
             <<<<t.type>>, t.nonce, t.gasprice, t.startgas, <<>>, t.value, t.sender,
               t.data, <<>>>>
      [] t.type \in TypesOf("cancel") ->
             <<<<t.type>>, t.nonce, t.gasprice, t.startgas, t.sender>>

Format(t) == IF t.type \in TypesOf("deploy") THEN <<<<>>>> ELSE <<>>

SignedFields(t) == Leading(t) \o Fee(t) \o Format(t)

Encode(t) ==
    LET fields == Strings(SignedFields(t))
        end == Strings(<<t.chainID, <<>>, <<>>>>)
    IN  IF t.type = LEGACY THEN RlpList(fields \o end)
        ELSE RlpList(<<RlpString(RlpList(fields))>> \o end)

------------------------------------------------------------------------------
(* A transaction the parser is meant for: its fields are no longer than they may
   be, a fee ratio is one byte, and so is a legacy transaction's nonce; that of
   every other one the parser takes for something else (LegacyNonceIsAccepted). *)
WellFormed(t) ==
    /\ Supported(t.type)
    /\ \A name \in {"nonce", "gasprice", "startgas", "value", "ratio", "chainID"} :
          t[name] \in Seq(Byte) /\ Len(t[name]) <= MAX_INT256
    /\ t.to \in Seq(Byte) /\ Len(t.to) <= ADDRESS_LEN
    /\ t.sender \in Seq(Byte) /\ t.data \in Seq(Byte)
    /\ Len(t.ratio) = 1
    /\ t.type = LEGACY => Len(t.nonce) = 1 /\ t.nonce[1] <= 127
    /\ Len(Encode(t)) <= MAX_ENCODED

ASSUME OriginalsAssumption == \A t \in Originals : WellFormed(t)

Encoding == [t \in Originals |-> Encode(t)]

------------------------------------------------------------------------------
(* Properties. *)

(* The fields the review shows are those of a transaction. *)
ShownOf(t) ==
    /\ tx.txType = t.type
    /\ tx.nonce = t.nonce /\ tx.gasprice = t.gasprice /\ tx.startgas = t.startgas
    /\ t.type \notin TypesOf("cancel") => tx.value = t.value
    /\ t.type \notin TypesOf("cancel") \cup TypesOf("deploy") => tx.to = t.to
    /\ t.type \in PartialFeeDelegated => tx.ratio = t.ratio

(* Of what was encoded the parser returns the fields that were encoded, whatever
   bytes follow, and accepts nothing of which a part is missing; only a legacy
   transaction may end in front of its chain id, or within it. *)
AcceptsWhatWasEncoded ==
    status = "OK" =>
        \A t \in Originals :
            /\ IsPrefix(Encoding[t], raw) => ShownOf(t) /\ tx.chainID = t.chainID
            /\ IsStrictPrefix(raw, Encoding[t]) =>
                   t.type = LEGACY /\ ShownOf(t) /\ tx.chainID = <<>>

(* A transaction encoded as doc/TRANSACTION.md says is accepted, whatever bytes
   follow. *)
EncodedIsAccepted ==
    status \notin {"running", "OK"} =>
        \A t \in Originals : ~IsPrefix(Encoding[t], raw)
==============================================================================
