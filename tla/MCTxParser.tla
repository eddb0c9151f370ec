------------------------------ MODULE MCTxParser ------------------------------
(***************************************************************************)
(* TxParser on encoded transactions of all sixteen types, as they are, cut *)
(* short or altered.  An address has two bytes here, an integer at most    *)
(* three.                                                                  *)
(***************************************************************************)
EXTENDS Encoding

MCAddressLen == 2
MCMaxInt256 == 3
MCStaleBytes == {0, 8, LEGACY}

------------------------------------------------------------------------------
(* The transactions. *)

Types == {LEGACY} \cup UNION {TypesOf(kind) : kind \in Kinds}

Plain(type) ==
    [type |-> type, nonce |-> <<5>>, gasprice |-> <<186, 1>>, startgas |-> <<99>>,
     to |-> <<17, 18>>, value |-> <<200, 1, 2>>, sender |-> <<170, 187>>,
     data |-> <<9, 8>>, ratio |-> <<30>>, chainID |-> <<32, 25>>]

Long == [i \in 1..60 |-> i]
Longer == [i \in 1..260 |-> i % 256]

(* These are also cut; they have items of every form. *)
Cut(t) == {t, [t EXCEPT !.chainID = <<1>>, !.gasprice = <<>>], [t EXCEPT !.data = Long]}

Uncut(t) == {[t EXCEPT !.value = <<>>], [t EXCEPT !.value = <<7>>], [t EXCEPT !.data = <<>>]}

MCCut == UNION {Cut(Plain(type)) : type \in Types}
         \cup {[Plain(FirstType("memo")) EXCEPT !.data = Longer]}

(* Legacy transactions with other nonces are in MCLegacyNonce. *)
MCOriginals ==
    MCCut
    \cup UNION {Uncut(Plain(type)) : type \in Types}
    \cup {[Plain(type) EXCEPT !.nonce = n] :
             type \in Types \ {LEGACY}, n \in {<<>>, <<200>>, <<1, 2>>}}

CutsOf(bytes) == {SubSeq(bytes, 1, n) : n \in 1..Len(bytes)}

(* Every encoded transaction, and with a byte more, and cut at every byte. *)
MCEncoded ==
    UNION {{Encode(t), Append(Encode(t), 0)} : t \in MCOriginals}
    \cup UNION {CutsOf(Encode(t)) : t \in MCCut}

(* Plain transactions with one byte replaced by one that means something to
   the parser: an item, a short or a long header, a type. *)
Meaningful == {0, 8, 16, 58, 128, 131, 132, 184, 185, 190, 192, 193, 248, 255}

Altered(bytes) == {[bytes EXCEPT ![i] = b] : i \in 1..Len(bytes), b \in Meaningful}

MCAltered == UNION {Altered(Encode(Plain(type))) : type \in Types}

MCInputs == MCEncoded \cup MCAltered

(* A list of one item where the nonce belongs. *)
MCFaulty ==
    {[Encode([Plain(type) EXCEPT !.nonce = <<200>>]) EXCEPT ![5] = 193] :
        type \in Types \ {LEGACY}}

(* A legacy transaction that is its sender's first, 129th or a later one. *)
MCLegacyNonce ==
    {Encode([Plain(LEGACY) EXCEPT !.nonce = n]) : n \in {<<>>, <<128>>, <<1, 2>>}}

(* A fee ratio of two bytes. *)
MCLongRatio ==
    {Encode([Plain(type) EXCEPT !.ratio = <<30, 30>>]) : type \in PartialFeeDelegated}

------------------------------------------------------------------------------
(* Properties of the documentation's. *)

(* Given an encoded transaction, the beginning of one, or one with a byte behind
   it, the parser returns: none of the faults it drops is met there, and no field
   waits for bytes that do not come. *)
DocumentedReturns == raw \in MCEncoded ~> status # "running"

(* doc/TRANSACTION.md: a legacy transaction is the encoding of its nonce and
   its other fields.  The parser takes a first item that is a single byte for
   the mark of a legacy transaction, so it refuses every nonce that is encoded
   in another way: 0, and all above 127. *)
LegacyNonceIsAccepted == status \in {"running", "OK"}
==============================================================================
