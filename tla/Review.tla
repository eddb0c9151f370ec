-------------------------------- MODULE Review --------------------------------
(***************************************************************************)
(* The review of a transaction, page by page: ui_display_transaction, the  *)
(* static strings it fills, the steps (BAGL) or pairs (NBGL) they are laid *)
(* out on, the owner's way through them, and the response of an approval.  *)
(*                                                                         *)
(* Session has a review as one screen; here it is opened up.  The strings  *)
(* and the layouts are static: each review finds those of the last one.    *)
(* The guard of ui_display_transaction and the NBGL dialog that asks       *)
(* before rejecting are in Session; a review is opened when none is open.  *)
(***************************************************************************)
EXTENDS Numerals, SigResponse, TxTypes

CONSTANTS Txs,          \* the transactions the parser returns
          Signatures,   \* what signing returns: r, s and the parity
          MAX_REVIEWS,  \* a bound on the reviews opened, for model checking
          Moduli        \* what numbers are compared by, see AmountSays

ASSUME ReviewAssumption ==
    /\ \A t \in Txs :
          /\ t.ratio \in 0..255
          /\ {t.nonce, t.gasprice, t.startgas, t.to, t.value, t.chainID}
                \subseteq Seq(0..255)
    /\ Signatures \subseteq [r : [1..WIDTH -> 0..255], s : [1..WIDTH -> 0..255],
                             v : 0..1]
    /\ MAX_REVIEWS \in Nat
    /\ Moduli \subseteq Nat \ {0}

VARIABLES ux,        \* the user interface compiled in
          tx,        \* G_context.tx_info.transaction
          strings,   \* g_type, g_nonce, ...
          flows,     \* ux_display_flow, one static array in each handler
          pairs,     \* the static array of pairs
          nbPairs,   \* pairList.nbPairs
          screen,    \* "menu", "start" (NBGL's opening page) or "pages"
          at,        \* the step or the pair on the screen
          shown,     \* the text of each page the owner was shown in this review
          reply,     \* the last response
          reviews    \* how many reviews were opened

vars == <<ux, tx, strings, flows, pairs, nbPairs, screen, at, shown, reply, reviews>>

------------------------------------------------------------------------------
(* The strings. *)

Strings == {"type", "nonce", "gasPrice", "gasLimit", "to", "feeRatio", "amount"}

(* In the order they are formatted. *)
Order == <<"type", "nonce", "gasPrice", "gasLimit", "to", "feeRatio", "amount">>

Blank == [f \in Strings |-> <<>>]

KindName == [value_transfer |-> "Value Transfer", memo |-> "Value Transfer Memo",
             deploy |-> "Smart Contract Deploy",
             execution |-> "Smart Contract Execution", cancel |-> "Cancel"]

Delegation == <<"", "Fee Delegated", "Partial Fee Delegated">>

format_transaction_type(type) ==
    IF type = LEGACY THEN <<"", "Legacy">>
    ELSE IF ~Supported(type) THEN Failed
    ELSE LET kind == CHOOSE k \in Kinds : type \in TypesOf(k)
         IN  <<Delegation[type - FirstType(kind) + 1], KindName[kind]>>

(* The SDK's format_hex: two digits for each byte. *)
format_hex(bytes) ==
    [i \in 1 .. 2 * Len(bytes) |->
        IF i % 2 = 1 THEN bytes[(i + 1) \div 2] \div 16 ELSE bytes[i \div 2] % 16]

(* What each field formats to. *)
Texts(t) ==
    [type     |-> format_transaction_type(t.txType),
     nonce    |-> U64Text(convertUint256ToUint64(t.nonce)),
     gasPrice |-> U64Text(convertUint256ToUint64(t.gasprice)),
     gasLimit |-> U64Text(convertUint256ToUint64(t.startgas)),
     to       |-> format_hex(t.to),
     feeRatio |-> U64Text(<<t.ratio>>),
     amount   |-> Printed(amount_to_string(t.value, EXPONENT_SMALLEST_UNIT,
                                           AMOUNT_BUFFER))]

Formats(texts) == \A f \in Strings : texts[f] # Failed

(* The first string that fails and those behind it stay cleared. *)
Filled(texts) ==
    [f \in Strings |->
        IF \E i, j \in DOMAIN Order : j <= i /\ Order[i] = f /\ texts[Order[j]] = Failed
        THEN <<>> ELSE texts[f]]

------------------------------------------------------------------------------
(* The layouts. *)

MAX_FLOW_STEPS == 18
MAX_PAIRS == 7

(* The step or pair that shows each string; a contract's address is g_to. *)
StringOf == [type |-> "type", nonce |-> "nonce", gasPrice |-> "gasPrice",
             gasLimit |-> "gasLimit", to |-> "to", contract |-> "to",
             feeRatio |-> "feeRatio", amount |-> "amount"]

Titles == DOMAIN StringOf

(* END is FLOW_END_STEP; NULL is an entry never written. *)
Steps == Titles \cup {"review", "approve", "reject", "END", "NULL"}

Handlers == {"legacy", "value_transfer", "deploy", "execution", "cancel"}

(* Legacy transactions have a flow of their own, that of a value transfer;
   transfers with a memo have not. *)
HandlerOf(type) ==
    IF type = LEGACY THEN "legacy"
    ELSE LET kind == CHOOSE k \in Kinds : type \in TypesOf(k)
         IN  IF kind = "memo" THEN "value_transfer" ELSE kind

FeeRatio(t) == IF t.ratio # 0 THEN <<"feeRatio">> ELSE <<>>

Gas == <<"nonce", "gasPrice", "gasLimit">>

(* handle_display_... of bagl_display.c. *)
BaglFields(handler, t) ==
    CASE handler = "legacy" -> <<"amount", "to">> \o Gas
      [] handler = "value_transfer" -> <<"amount", "to">> \o Gas \o FeeRatio(t)
      [] handler = "deploy" -> <<"amount">> \o Gas \o FeeRatio(t)
      [] handler = "execution" -> <<"amount", "contract">> \o Gas \o FeeRatio(t)
      [] handler = "cancel" -> <<"nonce", "gasPrice">> \o FeeRatio(t) \o <<"gasLimit">>

(* The steps of a review.  (Slip: a flow of these alone, which is not ended,
   goes on to the steps an earlier review has left behind them.) *)
StepsOf(handler, t) ==
    <<"review", "type">> \o BaglFields(handler, t) \o <<"approve", "reject">>

BaglFlow(handler, t) == StepsOf(handler, t) \o <<"END">>

(* handle_display_... of nbgl_display_transaction.c: a cancellation has an
   amount here. *)
NbglPairs(handler, t) ==
    <<"type", "amount">>
    \o (CASE handler \in {"legacy", "value_transfer"} -> <<"to">>
          [] handler = "execution" -> <<"contract">>
          [] OTHER -> <<>>)
    \o <<"gasPrice", "gasLimit", "nonce">>
    \o (IF handler = "legacy" THEN <<>> ELSE FeeRatio(t))

(* Slips: the pairs are those every transaction has, or one is counted for the
   page that asks for the signature. *)
CommonPairs(list) == 5
PagesAsPairs(list) == Len(list) + 1

NbPairs(list) == Len(list)

(* An array is written from its start; what is behind stays. *)
Overlaid(list, array) ==
    [i \in DOMAIN list \cup DOMAIN array |->
        IF i \in DOMAIN list THEN list[i] ELSE array[i]]

------------------------------------------------------------------------------
(* The pages. *)

Flow == flows[HandlerOf(tx.txType)]

(* A step or pair comes on the screen, with what its string holds then. *)
Show(step, pages) ==
    [title \in DOMAIN pages \cup ({step} \cap Titles) |->
        IF title = step THEN strings[StringOf[title]] ELSE pages[title]]

(* What is on the screen; NBGL's last page, which asks for the signature, has
   no string. *)
Current(i) ==
    IF ux = "BAGL" THEN Flow[i]
    ELSE IF i <= nbPairs THEN pairs[i] ELSE "approve"

(* A response, with the signature it was made of. *)
NoReply == [kind |-> "none", sent |-> <<>>,
            signature |-> [r |-> <<>>, s |-> <<>>, v |-> 0]]
Status(sw) == [NoReply EXCEPT !.kind = sw]

NoTx == [txType |-> 0, nonce |-> <<>>, gasprice |-> <<>>, startgas |-> <<>>,
         to |-> <<>>, value |-> <<>>, ratio |-> 0, chainID |-> <<>>]

Init ==
    /\ ux \in {"BAGL", "NBGL"}
    /\ tx = NoTx
    /\ strings = Blank
    /\ flows = [h \in Handlers |->
                   Overlaid(IF h = "legacy" THEN BaglFlow(h, NoTx) ELSE <<>>,
                            [i \in 1..MAX_FLOW_STEPS |-> "NULL"])]
    /\ pairs = [i \in 1..MAX_PAIRS |-> "NULL"]
    /\ nbPairs = 0
    /\ screen = "menu"
    /\ at = 0
    /\ shown = <<>>
    /\ reply = Status("OK")
    /\ reviews = 0

(* ui_display_transaction of a transaction that was just parsed. *)
Open(t) ==
    LET handler == HandlerOf(t.txType)
        texts == Texts(t) IN
    /\ screen = "menu"
    /\ reviews < MAX_REVIEWS
    /\ reviews' = reviews + 1
    /\ tx' = t
    /\ strings' = Filled(texts)
    /\ shown' = <<>>
    /\ UNCHANGED <<ux, pairs, nbPairs>>
    /\ \/ /\ ~Formats(texts)
          /\ reply' = Status("DISPLAY_FAIL")
          /\ UNCHANGED <<flows, screen, at>>
       \/ /\ Formats(texts) /\ ux = "BAGL"
          /\ reply' = NoReply
          /\ flows' = [flows EXCEPT ![handler] = Overlaid(BaglFlow(handler, t), @)]
          /\ screen' = "pages"
          /\ at' = 1
       \/ /\ Formats(texts) /\ ux = "NBGL"
          /\ reply' = NoReply
          /\ screen' = "start"
          /\ UNCHANGED <<flows, at>>

(* review_continue, NBGL: the pairs are laid out when the opening page is
   tapped, and the first one is shown. *)
ReviewContinue ==
    LET list == NbglPairs(HandlerOf(tx.txType), tx) IN
    /\ screen = "start"
    /\ pairs' = Overlaid(list, pairs)
    /\ nbPairs' = NbPairs(list)
    /\ screen' = "pages"
    /\ at' = 1
    /\ shown' = Show(pairs'[1], <<>>)
    /\ UNCHANGED <<ux, tx, strings, flows, reply, reviews>>

(* The flow and the pages go forward until their end and back to their start;
   pairs that share a page are shown one by one here. *)
Forward ==
    /\ screen = "pages"
    /\ IF ux = "BAGL" THEN Flow[at + 1] # "END" ELSE at <= nbPairs
    /\ at' = at + 1
    /\ shown' = Show(Current(at + 1), shown)
    /\ UNCHANGED <<ux, tx, strings, flows, pairs, nbPairs, screen, reply, reviews>>

Back ==
    /\ screen = "pages"
    /\ at > 1
    /\ at' = at - 1
    /\ UNCHANGED <<ux, tx, strings, flows, pairs, nbPairs, screen, shown, reply,
                   reviews>>

(* The callback leaves the review, and the response is made of what signing
   returned and the chain id in the context. *)
Approve ==
    /\ screen = "pages"
    /\ Current(at) = "approve"
    /\ screen' = "menu"
    /\ at' = 0
    /\ \/ \E signature \in Signatures :
            reply' = [kind |-> "signature",
                      sent |-> helper_send_response_sig(tx.chainID, signature.v,
                                                        Der(signature)),
                      signature |-> signature]
       \/ reply' = Status("SIGNATURE_FAIL")
    /\ UNCHANGED <<ux, tx, strings, flows, pairs, nbPairs, shown, reviews>>

(* A step of its own in BAGL; NBGL offers it on every page. *)
Reject ==
    /\ screen # "menu"
    /\ ux = "BAGL" => Current(at) = "reject"
    /\ screen' = "menu"
    /\ at' = 0
    /\ reply' = Status("DENY")
    /\ shown' = <<>>
    /\ UNCHANGED <<ux, tx, strings, flows, pairs, nbPairs, reviews>>

Next ==
    \/ \E t \in Txs : Open(t)
    \/ ReviewContinue
    \/ Forward
    \/ Back
    \/ Approve
    \/ Reject

Spec == Init /\ [][Next]_vars

------------------------------------------------------------------------------
(* Properties. *)

Has(type, field) == \E i \in DOMAIN Fields(type) : Fields(type)[i] = field

(* The fields of a type that its owner has to know: those the parser stores
   that are paid, called or limited by; a ratio if there is one. *)
TitlesFor(t) ==
    LET has(field) == Has(t.txType, field) IN
    {"type", "nonce", "gasPrice", "gasLimit"}
    \cup (IF has("to") THEN {IF HandlerOf(t.txType) = "execution" THEN "contract" ELSE "to"}
          ELSE {})
    \cup (IF has("value") THEN {"amount"} ELSE {})
    \cup (IF has("ratio") /\ t.ratio # 0 THEN {"feeRatio"} ELSE {})

(* Every variable holds a value of its C type; the static arrays keep their
   sizes, and what counts their entries stays within them. *)
TypeOK ==
    /\ ux \in {"BAGL", "NBGL"}
    /\ tx \in Txs \cup {NoTx}
    /\ DOMAIN strings = Strings
    /\ flows \in [Handlers -> [1..MAX_FLOW_STEPS -> Steps]]
    /\ pairs \in [1..MAX_PAIRS -> Steps]
    /\ nbPairs \in 0..MAX_PAIRS
    /\ screen \in {"menu", "start", "pages"}
    /\ at \in 0..MAX_FLOW_STEPS
    /\ reviews \in 0..MAX_REVIEWS

(* What this review, and no other, has to show: the steps of its flow, or its
   pairs and the page that asks for the signature. *)
OwnEntries ==
    LET handler == HandlerOf(tx.txType) IN
    IF ux = "BAGL" THEN StepsOf(handler, tx)
    ELSE NbglPairs(handler, tx) \o <<"approve">>

(* The screen is on an entry of this review, and that entry is what this review
   has put there: whatever longer review left its steps or pairs in the static
   arrays, the flow ends before the owner gets to them. *)
PageIsOwn ==
    screen = "pages" =>
        /\ at \in DOMAIN OwnEntries
        /\ Current(at) = OwnEntries[at]
        /\ ux = "BAGL" => Flow[Len(OwnEntries) + 1] = "END"

(* An approval comes after every field of the transaction has been on the
   screen, each with the text it formats to. *)
ApprovalSeesAll ==
    reply.kind = "signature" =>
        LET texts == Texts(tx) IN
        \A title \in TitlesFor(tx) :
            title \in DOMAIN shown /\ shown[title] = texts[StringOf[title]]

(* The host can tell the signature from the response: no other signature of
   the same transaction, of numbers of whatever DER lengths and either parity,
   would be sent as the same bytes, although the chain id is cut to four of
   its bytes and all that is left of it and of the parity is one. *)
ResponseTellsSignature ==
    reply.kind = "signature" =>
        \A other \in Signatures :
            helper_send_response_sig(tx.chainID, other.v, Der(other)) = reply.sent
                => other = reply.signature

------------------------------------------------------------------------------
(* What a page means. *)

Types == {LEGACY} \cup UNION {TypesOf(kind) : kind \in Kinds}

(* The text is the amount as far as the screen has room, and has the point when
   there is no room for all of it; the amount, in peb, is the number the bytes
   are: they leave the same remainder modulo whatever they are compared by. *)
AmountSays(text, bytes) ==
    LET full == amount_to_string(bytes, EXPONENT_SMALLEST_UNIT, AMOUNT_BUFFER)
        digits == InPeb(full)
    IN
    /\ IF Len(full) <= SHOWN_AMOUNT THEN text = full
       ELSE /\ text = SubSeq(full, 1, SHOWN_AMOUNT)
            /\ \E i \in DOMAIN text : text[i] = POINT
    /\ Len(full) <= PointAt(full) + EXPONENT_SMALLEST_UNIT
    /\ digits \in Seq(Digit)
    /\ \A m \in Moduli : DenotedModulo(m, 10, digits) = DenotedModulo(m, 256, bytes)

AddressSays(text, bytes) ==
    /\ Len(text) = 2 * Len(bytes)
    /\ \A i \in 1..Len(bytes) : 16 * text[2 * i - 1] + text[2 * i] = bytes[i]

TypeSays(text, type) ==
    \A other \in Types : format_transaction_type(other) = text <=> other = type

(* Numbers of more than eight bytes are shown by their first eight. *)
NumberSays(text, bytes) == Len(bytes) <= U64_BYTES => text = U64Text(bytes)

(* Whatever page is shown says what the transaction that is reviewed holds: the
   amount to the last decimal that fits, the recipient if the type has one, the
   type by a name no other type has. *)
PagesAreTrue ==
    \A title \in DOMAIN shown :
        LET text == shown[title] IN
        CASE title = "type" -> TypeSays(text, tx.txType)
          [] title = "amount" -> AmountSays(text, tx.value)
          [] title \in {"to", "contract"} ->
                 Has(tx.txType, "to") /\ AddressSays(text, tx.to)
          [] title = "nonce" -> NumberSays(text, tx.nonce)
          [] title = "gasPrice" -> NumberSays(text, tx.gasprice)
          [] title = "gasLimit" -> NumberSays(text, tx.startgas)
          [] title = "feeRatio" -> tx.ratio # 0 /\ text = U64Text(<<tx.ratio>>)

------------------------------------------------------------------------------
(* What the repository says of the response and the code does otherwise. *)

(* send_response.h: the response is signature_len in one byte, the signature
   in DER, and v in one byte, and APP_SPECIFICATION.md and the client's
   unpack_sign_tx_response say so too.  The code sends a byte with v, r and s. *)
ResponseAsSpecified ==
    reply.kind = "signature" =>
        reply.sent = <<Len(Der(reply.signature))>> \o Der(reply.signature)
                     \o <<reply.signature.v>>
==============================================================================
