------------------------------- MODULE Session -------------------------------
(***************************************************************************)
(* The command session of the Kaia application: app_main's command loop,   *)
(* the APDU dispatcher, the handlers, the global context they share, the   *)
(* review screens of both user interfaces (BAGL and NBGL) and the          *)
(* callbacks through which the owner's answer becomes a reply.             *)
(*                                                                         *)
(* The loop runs one command to its end before anything else happens, so a *)
(* command is one step.  What interleaves is the host's next command, the  *)
(* owner's moves on the screen, and the end of the application: a review   *)
(* outlives the command that opened it, and its callbacks read the global  *)
(* context again, long after the handler wrote it.                         *)
(*                                                                         *)
(* Bytes are abstracted to what the session tells apart: a chunk is a      *)
(* value with a size, a hash is named by the chunks it was computed from,  *)
(* a public key by the path it was derived from, and the strings on the    *)
(* screen by the transaction or the key they were formatted from.          *)
(***************************************************************************)
EXTENDS Naturals, Sequences, SequencesExt

CONSTANTS Path,            \* the well-formed BIP32 paths the host uses
          Chunk,           \* the pieces of transactions it sends
          Size,            \* the number of bytes of each chunk
          MAX_TRANSACTION_LEN,
          MAX_APDU_SIZE,
          P1,              \* the values of the first parameter it uses
          Tx,              \* the transactions the parser can return
          Parse(_),        \* what the parser makes of the received chunks
          Displayable,     \* the transactions every field of which formats
          SignInfo,        \* the flags a successful signature may report
          Interfaces,      \* the user interfaces of the builds: "BAGL", "NBGL"
          HalfDuplex,      \* TRUE: a command follows the reply to the last one
          Zero,            \* memory that explicit_bzero cleared
          Garbage,         \* memory only partly written
          BadPath,         \* path data buffer_read_bip32_path refuses
          NoData,          \* a command without data
          ParseFault,      \* the parser returns PARSING_ERROR
          ParseNoEnd       \* the parser does not return

P1_MAX == MAX_TRANSACTION_LEN \div MAX_APDU_SIZE

ASSUME SizeAssumption ==
    /\ Size \in [Chunk -> Nat \ {0}]
    /\ MAX_TRANSACTION_LEN \in Nat
    /\ MAX_APDU_SIZE \in Nat \ {0}
    /\ P1 \subseteq Nat

(* A chunk has a byte at least, so no more than MAX_TRANSACTION_LEN fit. *)
ASSUME ParseAssumption ==
    /\ \A n \in 1..MAX_TRANSACTION_LEN : \A raw \in [1..n -> Chunk] :
           Parse(raw) \in Tx \cup {ParseFault, ParseNoEnd}
    /\ ParseFault \notin Tx /\ ParseNoEnd \notin Tx /\ ParseFault # ParseNoEnd
    /\ Displayable \subseteq Tx

ASSUME KindAssumption ==
    /\ Interfaces \subseteq {"BAGL", "NBGL"}
    /\ HalfDuplex \in BOOLEAN
    /\ SignInfo \subseteq [odd : BOOLEAN, xGTn : BOOLEAN]
    /\ Zero # Garbage
    /\ NoData \notin Path \cup Chunk
    /\ {Zero, Garbage} \cap (Path \cup Tx) = {}
    /\ Zero \notin [path : Path \cup {Zero, Garbage}, bytes : Seq(Chunk)]

VARIABLES
    ux,           \* the user interface compiled in; no step changes it
    app,          \* the process: "closed", "running", or "stuck" in the parser
    state,        \* G_context.state
    req_type,     \* G_context.req_type
    bip32_path,   \* G_context.bip32_path and bip32_path_len
    raw_tx,       \* tx_info.raw_tx, up to raw_tx_len
    raw_tx_len,   \* tx_info.raw_tx_len
    transaction,  \* tx_info.transaction
    m_hash,       \* tx_info.m_hash: the chunks hashed, <<>> for zeroes
    v,            \* tx_info.v
    pk,           \* pk_info.raw_public_key, in a union with tx_info
    screen,       \* what the screen shows
    g_tx,         \* the static strings of a transaction review
    pairs,        \* the pages or steps those strings are laid out on
    g_address,    \* the static string of an address review
    reply         \* the last response, or NoReply while a command waits

(* The bytes of some chunks: in C, lengths are added up one after another. *)
BytesIn(chunks) ==
    LET upTo[i \in 0..Len(chunks)] ==
            IF i = 0 THEN 0 ELSE upTo[i - 1] + Size[chunks[i]]
    IN  upTo[Len(chunks)]

context == <<state, req_type, bip32_path, raw_tx, raw_tx_len, transaction,
             m_hash, v, pk>>
strings == <<g_tx, pairs, g_address>>
vars == <<ux, app, context, screen, strings, reply>>

------------------------------------------------------------------------------
(* Commands and replies. *)

P2_VALUES == {"LAST", "MORE", "OTHER"}

Ins == {"MALFORMED", "BAD_CLA", "UNKNOWN", "GET_VERSION", "GET_APP_NAME",
        "GET_PUBLIC_KEY", "SIGN_TX"}

Payload == Path \cup {BadPath} \cup Chunk \cup {NoData}

(* The parameters of the first three are not looked at, and only two handlers
   look at data, as a path or as a chunk. *)
Commands ==
    {c \in [ins : Ins, p1 : P1, p2 : P2_VALUES, data : Payload] :
        /\ c.ins \in {"MALFORMED", "BAD_CLA", "UNKNOWN"} =>
              c.p1 = 0 /\ c.p2 = "LAST"
        /\ \/ c.data = NoData
           \/ /\ c.ins = "GET_PUBLIC_KEY" \/ (c.ins = "SIGN_TX" /\ c.p1 = 0)
              /\ c.data \in Path \cup {BadPath}
           \/ c.ins = "SIGN_TX" /\ c.p1 # 0 /\ c.data \in Chunk}

StatusWords ==
    {"OK", "CLA_NOT_SUPPORTED", "INS_NOT_SUPPORTED", "WRONG_P1P2",
     "WRONG_DATA_LENGTH", "BAD_STATE", "WRONG_TX_LENGTH", "TX_PARSING_FAIL",
     "TX_HASH_FAIL", "DISPLAY_FAIL", "CX_ERROR", "DENY", "SIGNATURE_FAIL"}

Reply == [kind  : {"none", "closed", "status", "info", "pubkey", "signature"},
          sw    : StatusWords \cup {"NONE"},
          path  : Path \cup {Zero, Garbage},
          bytes : Seq(Chunk),
          v     : 0..2,
          odd   : BOOLEAN]

NoReply == [kind |-> "none", sw |-> "NONE", path |-> Zero, bytes |-> <<>>,
            v |-> 0, odd |-> FALSE]
Closed == [NoReply EXCEPT !.kind = "closed"]

Status(sw) == [NoReply EXCEPT !.kind = "status", !.sw = sw]
Info == [NoReply EXCEPT !.kind = "info", !.sw = "OK"]
PubKey(key) == [NoReply EXCEPT !.kind = "pubkey", !.sw = "OK", !.path = key]
Signature(path, hash, parity, odd) ==
    [kind |-> "signature", sw |-> "OK", path |-> path, bytes |-> hash,
     v |-> parity, odd |-> odd]

------------------------------------------------------------------------------
(* Screens.  The NBGL reviews have an opening page and, for a transaction,
   a dialog that asks whether to reject, over the page it was opened from. *)

AddressScreens == {"address_start", "address"}
TxScreens == {"tx_start", "tx", "ask_start", "ask_tx"}
StatusScreens == {"status_signed", "status_rejected", "status_verified",
                  "status_cancelled"}
Screens == {"menu", "about"} \cup AddressScreens \cup TxScreens \cup StatusScreens

ReviewOpen == screen \in AddressScreens \cup TxScreens

(* Where a callback leaves the screen: BAGL returns to the menu, NBGL shows
   a status page first.  (Slip: it forgets to leave the review.) *)
StaysOpen(status) == "tx"

AfterAnswer(status) == IF ux = "BAGL" THEN "menu" ELSE status

------------------------------------------------------------------------------
(* The start and the end of the application. *)

ContextWith(req, raw, len, hash, parity) ==
    /\ state' = "NONE"
    /\ req_type' = req
    /\ raw_tx' = raw
    /\ raw_tx_len' = len
    /\ transaction' = Zero
    /\ m_hash' = hash
    /\ v' = parity

(* Slips: a field is left as it was. *)
KeepsBytes(req) == ContextWith(req, raw_tx, raw_tx_len, <<>>, 0)
KeepsLength(req) == ContextWith(req, <<>>, raw_tx_len, <<>>, 0)
KeepsHash(req) == ContextWith(req, <<>>, 0, m_hash, 0)
KeepsParity(req) == ContextWith(req, <<>>, 0, <<>>, v)

(* explicit_bzero of G_context, and the request type written after it. *)
ZeroContext(req) == ContextWith(req, <<>>, 0, <<>>, 0)

(* The memory and the screen of a process that starts. *)
Cleared ==
    /\ ZeroContext("CONFIRM_ADDRESS")
    /\ bip32_path' = Zero
    /\ pk' = Zero
    /\ screen' = "menu"
    /\ g_tx' = Zero
    /\ pairs' = Zero
    /\ g_address' = Zero

Init ==
    /\ ux \in Interfaces
    /\ app = "closed"
    /\ state = "NONE"
    /\ req_type = "CONFIRM_ADDRESS"
    /\ bip32_path = Zero
    /\ raw_tx = <<>>
    /\ raw_tx_len = 0
    /\ transaction = Zero
    /\ m_hash = <<>>
    /\ v = 0
    /\ pk = Zero
    /\ screen = "menu"
    /\ g_tx = Zero
    /\ pairs = Zero
    /\ g_address = Zero
    /\ reply = Closed

(* app_main up to its loop. *)
Boot ==
    /\ app = "closed"
    /\ app' = "running"
    /\ Cleared
    /\ UNCHANGED <<ux, reply>>

(* The loop returns because the transport failed, the owner chooses Quit, or
   the device loses power: the memory is gone, and so is an answer the host
   was waiting for. *)
Exit ==
    /\ app # "closed"
    /\ app' = "closed"
    /\ Cleared
    /\ reply' = Closed
    /\ UNCHANGED ux

------------------------------------------------------------------------------
(* Handlers.  Each constrains the context, the screen, the strings and the
   reply; only the parser can change app. *)

Answer(r) == reply' = r /\ UNCHANGED <<screen, strings>>

Refuse(sw) == Answer(Status(sw)) /\ UNCHANGED <<app, context>>

(* buffer_read_bip32_path stores what it reads before it finds a fault. *)
ReadPath(data) == IF data \in Path THEN data ELSE Garbage

(* The reviews' guards read the context the handler has just written. *)
UiDisplayAddress ==
    IF req_type' # "CONFIRM_ADDRESS" \/ state' # "NONE"
    THEN state' = "NONE" /\ Answer(Status("BAD_STATE"))
    ELSE /\ UNCHANGED <<g_tx, pairs>>
         /\ \/ /\ g_address' = Zero              \* the hash fails
               /\ reply' = Status("DISPLAY_FAIL")
               /\ UNCHANGED screen
            \/ /\ g_address' = pk'
               /\ screen' = IF ux = "BAGL" THEN "address" ELSE "address_start"
               /\ reply' = NoReply

(* Slip: a field that does not format goes unnoticed. *)
IgnoresFormat(tx) == TRUE

Formats(tx) == tx \in Displayable

(* A field that does not format leaves the buffers half filled and the
   screen as it was. *)
UiDisplayTransaction(found) ==
    IF req_type' # "CONFIRM_TRANSACTION" \/ found # "PARSED"
    THEN state' = "NONE" /\ Answer(Status("BAD_STATE"))
    ELSE IF ~Formats(transaction')
    THEN /\ g_tx' = Garbage
         /\ reply' = Status("DISPLAY_FAIL")
         /\ state' = found
         /\ UNCHANGED <<screen, pairs, g_address>>
    ELSE /\ g_tx' = transaction'
         /\ state' = found
         /\ IF ux = "BAGL"
            THEN pairs' = transaction' /\ screen' = "tx"
            ELSE UNCHANGED pairs /\ screen' = "tx_start"
         /\ reply' = NoReply
         /\ UNCHANGED g_address

(* handler_get_public_key: the context is cleared before the path is read. *)
HandlerGetPublicKey(data, display) ==
    /\ ZeroContext("CONFIRM_ADDRESS")
    /\ bip32_path' = ReadPath(data)
    /\ UNCHANGED app
    /\ \/ /\ data \notin Path
          /\ pk' = Zero
          /\ Answer(Status("WRONG_DATA_LENGTH"))
       \/ /\ data \in Path                      \* the derivation fails
          /\ pk' = Garbage
          /\ Answer(Status("CX_ERROR"))
       \/ /\ data \in Path
          /\ pk' = data
          /\ IF display THEN UiDisplayAddress ELSE Answer(PubKey(data))

(* handler_sign_tx, first APDU: a path that cannot be read is refused, and
   the request stays open all the same. *)
SignTxFirst(data) ==
    /\ ZeroContext("CONFIRM_TRANSACTION")
    /\ bip32_path' = ReadPath(data)
    /\ pk' = Zero
    /\ UNCHANGED app
    /\ Answer(Status(IF data \in Path THEN "OK" ELSE "WRONG_DATA_LENGTH"))

(* The chunk is stored behind what was received since the first APDU,
   whatever has become of it; the union gives pk_info the same bytes. *)
AppendChunk(chunk) ==
    /\ raw_tx' = Append(raw_tx, chunk)
    /\ raw_tx_len' = raw_tx_len + Size[chunk]
    /\ pk' = Garbage
    /\ UNCHANGED <<req_type, bip32_path, v>>

(* Slip: the length is read before the last chunk is counted. *)
HashesPrevious == raw_tx

HashedBytes == raw_tx'

(* Slip: nothing is noted when the parser succeeds. *)
StateNotSet == state

StateOnceParsed == "PARSED"

(* The last APDU: parse, hash, display. *)
ParseAndDisplay ==
    LET result == Parse(raw_tx') IN
    \/ /\ result = ParseNoEnd
       /\ app' = "stuck"
       /\ reply' = NoReply
       /\ transaction' = Garbage
       /\ UNCHANGED <<state, m_hash, screen, strings>>
    \/ /\ result = ParseFault
       /\ transaction' = Garbage
       /\ Answer(Status("TX_PARSING_FAIL"))
       /\ UNCHANGED <<app, state, m_hash>>
    \/ /\ result \in Tx
       /\ transaction' = result
       /\ UNCHANGED app
       /\ \/ /\ UNCHANGED m_hash
             /\ state' = StateOnceParsed
             /\ Answer(Status("TX_HASH_FAIL"))
          \/ m_hash' = HashedBytes /\ UiDisplayTransaction(StateOnceParsed)

SignTxChunk(chunk, more) ==
    IF req_type # "CONFIRM_TRANSACTION" THEN Refuse("BAD_STATE")
    ELSE IF raw_tx_len + Size[chunk] > MAX_TRANSACTION_LEN
    THEN Refuse("WRONG_TX_LENGTH")
    ELSE /\ AppendChunk(chunk)
         /\ IF more
            THEN /\ Answer(Status("OK"))
                 /\ UNCHANGED <<app, state, transaction, m_hash>>
            ELSE ParseAndDisplay

HandlerSignTx(data, chunk, more) ==
    IF chunk = 0 THEN SignTxFirst(data) ELSE SignTxChunk(data, more)

(* apdu_dispatcher's checks of the parameters, before the data's. *)
WrongP1P2(c) ==
    \/ c.ins \in {"GET_VERSION", "GET_APP_NAME"} /\ (c.p1 # 0 \/ c.p2 # "LAST")
    \/ c.ins = "GET_PUBLIC_KEY" /\ (c.p1 > 1 \/ c.p2 # "LAST")
    \/ /\ c.ins = "SIGN_TX"
       /\ \/ c.p1 = 0 /\ c.p2 # "MORE"
          \/ c.p1 > P1_MAX
          \/ c.p2 = "OTHER"

Dispatch(c) ==
    IF c.ins = "MALFORMED" THEN Refuse("WRONG_DATA_LENGTH")
    ELSE IF c.ins = "BAD_CLA" THEN Refuse("CLA_NOT_SUPPORTED")
    ELSE IF c.ins = "UNKNOWN" THEN Refuse("INS_NOT_SUPPORTED")
    ELSE IF WrongP1P2(c) THEN Refuse("WRONG_P1P2")
    ELSE IF c.ins \in {"GET_VERSION", "GET_APP_NAME"}
    THEN Answer(Info) /\ UNCHANGED <<app, context>>
    ELSE IF c.data = NoData THEN Refuse("WRONG_DATA_LENGTH")
    ELSE IF c.ins = "GET_PUBLIC_KEY"
    THEN HandlerGetPublicKey(c.data, c.p1 = 1)
    ELSE HandlerSignTx(c.data, c.p1, c.p2 = "MORE")

(* One turn of app_main's loop. *)
Receive(c) ==
    /\ app = "running"
    /\ HalfDuplex => reply.kind # "none"
    /\ Dispatch(c)
    /\ UNCHANGED ux

------------------------------------------------------------------------------
(* The owner's moves. *)

(* NBGL: the opening page is tapped; a transaction's pages are chosen by
   the type found in the context at that moment. *)
ReviewContinue ==
    /\ app = "running"
    /\ \/ screen = "address_start" /\ screen' = "address" /\ UNCHANGED pairs
       \/ screen = "tx_start" /\ screen' = "tx" /\ pairs' = transaction
    /\ UNCHANGED <<ux, app, context, g_tx, g_address, reply>>

(* validate_pubkey(true): the response is built from the context. *)
ApproveAddress ==
    /\ app = "running"
    /\ screen = "address"
    /\ reply' = PubKey(pk)
    /\ screen' = AfterAnswer("status_verified")
    /\ UNCHANGED <<ux, app, context, strings>>

(* Slip: the host is not told. *)
RejectInSilence ==
    /\ app = "running"
    /\ screen \in AddressScreens
    /\ screen' = AfterAnswer("status_cancelled")
    /\ UNCHANGED <<ux, app, context, strings, reply>>

RejectAddress ==
    /\ app = "running"
    /\ screen \in AddressScreens
    /\ reply' = Status("DENY")
    /\ screen' = AfterAnswer("status_cancelled")
    /\ UNCHANGED <<ux, app, context, strings>>

(* Slip: the two flags are added up. *)
ParityAsFlags(info) == (IF info.xGTn THEN 2 ELSE 0) + (IF info.odd THEN 1 ELSE 0)

(* crypto_sign_message: v is written for the flags that are set only. *)
SignatureParity(info) ==
    IF info.xGTn THEN 2 ELSE IF info.odd THEN 1 ELSE v

(* validate_transaction(true) and the page that follows, whatever came of
   it: a failed signature is answered with an error. *)
ApproveTransaction ==
    /\ app = "running"
    /\ screen = "tx"
    /\ screen' = AfterAnswer("status_signed")
    /\ \/ \E info \in SignInfo :
            /\ state' = "APPROVED"
            /\ v' = SignatureParity(info)
            /\ reply' = Signature(bip32_path, m_hash, v', info.odd)
       \/ /\ state' = "NONE"
          /\ reply' = Status("SIGNATURE_FAIL")
          /\ UNCHANGED v
    /\ UNCHANGED <<ux, app, req_type, bip32_path, raw_tx, raw_tx_len,
                   transaction, m_hash, pk, strings>>

(* validate_transaction(false), from the BAGL reject step or the NBGL
   dialog. *)
RejectTransaction ==
    /\ app = "running"
    /\ IF ux = "BAGL" THEN screen = "tx" ELSE screen \in {"ask_start", "ask_tx"}
    /\ state' = "NONE"
    /\ reply' = Status("DENY")
    /\ screen' = AfterAnswer("status_rejected")
    /\ UNCHANGED <<ux, app, req_type, bip32_path, raw_tx, raw_tx_len,
                   transaction, m_hash, v, pk, strings>>

(* NBGL: ask before rejecting, and think again. *)
AskRejection ==
    /\ app = "running" /\ ux = "NBGL"
    /\ \/ screen = "tx_start" /\ screen' = "ask_start"
       \/ screen = "tx" /\ screen' = "ask_tx"
    /\ UNCHANGED <<ux, app, context, strings, reply>>

GoBackToTransaction ==
    /\ app = "running" /\ ux = "NBGL"
    /\ \/ screen = "ask_start" /\ screen' = "tx_start"
       \/ screen = "ask_tx" /\ screen' = "tx"
    /\ UNCHANGED <<ux, app, context, strings, reply>>

DismissStatus ==
    /\ app = "running"
    /\ screen \in StatusScreens
    /\ screen' = "menu"
    /\ UNCHANGED <<ux, app, context, strings, reply>>

(* The page about the application, reached from the menu and left for it:
   BAGL's About, NBGL's settings.  A command may arrive on either. *)
MenuAbout ==
    /\ app = "running"
    /\ \/ screen = "menu" /\ screen' = "about"
       \/ screen = "about" /\ screen' = "menu"
    /\ UNCHANGED <<ux, app, context, strings, reply>>

------------------------------------------------------------------------------
Decide == ApproveAddress \/ RejectAddress \/ ApproveTransaction
          \/ RejectTransaction

Next ==
    \/ Boot
    \/ Exit
    \/ \E c \in Commands : Receive(c)
    \/ ReviewContinue
    \/ ApproveAddress
    \/ RejectAddress
    \/ ApproveTransaction
    \/ RejectTransaction
    \/ AskRejection
    \/ GoBackToTransaction
    \/ DismissStatus
    \/ MenuAbout

Spec == Init /\ [][Next]_vars

(* An owner who taps through an opened review and does not go back to it
   for ever.  Nothing is asked of the host. *)
FairSpec == Spec /\ WF_vars(ReviewContinue) /\ SF_vars(Decide)

------------------------------------------------------------------------------
(* Properties. *)

(* Every variable holds a value of its C type, and no more chunks are stored
   than there are bytes. *)
TypeOK ==
    /\ ux \in Interfaces
    /\ app \in {"closed", "running", "stuck"}
    /\ state \in {"NONE", "PARSED", "APPROVED"}
    /\ req_type \in {"CONFIRM_ADDRESS", "CONFIRM_TRANSACTION"}
    /\ bip32_path \in Path \cup {Zero, Garbage}
    /\ raw_tx \in Seq(Chunk)
    /\ raw_tx_len \in Len(raw_tx)..MAX_TRANSACTION_LEN
    /\ transaction \in Tx \cup {Zero, Garbage}
    /\ m_hash \in Seq(Chunk)
    /\ v \in 0..2
    /\ pk \in Path \cup {Zero, Garbage}
    /\ screen \in Screens
    /\ g_tx \in Tx \cup {Zero, Garbage}
    /\ pairs \in Tx \cup {Zero, Garbage}
    /\ g_address \in Path \cup {Zero, Garbage}
    /\ reply \in Reply

(* As long as a review is on the screen, the context its callbacks will read
   is the one it was opened for: an approval signs the hash of all the bytes
   received, these parse to the transaction shown, on the pages of its type;
   an approved address is the key of the path that was asked for. *)
ReviewMatchesContext ==
    app = "running" =>
        /\ screen \in TxScreens =>
              /\ req_type = "CONFIRM_TRANSACTION" /\ state = "PARSED"
              /\ m_hash = raw_tx /\ raw_tx # <<>>
              /\ transaction = Parse(m_hash) /\ transaction = g_tx
        /\ screen \in {"tx", "ask_tx"} => pairs = g_tx
        /\ screen \in AddressScreens =>
              /\ req_type = "CONFIRM_ADDRESS" /\ state = "NONE"
              /\ g_address = pk /\ pk = bip32_path /\ pk \in Path

(* A signature the host holds is of bytes that parse to the transaction the
   owner was shown in full: every field formatted, laid out by its type. *)
SignedWasShown ==
    reply.kind = "signature" =>
        /\ Parse(reply.bytes) = g_tx
        /\ pairs = g_tx
        /\ g_tx \in Displayable

(* A command waits for its reply exactly while a review is on the screen: no
   review is left behind by its answer, no command without one. *)
WaitingHasReview ==
    app = "running" => (reply.kind = "none" <=> ReviewOpen)

(* The bytes hashed are the first of those received since the path was, and a
   signature is under the path of the session that received its bytes.  This
   asks nothing of the transport: it holds if the host does not wait. *)
HashBelongsToSession ==
    /\ IsPrefix(m_hash, raw_tx)
    /\ reply.kind = "signature" =>
          reply.path = bip32_path /\ IsPrefix(reply.bytes, raw_tx)

(* raw_tx_len is the number of bytes stored, whatever was refused, rejected or
   signed before, and never more than the buffer holds. *)
LengthTracksBytes ==
    /\ raw_tx_len = BytesIn(raw_tx)
    /\ raw_tx_len <= MAX_TRANSACTION_LEN

(* Once bytes of a transaction are stored they stay, under the path they came
   with, until all of them are cleared. *)
PathBindsSession ==
    [][raw_tx # <<>> /\ raw_tx' # <<>> =>
          bip32_path' = bip32_path /\ IsPrefix(raw_tx, raw_tx')]_vars

(* BAD_STATE is only ever the answer to a chunk that belongs to no session,
   and costs nothing: the guards of the two ui_display functions never fire. *)
BadStateOnlyOutsideSession ==
    [][reply' # reply /\ reply'.sw = "BAD_STATE" =>
          req_type = "CONFIRM_ADDRESS" /\ UNCHANGED context]_vars

(* A command that waits for the owner is answered, unless the application
   ends or the parser never returned. *)
CommandAnswered ==
    (app = "running" /\ reply.kind = "none") ~>
        (reply.kind # "none" \/ app # "running")

(* The refinement: a transaction screen is an open review of the bytes that
   were hashed for it. *)
TxReview == IF app = "running" /\ screen \in TxScreens
            THEN [path |-> bip32_path, bytes |-> m_hash]
            ELSE Zero

LastSignature == IF reply.kind = "signature"
                 THEN [path |-> reply.path, bytes |-> reply.bytes]
                 ELSE Zero

Device == INSTANCE SigningDevice
          WITH PathOf <- Path \cup {Zero, Garbage},
               BytesOf <- Seq(Chunk),
               Nothing <- Zero,
               review <- TxReview,
               output <- LastSignature

(* The session implements the signing device: whatever the host sends, a
   signature is of the review the owner approved, once. *)
ImplementsDevice == Device!DeviceSpec

------------------------------------------------------------------------------
(* What the repository says of the session and the code does otherwise. *)

(* types.h calls v the parity of the y-coordinate of R: it is 1 exactly for an
   odd one.  validate.c sets v for an odd parity and never clears it. *)
ParityFresh ==
    reply.kind = "signature" => (reply.v = 1 <=> reply.odd)

(* nbgl_display_transaction.c shows TRANSACTION SIGNED; it says so when the
   signature failed as well. *)
SignedStatusIsTrue ==
    [][screen # "status_signed" /\ screen' = "status_signed" =>
          reply'.kind = "signature"]_vars
==============================================================================
