-------------------------------- MODULE Client --------------------------------
(***************************************************************************)
(* The session with the host it is written for: the command sender of      *)
(* tests/application_client/kaia_command_sender.py, which sends a path,    *)
(* then a transaction cut into chunks, and raises at the first status that *)
(* is not 9000.                                                            *)
(*                                                                         *)
(* Session lets the host send anything; here a command is the client's     *)
(* next one, so Receive is a joint step of client and application.  The    *)
(* owner's moves and the end of the application interleave as before, and  *)
(* a call may begin in whatever context the calls before it have left.     *)
(***************************************************************************)
EXTENDS Session

CONSTANT Transactions   \* the chunks of each transaction the caller signs

(* split_message: all chunks but the last are full. *)
ASSUME SplitAssumption ==
    /\ Transactions \subseteq Seq(Chunk)
    /\ \A t \in Transactions : \A i \in DOMAIN t :
           Size[t[i]] <= MAX_APDU_SIZE /\ (i < Len(t) => Size[t[i]] = MAX_APDU_SIZE)

(* P1 holds every index the client sends. *)
ASSUME IndexAssumption ==
    /\ {0, 1} \subseteq P1
    /\ \A t \in Transactions : DOMAIN t \subseteq P1

(* What a caller asks for, and is answered. *)
Answers == [method : {"signature", "pubkey", "info"}, path : Path \cup {Zero},
            bytes : Seq(Chunk)]

ASSUME AnswersAssumption == Zero \notin Answers

VARIABLES call,     \* the method that is running, with its arguments
          idx,      \* the P1 of the command it sends next, or waits for
          waiting,  \* the command was sent
          result,   \* what the last call returned or raised
          restarted \* the application ended since the last call began

clientVars == <<call, idx, waiting, result, restarted>>
allVars == <<vars, clientVars>>

------------------------------------------------------------------------------
Methods == {"sign_tx", "get_public_key", "get_public_key_with_confirmation",
            "get_app_name"}

NoCall == [method |-> "none", path |-> Zero, transaction |-> <<>>]

Calls ==
    {c \in [method : Methods, path : Path \cup {Zero},
            transaction : Transactions \cup {<<>>}] :
        /\ c.path = Zero <=> c.method = "get_app_name"
        /\ c.method = "sign_tx" \/ c.transaction = <<>>}

Apdu(ins, p1, p2, data) == [ins |-> ins, p1 |-> p1, p2 |-> p2, data |-> data]

Signing == call.method = "sign_tx"

(* Slip: the answer to a single command is taken for one to a path. *)
MoreForAll == idx = 0 \/ idx < Len(call.transaction)

(* The path is followed by chunks, and the last of them is awaited. *)
MoreToSend == Signing /\ (idx = 0 \/ idx < Len(call.transaction))

(* Only a transaction without a byte has no last chunk. *)
NothingToSend == Signing /\ idx > Len(call.transaction)

Command ==
    CASE call.method = "get_app_name" -> Apdu("GET_APP_NAME", 0, "LAST", NoData)
      [] call.method = "get_public_key" ->
             Apdu("GET_PUBLIC_KEY", 0, "LAST", call.path)
      [] call.method = "get_public_key_with_confirmation" ->
             Apdu("GET_PUBLIC_KEY", 1, "LAST", call.path)
      [] call.method = "sign_tx" ->
             Apdu("SIGN_TX", idx, IF MoreToSend THEN "MORE" ELSE "LAST",
                  IF idx = 0 THEN call.path ELSE call.transaction[idx])

------------------------------------------------------------------------------
ClientInit ==
    /\ Init
    /\ call = NoCall
    /\ idx = 0
    /\ waiting = FALSE
    /\ result = Closed
    /\ restarted = FALSE

Begin(c) ==
    /\ call = NoCall
    /\ call' = c
    /\ idx' = 0
    /\ result' = Closed
    /\ restarted' = FALSE
    /\ UNCHANGED <<vars, waiting>>

(* The command reaches the loop, which answers it or opens a review. *)
Send ==
    /\ call # NoCall /\ ~waiting /\ ~NothingToSend
    /\ Receive(Command)
    /\ waiting' = TRUE
    /\ UNCHANGED <<call, idx, result, restarted>>

(* The reply is 9000 and there is more to send. *)
Continue ==
    /\ waiting /\ reply.sw = "OK" /\ MoreToSend
    /\ idx' = idx + 1
    /\ waiting' = FALSE
    /\ UNCHANGED <<vars, call, result, restarted>>

EndCall(r) ==
    /\ result' = r
    /\ call' = NoCall
    /\ idx' = 0
    /\ waiting' = FALSE
    /\ UNCHANGED <<vars, restarted>>

(* Slip: an error is not noticed. *)
ReturnOfSuccess ==
    /\ waiting /\ reply.sw = "OK" /\ ~MoreToSend
    /\ EndCall(reply)

(* The last command is answered, or one with an error. *)
Return ==
    /\ waiting /\ reply.kind # "none"
    /\ reply.sw = "OK" => ~MoreToSend
    /\ EndCall(reply)

(* There is no application to send to, or no chunk to send. *)
Raise ==
    /\ call # NoCall /\ ~waiting
    /\ app = "closed" \/ NothingToSend
    /\ EndCall(Closed)

(* The owner's moves, and the start and the end of the application. *)
Owner ==
    /\ \/ Boot
       \/ ReviewContinue
       \/ ApproveAddress
       \/ RejectAddress
       \/ ApproveTransaction
       \/ RejectTransaction
       \/ AskRejection
       \/ GoBackToTransaction
       \/ DismissStatus
       \/ MenuAbout
    /\ UNCHANGED clientVars

Restart ==
    /\ Exit
    /\ restarted' = TRUE
    /\ UNCHANGED <<call, idx, waiting, result>>

(* The calling thread's own steps. *)
ClientStep == Send \/ Continue \/ Return \/ Raise

ClientNext ==
    \/ \E c \in Calls : Begin(c)
    \/ Send
    \/ Continue
    \/ Return
    \/ Raise
    \/ Owner
    \/ Restart

ClientSpec == ClientInit /\ [][ClientNext]_allVars

(* The client goes on with a call it has begun, and the owner taps through a
   review, as in Session. *)
ClientFairSpec ==
    /\ ClientSpec
    /\ WF_allVars(ClientStep)
    /\ WF_allVars(ReviewContinue /\ UNCHANGED clientVars)
    /\ SF_allVars(Decide /\ UNCHANGED clientVars)

------------------------------------------------------------------------------
(* Properties. *)

FitsBuffer == BytesIn(call.transaction) <= MAX_TRANSACTION_LEN

ClientTypeOK ==
    /\ call \in Calls \cup {NoCall}
    /\ idx \in 0 .. Len(call.transaction) + 1
    /\ waiting \in BOOLEAN
    /\ result \in Reply
    /\ restarted \in BOOLEAN
    /\ waiting => call # NoCall
    /\ idx # 0 => Signing
    /\ waiting => ~NothingToSend

(* A transaction that fits the buffer, of at most P1_MAX chunks, is not refused
   for what the session is in or how it was sent, whatever earlier calls have
   left behind; one that does not fit is not signed in part. *)
WellSentIsTaken ==
    waiting /\ Signing /\ ~restarted =>
        /\ Len(call.transaction) <= P1_MAX /\ FitsBuffer =>
              reply.sw \notin {"WRONG_P1P2", "WRONG_DATA_LENGTH", "WRONG_TX_LENGTH",
                               "BAD_STATE", "INS_NOT_SUPPORTED"}
        /\ ~FitsBuffer => reply.kind # "signature"

(* A call that gave a signature says the parity of that very signature. *)
ParityOfCall ==
    result.kind = "signature" => (result.v = 1 <=> result.odd)

(* A call comes back, unless the parser does not. *)
CallReturns == call # NoCall ~> (call = NoCall \/ app = "stuck")

(* The refinement: what a call asks for, and what it returned. *)
Request ==
    IF call = NoCall THEN Zero
    ELSE [method |-> IF Signing THEN "signature"
                     ELSE IF call.method = "get_app_name" THEN "info" ELSE "pubkey",
          path |-> call.path, bytes |-> call.transaction]

AnswerOf(r) ==
    IF r.kind \in {"signature", "pubkey", "info"}
    THEN [method |-> r.kind, path |-> r.path, bytes |-> r.bytes]
    ELSE Zero

Exchange == INSTANCE SigningExchange
            WITH Requests <- Answers,
                 Nothing <- Zero,
                 request <- Request,
                 answer <- AnswerOf(result)

(* Client and application together implement the exchange: what a call returns
   is of that call, though the session that gives it was assembled from several
   commands in a context shared with all calls before. *)
ImplementsExchange == Exchange!ExchangeSpec

------------------------------------------------------------------------------
(* What the repository says of the client's commands and the code does
   otherwise. *)

(* The command's P1 is a chunk index from 00 to FF, says APP_SPECIFICATION.md:
   no chunk of a transaction that fits the buffer is refused for its index.
   P1_MAX is the buffer's size over a chunk's, rounded down: the last chunk of
   a transaction that all but fills the buffer is one too many. *)
IndexIsTaken == waiting /\ Signing /\ FitsBuffer => reply.sw # "WRONG_P1P2"
==============================================================================
