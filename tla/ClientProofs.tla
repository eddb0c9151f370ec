----------------------------- MODULE ClientProofs -----------------------------
(***************************************************************************)
(* Theorems about Client: it is a Session, so that all that is proved of   *)
(* Session holds of it; what a call returns is of that call; and the       *)
(* parity it returns is that of the signature.                             *)
(***************************************************************************)
EXTENDS Client, SessionProofs

LEMMA TransactionTypes ==
    \A t \in Transactions \cup {<<>>} : t \in Seq(Chunk) /\ DOMAIN t \subseteq P1
<1>1. <<>> \in Seq(Chunk) /\ DOMAIN <<>> = {}
  OBVIOUS
<1>2. Transactions \subseteq Seq(Chunk)
  BY SplitAssumption
<1> QED BY <1>1, <1>2, IndexAssumption

LEMMA CallTypes ==
    ASSUME ClientTypeOK, call # NoCall
    PROVE  /\ call \in Calls /\ call.method \in Methods
           /\ call.transaction \in Seq(Chunk)
           /\ call.method # "get_app_name" => call.path \in Path
           /\ call.method = "get_app_name" => call.path = Zero
           /\ call.method # "sign_tx" => call.transaction = <<>>
           /\ \A i \in DOMAIN call.transaction :
                  call.transaction[i] \in Chunk /\ i \in P1
           /\ idx \in Nat /\ Len(call.transaction) \in Nat
<1>1. call \in Calls
  BY DEF ClientTypeOK
<1>2. call.transaction \in Transactions \cup {<<>>}
  BY <1>1 DEF Calls
<1>3. call.transaction \in Seq(Chunk) /\ DOMAIN call.transaction \subseteq P1
  BY <1>2, TransactionTypes
<1>4. \A i \in DOMAIN call.transaction : call.transaction[i] \in Chunk /\ i \in P1
  BY <1>3
<1>5. idx \in Nat /\ Len(call.transaction) \in Nat
  BY <1>3 DEF ClientTypeOK
<1>6. /\ call.method = "get_app_name" <=> call.path = Zero
      /\ call.path \in Path \cup {Zero} /\ call.method \in Methods
      /\ call.method = "sign_tx" \/ call.transaction = <<>>
  BY <1>1 DEF Calls
<1> QED BY <1>1, <1>3, <1>4, <1>5, <1>6

(* What the client sends for each method. *)
LEMMA CommandSent ==
    ASSUME ClientTypeOK, call # NoCall, ~NothingToSend
    PROVE  /\ Command \in Commands
           /\ call.method = "get_app_name" =>
                 Command = Apdu("GET_APP_NAME", 0, "LAST", NoData)
           /\ call.method = "get_public_key" =>
                 Command = Apdu("GET_PUBLIC_KEY", 0, "LAST", call.path)
           /\ call.method = "get_public_key_with_confirmation" =>
                 Command = Apdu("GET_PUBLIC_KEY", 1, "LAST", call.path)
           /\ Signing /\ idx = 0 =>
                 Command = Apdu("SIGN_TX", 0, "MORE", call.path)
           /\ Signing /\ idx # 0 =>
                 /\ Command = Apdu("SIGN_TX", idx, IF MoreToSend THEN "MORE" ELSE "LAST",
                                   call.transaction[idx])
                 /\ idx \in DOMAIN call.transaction
<1>1. CASE call.method = "get_app_name"
  <2>1. Command = Apdu("GET_APP_NAME", 0, "LAST", NoData)
    BY <1>1 DEF Command
  <2> QED
    BY <1>1, <2>1, IndexAssumption
       DEF Apdu, Commands, Ins, P2_VALUES, Payload, Signing
<1>2. CASE call.method = "get_public_key"
  <2>1. Command = Apdu("GET_PUBLIC_KEY", 0, "LAST", call.path)
    BY <1>2 DEF Command
  <2> QED
    BY <1>2, <2>1, CallTypes, IndexAssumption
       DEF Apdu, Commands, Ins, P2_VALUES, Payload, Signing
<1>3. CASE call.method = "get_public_key_with_confirmation"
  <2>1. Command = Apdu("GET_PUBLIC_KEY", 1, "LAST", call.path)
    BY <1>3 DEF Command
  <2> QED
    BY <1>3, <2>1, CallTypes, IndexAssumption
       DEF Apdu, Commands, Ins, P2_VALUES, Payload, Signing
<1>4. CASE Signing /\ idx = 0
  <2>1. Command = Apdu("SIGN_TX", 0, "MORE", call.path) /\ call.path \in Path
    BY <1>4, CallTypes DEF Command, MoreToSend, Signing
  <2> QED
    BY <1>4, <2>1, IndexAssumption
       DEF Apdu, Commands, Ins, P2_VALUES, Payload, Signing
<1>5. CASE Signing /\ idx # 0
  <2>1. idx \in DOMAIN call.transaction
    BY <1>5, CallTypes DEF NothingToSend
  <2>2. /\ Command = Apdu("SIGN_TX", idx, IF MoreToSend THEN "MORE" ELSE "LAST",
                          call.transaction[idx])
        /\ call.transaction[idx] \in Chunk /\ idx \in P1
    BY <1>5, <2>1, CallTypes DEF Command, Signing
  <2> QED
    BY <1>5, <2>1, <2>2
       DEF Apdu, Commands, Ins, P2_VALUES, Payload, Signing
<1> QED
  BY <1>1, <1>2, <1>3, <1>4, <1>5, CallTypes DEF Methods, Signing

------------------------------------------------------------------------------
(* Every step of client and application is a step of a session. *)

LEMMA ClientStepOfSession ==
    ASSUME ClientTypeOK, [ClientNext]_allVars PROVE [Next]_vars
<1>1. CASE Send
  BY <1>1, CommandSent DEF Send, Next
<1>2. CASE Owner
  BY <1>2 DEF Owner, Next
<1>3. CASE Restart
  BY <1>3 DEF Restart, Next
<1>4. CASE Continue \/ Return \/ Raise \/ (\E c \in Calls : Begin(c))
  BY <1>4 DEF Continue, Return, Raise, Begin, EndCall
<1>5. CASE UNCHANGED allVars
  BY <1>5 DEF allVars
<1> QED BY <1>1, <1>2, <1>3, <1>4, <1>5 DEF ClientNext

LEMMA ClientTypeNext ==
    ASSUME TypeOK, ClientTypeOK, [ClientNext]_allVars PROVE ClientTypeOK'
<1>1. NoCall.transaction = <<>> /\ NoCall.method = "none" /\ Len(<<>>) = 0
  BY DEF NoCall
<1>2. ASSUME NEW c \in Calls, Begin(c) PROVE ClientTypeOK'
  <2>1. c.transaction \in Seq(Chunk)
    BY TransactionTypes DEF Calls
  <2>2. /\ call' = c /\ idx' = 0 /\ result' = Closed /\ restarted' = FALSE
        /\ waiting' = FALSE
    BY <1>2, CallTypes DEF Begin, ClientTypeOK
  <2>3. 0 \in 0 .. Len(c.transaction) + 1
    BY <2>1
  <2> QED BY <2>2, <2>3, ReplyTypes DEF ClientTypeOK
<1>3. CASE Send
  BY <1>3 DEF Send, ClientTypeOK, NothingToSend, Signing
<1>4. CASE Continue
  <2>1. call # NoCall /\ waiting
    BY <1>4 DEF Continue, ClientTypeOK
  <2>2. idx \in Nat /\ Len(call.transaction) \in Nat
    BY <2>1, CallTypes
  <2>3. idx' = idx + 1 /\ waiting' = FALSE /\ UNCHANGED <<call, result, restarted>>
        /\ Signing /\ (idx = 0 \/ idx < Len(call.transaction))
    BY <1>4 DEF Continue, MoreToSend
  <2>4. idx' \in 0 .. Len(call'.transaction) + 1
    BY <2>2, <2>3
  <2> QED
    BY <2>3, <2>4 DEF ClientTypeOK, Signing
<1>5. ASSUME NEW r \in Reply, EndCall(r) PROVE ClientTypeOK'
  <2>1. /\ call' = NoCall /\ idx' = 0 /\ waiting' = FALSE /\ result' \in Reply
        /\ restarted' \in BOOLEAN
    BY <1>5 DEF EndCall, ClientTypeOK
  <2>2. 0 \in 0 .. Len(NoCall.transaction) + 1
    BY <1>1
  <2> QED BY <2>1, <2>2 DEF ClientTypeOK
<1>6. CASE Return \/ Raise
  BY <1>5, <1>6, ReplyTypes DEF Return, Raise, TypeOK
<1>7. CASE Owner \/ UNCHANGED allVars
  BY <1>7 DEF Owner, allVars, clientVars, ClientTypeOK, NothingToSend, Signing
<1>8. CASE Restart
  BY <1>8 DEF Restart, ClientTypeOK, NothingToSend, Signing
<1> QED BY <1>2, <1>3, <1>4, <1>6, <1>7, <1>8 DEF ClientNext

LEMMA ClientTypeInit == ClientInit => ClientTypeOK
<1>1. NoCall.transaction = <<>> /\ Len(<<>>) = 0
  BY DEF NoCall
<1>2. 0 \in 0 .. Len(NoCall.transaction) + 1
  BY <1>1
<1> QED BY <1>2, ReplyTypes DEF ClientInit, ClientTypeOK

LEMMA ClientInvariant == ClientSpec => [](TypeOK /\ ClientTypeOK)
<1>1. ClientInit => TypeOK
  BY ReplyTypes, SizeAssumption DEF ClientInit, Init, TypeOK, Screens
<1>2. TypeOK /\ ClientTypeOK /\ [ClientNext]_allVars => TypeOK' /\ ClientTypeOK'
  BY ClientStepOfSession, TypeNext, ClientTypeNext
<1> QED BY <1>1, <1>2, ClientTypeInit, PTL DEF ClientSpec

(* The client never asks for a chunk it does not have, whatever the answers
   and whenever the application ends. *)
THEOREM ClientTypeCorrect == ClientSpec => []ClientTypeOK
BY ClientInvariant, PTL

(* Whatever holds of every session holds of one with this client: its commands
   are among those a session is prepared for. *)
THEOREM ClientIsSession == ClientSpec => Spec
<1>1. ClientInit => Init
  BY DEF ClientInit
<1>2. ClientTypeOK /\ [ClientNext]_allVars => [Next]_vars
  BY ClientStepOfSession
<1> QED BY <1>1, <1>2, ClientTypeCorrect, PTL DEF ClientSpec, Spec

------------------------------------------------------------------------------
(* What a call returns is of that call. *)

(* The session is the call's: its path, its first n chunks, not signed yet. *)
Sent(t, n) == [i \in 1..n |-> t[i]]

InSession(n) ==
    /\ bip32_path = call.path
    /\ raw_tx = Sent(call.transaction, n)
    /\ v = 0

Taking == app = "running" /\ req_type = "CONFIRM_TRANSACTION"

CallInv ==
    /\ app = "running" /\ reply.kind = "none" => waiting
    /\ Taking /\ Signing /\ ~waiting /\ idx # 0 => InSession(idx - 1)
    /\ Taking /\ waiting /\ reply.sw = "OK" /\ MoreToSend => InSession(idx)
    /\ app = "running" /\ waiting /\ screen \in TxScreens =>
          Signing /\ ~MoreToSend /\ InSession(Len(call.transaction))
    /\ app = "running" /\ waiting /\ screen \in AddressScreens =>
          call.method = "get_public_key_with_confirmation" /\ pk = call.path
    /\ waiting => AnswerOf(reply) \in {Request, Zero}

LEMMA SentFacts ==
    ASSUME NEW t \in Seq(Chunk)
    PROVE  /\ Sent(t, 0) = <<>>
           /\ Sent(t, Len(t)) = t
           /\ \A k \in 1..Len(t) : Append(Sent(t, k - 1), t[k]) = Sent(t, k)
<1>1. Sent(t, 0) = <<>>
  BY DEF Sent
<1>2. Sent(t, Len(t)) = t
  BY DEF Sent
<1>3. ASSUME NEW k \in 1..Len(t)
      PROVE  Append(Sent(t, k - 1), t[k]) = Sent(t, k)
  <2>1. k \in Nat /\ k - 1 \in Nat /\ \A i \in 1..k : t[i] \in Chunk
    OBVIOUS
  <2>2. Sent(t, k - 1) \in Seq(Chunk) /\ Len(Sent(t, k - 1)) = k - 1
    BY <2>1 DEF Sent
  <2>3. Sent(t, k) \in Seq(Chunk) /\ Len(Sent(t, k)) = k
    BY <2>1 DEF Sent
  <2>4. \A i \in 1..k : Append(Sent(t, k - 1), t[k])[i] = Sent(t, k)[i]
    BY <2>1, <2>2 DEF Sent
  <2> QED BY <2>2, <2>3, <2>4
<1> QED BY <1>1, <1>2, <1>3

(* What sending the next command of a call comes to. *)
LEMMA SendOutcome ==
    ASSUME TypeOK, ClientTypeOK, call # NoCall, ~NothingToSend, Receive(Command)
    PROVE  \/ \E sw \in StatusWords \ {"OK"} : Refuse(sw)
           \/ /\ call.method = "get_app_name"
              /\ Answer(Info) /\ UNCHANGED <<app, context>>
           \/ /\ call.method = "get_public_key"
              /\ HandlerGetPublicKey(call.path, FALSE)
           \/ /\ call.method = "get_public_key_with_confirmation"
              /\ HandlerGetPublicKey(call.path, TRUE)
           \/ Signing /\ idx = 0 /\ SignTxFirst(call.path)
           \/ /\ Signing /\ idx \in DOMAIN call.transaction
              /\ req_type = "CONFIRM_TRANSACTION"
              /\ AppendChunk(call.transaction[idx])
              /\ IF MoreToSend
                 THEN /\ Answer(Status("OK"))
                      /\ UNCHANGED <<app, state, transaction, m_hash>>
                 ELSE ParseAndDisplay
<1> DEFINE Refusal == \E sw \in StatusWords \ {"OK"} : Refuse(sw)
<1>1. \A sw \in StatusWords \ {"OK"} : Refuse(sw) => Refusal
  OBVIOUS
<1>2. SUFFICES ASSUME ~Refusal
               PROVE  \/ /\ call.method = "get_app_name"
                         /\ Answer(Info) /\ UNCHANGED <<app, context>>
                      \/ /\ call.method = "get_public_key"
                         /\ HandlerGetPublicKey(call.path, FALSE)
                      \/ /\ call.method = "get_public_key_with_confirmation"
                         /\ HandlerGetPublicKey(call.path, TRUE)
                      \/ Signing /\ idx = 0 /\ SignTxFirst(call.path)
                      \/ /\ Signing /\ idx \in DOMAIN call.transaction
                         /\ req_type = "CONFIRM_TRANSACTION"
                         /\ AppendChunk(call.transaction[idx])
                         /\ IF MoreToSend
                            THEN /\ Answer(Status("OK"))
                                 /\ UNCHANGED <<app, state, transaction, m_hash>>
                            ELSE ParseAndDisplay
  OBVIOUS
<1> HIDE DEF Refusal
<1>3. ~Refuse("WRONG_P1P2") /\ ~Refuse("WRONG_DATA_LENGTH") /\ ~Refuse("BAD_STATE")
      /\ ~Refuse("WRONG_TX_LENGTH")
  BY <1>1, <1>2 DEF StatusWords
<1>4. Dispatch(Command)
  BY DEF Receive
<1>5. CASE call.method = "get_app_name"
  <2>1. Command = Apdu("GET_APP_NAME", 0, "LAST", NoData)
    BY <1>5, CommandSent
  <2> QED BY <1>3, <1>4, <1>5, <2>1 DEF Dispatch, Apdu
<1>6. CASE call.method = "get_public_key"
  <2>1. Command = Apdu("GET_PUBLIC_KEY", 0, "LAST", call.path)
    BY <1>6, CommandSent
  <2>2. HandlerGetPublicKey(Command.data, Command.p1 = 1)
    BY <1>3, <1>4, <1>6, <2>1 DEF Dispatch, Apdu
  <2>3. Command.data = call.path /\ Command.p1 = 0
    BY <2>1 DEF Apdu
  <2>4. ~(Command.p1 = 1)
    BY <2>3
  <2>5. HandlerGetPublicKey(call.path, FALSE)
    BY <2>2, <2>3, <2>4 DEF HandlerGetPublicKey
  <2> QED BY <1>6, <2>5
<1>7. CASE call.method = "get_public_key_with_confirmation"
  <2>1. Command = Apdu("GET_PUBLIC_KEY", 1, "LAST", call.path)
    BY <1>7, CommandSent
  <2> QED BY <1>3, <1>4, <1>7, <2>1 DEF Dispatch, Apdu
<1>8. CASE Signing /\ idx = 0
  <2>1. Command = Apdu("SIGN_TX", 0, "MORE", call.path)
    BY <1>8, CommandSent
  <2> QED BY <1>3, <1>4, <1>8, <2>1 DEF Dispatch, HandlerSignTx, Apdu
<1>9. CASE Signing /\ idx # 0
  <2>1. /\ Command = Apdu("SIGN_TX", idx, IF MoreToSend THEN "MORE" ELSE "LAST",
                          call.transaction[idx])
        /\ idx \in DOMAIN call.transaction
    BY <1>9, CommandSent
  <2>2. SignTxChunk(call.transaction[idx], MoreToSend)
    <3>1. SignTxChunk(Command.data, Command.p2 = "MORE")
      BY <1>3, <1>4, <1>9, <2>1 DEF Dispatch, HandlerSignTx, Apdu
    <3>2. Command.data = call.transaction[idx] /\ (Command.p2 = "MORE" <=> MoreToSend)
      BY <2>1 DEF Apdu
    <3> QED BY <3>1, <3>2 DEF SignTxChunk
  <2> QED BY <1>3, <1>9, <2>1, <2>2 DEF SignTxChunk
<1> QED
  BY <1>5, <1>6, <1>7, <1>8, <1>9, CallTypes DEF Methods, Signing

LEMMA ReplyAnswers ==
    /\ \A sw : AnswerOf(Status(sw)) = Zero
    /\ AnswerOf(NoReply) = Zero /\ AnswerOf(Closed) = Zero
    /\ AnswerOf(Info) = [method |-> "info", path |-> Zero, bytes |-> <<>>]
    /\ \A key : AnswerOf(PubKey(key)) =
                    [method |-> "pubkey", path |-> key, bytes |-> <<>>]
    /\ \A path, hash, parity, odd :
          AnswerOf(Signature(path, hash, parity, odd)) =
             [method |-> "signature", path |-> path, bytes |-> hash]
    /\ NoReply.sw = "NONE" /\ Closed.sw = "NONE"
BY DEF AnswerOf, Status, NoReply, Closed, Info, PubKey, Signature

LEMMA RequestOfCall ==
    ASSUME ClientTypeOK, call # NoCall
    PROVE  /\ call.method = "get_app_name" =>
                 Request = [method |-> "info", path |-> Zero, bytes |-> <<>>]
           /\ call.method \in {"get_public_key", "get_public_key_with_confirmation"} =>
                 Request = [method |-> "pubkey", path |-> call.path, bytes |-> <<>>]
           /\ Signing =>
                 Request = [method |-> "signature", path |-> call.path,
                            bytes |-> call.transaction]
BY CallTypes DEF Request, Signing

(* No review is open when a command is sent. *)
LEMMA SendInv ==
    ASSUME TypeOK, ClientTypeOK, ShownInv, CallInv, HalfDuplex, Send
    PROVE  CallInv'
<1>1. /\ app = "running" /\ reply.kind # "none"
      /\ call # NoCall /\ ~waiting /\ ~NothingToSend /\ Receive(Command)
      /\ waiting' /\ UNCHANGED <<call, idx>>
  BY DEF Send, Receive
<1>2. screen \notin AddressScreens \cup TxScreens
  BY <1>1 DEF ShownInv, WaitingHasReview, ReviewOpen
<1>3. /\ (MoreToSend' <=> MoreToSend) /\ (Signing' <=> Signing) /\ Request' = Request
  BY <1>1 DEF MoreToSend, Signing, Request
<1>4. AddressScreens \cap TxScreens = {}
  BY DEF AddressScreens, TxScreens
<1>5. CASE \E sw \in StatusWords \ {"OK"} : Refuse(sw)
  BY <1>1, <1>2, <1>5, ReplyKinds, ReplyAnswers DEF CallInv, Refuse, Answer
<1>6. CASE call.method = "get_app_name" /\ Answer(Info) /\ UNCHANGED <<app, context>>
  <2>1. ~Signing /\ ~MoreToSend
    BY <1>6 DEF Signing, MoreToSend
  <2>2. AnswerOf(reply)' = Request'
    BY <1>1, <1>3, <1>6, RequestOfCall, ReplyAnswers DEF Answer
  <2> QED
    BY <1>1, <1>2, <1>3, <1>6, <2>1, <2>2, ReplyKinds DEF CallInv, Answer
<1>7. ASSUME call.method \in {"get_public_key", "get_public_key_with_confirmation"},
             HandlerGetPublicKey(call.path, FALSE)
             \/ /\ call.method = "get_public_key_with_confirmation"
                /\ HandlerGetPublicKey(call.path, TRUE)
      PROVE  CallInv'
  <2>1. ~Signing /\ ~MoreToSend /\ call.path \in Path
    BY <1>1, <1>7, CallTypes DEF Signing, MoreToSend
  <2>2. /\ state' = "NONE" /\ req_type' = "CONFIRM_ADDRESS"
        /\ app' = app
    BY <1>7, TypeZero DEF HandlerGetPublicKey
  <2>3. \/ screen' = screen /\ \E sw \in StatusWords : reply' = Status(sw)
        \/ screen' = screen /\ reply' = PubKey(call.path)
        \/ /\ call.method = "get_public_key_with_confirmation"
           /\ screen' \in AddressScreens /\ pk' = call.path /\ reply' = NoReply
    BY <1>7, <2>1, <2>2
       DEF HandlerGetPublicKey, UiDisplayAddress, Answer, StatusWords, AddressScreens
  <2>4. AnswerOf(reply)' \in {Request', Zero}
    BY <1>1, <1>3, <1>7, <2>3, RequestOfCall, ReplyAnswers
  <2> QED
    BY <1>1, <1>2, <1>3, <1>4, <2>1, <2>2, <2>3, <2>4 DEF CallInv, Taking
<1>8. CASE Signing /\ idx = 0 /\ SignTxFirst(call.path)
  <2>1. call.path \in Path /\ call.transaction \in Seq(Chunk)
    BY <1>1, <1>8, CallTypes DEF Signing
  <2>2. /\ bip32_path' = call.path /\ raw_tx' = <<>> /\ v' = 0
        /\ screen' = screen /\ reply' = Status("OK")
    BY <1>8, <2>1, TypeZero DEF SignTxFirst, ReadPath, Answer
  <2>3. InSession(idx)'
    BY <1>1, <1>8, <2>1, <2>2, SentFacts DEF InSession
  <2> QED
    BY <1>1, <1>2, <2>2, <2>3, ReplyKinds, ReplyAnswers DEF CallInv
<1>9. CASE /\ Signing /\ idx \in DOMAIN call.transaction
           /\ req_type = "CONFIRM_TRANSACTION"
           /\ AppendChunk(call.transaction[idx])
           /\ IF MoreToSend
              THEN /\ Answer(Status("OK"))
                   /\ UNCHANGED <<app, state, transaction, m_hash>>
              ELSE ParseAndDisplay
  <2>1. /\ call.transaction \in Seq(Chunk) /\ idx \in 1..Len(call.transaction)
        /\ idx \in Nat /\ Len(call.transaction) \in Nat
    BY <1>1, <1>9, CallTypes
  <2>2. InSession(idx - 1)
    BY <1>1, <1>9, <2>1 DEF CallInv, Taking
  <2>3. /\ raw_tx' = Append(raw_tx, call.transaction[idx])
        /\ bip32_path' = bip32_path /\ v' = v
    BY <1>9 DEF AppendChunk
  <2>4. InSession(idx)'
    BY <1>1, <2>1, <2>2, <2>3, SentFacts DEF InSession
  <2>5. CASE MoreToSend
    BY <1>1, <1>2, <1>9, <2>4, <2>5, ReplyKinds, ReplyAnswers DEF CallInv, Answer
  <2>6. CASE ~MoreToSend
    <3>1. idx = Len(call.transaction)
      BY <1>9, <2>1, <2>6 DEF MoreToSend
    <3>2. UiDisplayTransaction(StateOnceParsed) =>
             \/ screen' = screen /\ \E sw \in StatusWords : reply' = Status(sw)
             \/ screen' \in TxScreens /\ reply' = NoReply
      BY DEF UiDisplayTransaction, Answer, StatusWords, TxScreens
    <3>3. \/ screen' = screen /\ \E sw \in StatusWords : reply' = Status(sw)
          \/ screen' = screen /\ reply' = NoReply
          \/ screen' \in TxScreens /\ reply' = NoReply
      BY <1>9, <2>6, <3>2 DEF ParseAndDisplay, Answer, StatusWords
    <3>4. AnswerOf(reply)' = Zero
      BY <3>3, ReplyAnswers
    <3> QED
      BY <1>1, <1>2, <1>3, <1>4, <1>9, <2>4, <2>6, <3>1, <3>3, <3>4 DEF CallInv
  <2> QED BY <2>5, <2>6
<1> QED
  BY <1>1, <1>5, <1>6, <1>7, <1>8, <1>9, SendOutcome

(* An owner's move changes nothing of the session but v, and answers only from
   a review. *)
LEMMA OwnerInv ==
    ASSUME TypeOK, ClientTypeOK, ShownInv, CallInv, Owner
    PROVE  CallInv'
<1>1. /\ UNCHANGED <<call, idx, waiting, result, restarted>>
      /\ MoreToSend' = MoreToSend /\ Signing' = Signing /\ Request' = Request
  BY DEF Owner, clientVars, MoreToSend, Signing, Request
<1>2. ReviewOpen /\ app = "running" => waiting /\ call # NoCall /\ reply.kind = "none"
  BY DEF ShownInv, WaitingHasReview, CallInv, ClientTypeOK
<1>3. \A status \in StatusScreens :
        AfterAnswer(status) \notin AddressScreens \cup TxScreens
  BY DEF AfterAnswer, StatusScreens, AddressScreens, TxScreens
<1>4. CASE Boot
  <2>1. /\ app' = "running" /\ req_type' = "CONFIRM_ADDRESS" /\ screen' = "menu"
        /\ reply' = reply /\ reply = Closed
    BY <1>4, TypeZero DEF Boot, Cleared, ShownInv
  <2> QED
    BY <1>1, <2>1, ReplyKinds, ReplyAnswers
       DEF CallInv, Taking, AddressScreens, TxScreens
<1>5. CASE ReviewContinue \/ AskRejection \/ GoBackToTransaction
  <2>1. /\ UNCHANGED <<app, req_type, bip32_path, raw_tx, v, pk, reply>>
        /\ screen' \in AddressScreens => screen \in AddressScreens
        /\ screen' \in TxScreens => screen \in TxScreens
    BY <1>5 DEF ReviewContinue, AskRejection, GoBackToTransaction, context,
                AddressScreens, TxScreens
  <2> QED BY <1>1, <2>1 DEF CallInv, Taking, InSession
<1>6. CASE DismissStatus \/ MenuAbout
  <2>1. /\ UNCHANGED <<app, req_type, bip32_path, raw_tx, v, pk, reply>>
        /\ screen' \notin AddressScreens \cup TxScreens
    BY <1>6 DEF DismissStatus, MenuAbout, context, AddressScreens, TxScreens
  <2> QED BY <1>1, <2>1 DEF CallInv, Taking, InSession
<1>7. CASE ApproveAddress \/ RejectAddress
  <2>1. /\ app' = "running" /\ app = "running" /\ screen \in AddressScreens
        /\ reply' = PubKey(pk) \/ reply' = Status("DENY")
        /\ screen' \notin AddressScreens \cup TxScreens
    BY <1>3, <1>7 DEF ApproveAddress, RejectAddress, AddressScreens, StatusScreens
  <2>2. /\ waiting /\ call # NoCall
        /\ call.method = "get_public_key_with_confirmation" /\ pk = call.path
    BY <1>2, <2>1 DEF CallInv, ReviewOpen
  <2>3. AnswerOf(reply)' \in {Request', Zero}
    BY <1>1, <2>1, <2>2, RequestOfCall, ReplyAnswers
  <2>4. ~MoreToSend
    BY <2>2 DEF MoreToSend, Signing
  <2> QED BY <1>1, <2>1, <2>2, <2>3, <2>4, ReplyKinds DEF CallInv
<1>8. CASE ApproveTransaction \/ RejectTransaction
  <2>1. /\ app' = "running" /\ app = "running" /\ screen \in TxScreens
        /\ UNCHANGED <<bip32_path, raw_tx>>
        /\ \/ \E parity, odd : reply' = Signature(bip32_path, m_hash, parity, odd)
           \/ \E sw \in StatusWords : reply' = Status(sw)
        /\ screen' \notin AddressScreens \cup TxScreens
    BY <1>3, <1>8
       DEF ApproveTransaction, RejectTransaction, TxScreens, StatusScreens, StatusWords
  <2>2. /\ waiting /\ call # NoCall /\ Signing /\ ~MoreToSend
        /\ InSession(Len(call.transaction))
    BY <1>2, <2>1 DEF CallInv, ReviewOpen
  <2>3. m_hash = call.transaction
    <3>1. m_hash = raw_tx
      BY <2>1 DEF ShownInv, ReviewMatchesContext
    <3>2. raw_tx = Sent(call.transaction, Len(call.transaction))
      BY <2>2 DEF InSession
    <3> QED BY <2>2, <3>1, <3>2, CallTypes, SentFacts
  <2>4. bip32_path = call.path
    BY <2>2 DEF InSession
  <2>5. AnswerOf(reply)' \in {Request', Zero}
    BY <1>1, <2>1, <2>2, <2>3, <2>4, RequestOfCall, ReplyAnswers
  <2>6. reply'.kind # "none"
    BY <2>1, ReplyKinds
  <2> QED BY <1>1, <2>1, <2>2, <2>5, <2>6 DEF CallInv
<1> QED
  BY <1>4, <1>5, <1>6, <1>7, <1>8 DEF Owner

LEMMA CallInvNext ==
    ASSUME TypeOK, ClientTypeOK, ShownInv, CallInv, HalfDuplex,
           [ClientNext]_allVars
    PROVE  CallInv'
<1>1. ASSUME NEW c \in Calls, Begin(c) PROVE CallInv'
  <2>1. /\ ~waiting /\ waiting' = FALSE /\ idx' = 0 /\ UNCHANGED vars
    BY <1>1 DEF Begin, ClientTypeOK
  <2> QED BY <2>1 DEF CallInv, vars
<1>2. CASE Continue
  <2>1. /\ waiting /\ reply.sw = "OK" /\ MoreToSend /\ call # NoCall
        /\ idx' = idx + 1 /\ waiting' = FALSE /\ call' = call
        /\ UNCHANGED vars
    BY <1>2 DEF Continue, ClientTypeOK
  <2>2. idx \in Nat /\ idx' - 1 = idx
    BY <2>1, CallTypes
  <2>3. app = "running" => reply.kind # "none"
    BY <2>1 DEF CallInv, ShownInv, WaitingHasReview, ReviewOpen, Signing, MoreToSend
  <2>4. Taking => InSession(idx)
    BY <2>1 DEF CallInv
  <2> QED BY <2>1, <2>2, <2>3, <2>4 DEF CallInv, vars, context, Taking, InSession
<1>3. ASSUME NEW r, EndCall(r), reply.kind # "none" \/ app # "running" PROVE CallInv'
  <2>1. /\ waiting' = FALSE /\ call' = NoCall /\ UNCHANGED vars
    BY <1>3 DEF EndCall
  <2>2. ~Signing'
    BY <2>1 DEF Signing, NoCall
  <2> QED BY <1>3, <2>1, <2>2 DEF CallInv, vars
<1>4. CASE Return
  BY <1>3, <1>4 DEF Return
<1>5. CASE Raise
  BY <1>3, <1>5 DEF Raise, CallInv
<1>6. CASE Restart
  <2>1. app' = "closed" /\ reply' = Closed
    BY <1>6 DEF Restart, Exit
  <2> QED BY <2>1, ReplyAnswers DEF CallInv, Taking
<1>7. CASE UNCHANGED allVars
  <2>1. UNCHANGED <<app, req_type, bip32_path, raw_tx, v, pk, reply, screen,
                    call, idx, waiting>>
    BY <1>7 DEF allVars, vars, clientVars, context
  <2> QED
    BY <2>1 DEF CallInv, Taking, InSession, MoreToSend, Signing, Request
<1> QED
  BY <1>1, <1>2, <1>4, <1>5, <1>6, <1>7, SendInv, OwnerInv DEF ClientNext

LEMMA CallInvariant ==
    ASSUME HalfDuplex
    PROVE  ClientSpec => [](TypeOK /\ ClientTypeOK /\ ShownInv /\ CallInv)
<1>1. ClientInit => CallInv
  BY ReplyAnswers DEF ClientInit, Init, CallInv, Taking
<1>2. TypeOK /\ ClientTypeOK /\ ShownInv /\ CallInv /\ [ClientNext]_allVars
      => CallInv'
  BY CallInvNext
<1> QED
  BY <1>1, <1>2, ClientInvariant, ClientIsSession, ShownInvariant, PTL
     DEF ClientSpec

------------------------------------------------------------------------------
(* The refinement of SigningExchange. *)

LEMMA ExchangeStep ==
    ASSUME TypeOK, ClientTypeOK, CallInv, [ClientNext]_allVars
    PROVE  [Exchange!ExchangeNext]_<<Request, AnswerOf(result)>>
<1>1. ASSUME NEW c \in Calls, Begin(c)
      PROVE  Exchange!Ask
  <2>1. call = NoCall /\ call' = c /\ result' = Closed
    BY <1>1 DEF Begin
  <2>2. Request = Zero /\ AnswerOf(result)' = Zero
    BY <2>1, ReplyAnswers DEF Request
  <2>3. /\ c # NoCall /\ c.transaction \in Seq(Chunk)
        /\ c.path \in Path \cup {Zero}
    BY TransactionTypes DEF Calls, NoCall, Methods
  <2>4. Request' \in Answers
    BY <2>1, <2>3 DEF Request, Answers
  <2> QED BY <2>2, <2>4 DEF Exchange!Ask
<1>2. ASSUME NEW r, EndCall(r), call # NoCall, AnswerOf(r) \in {Request, Zero}
      PROVE  Exchange!Return
  <2>1. call' = NoCall /\ result' = r
    BY <1>2 DEF EndCall
  <2>2. Request \in Answers
    BY <1>2, CallTypes DEF Request, Answers
  <2>3. Request # Zero
    BY <2>2, AnswersAssumption
  <2>4. Request' = Zero
    BY <2>1 DEF Request
  <2> QED BY <1>2, <2>1, <2>3, <2>4 DEF Exchange!Return
<1>3. CASE Return
  BY <1>2, <1>3 DEF Return, CallInv, ClientTypeOK, Exchange!ExchangeNext
<1>4. CASE Raise
  BY <1>2, <1>4, ReplyAnswers DEF Raise, Exchange!ExchangeNext
<1>5. CASE Send \/ Continue \/ Owner \/ Restart \/ UNCHANGED allVars
  <2>1. UNCHANGED <<call, result>>
    BY <1>5 DEF Send, Continue, Owner, Restart, allVars, clientVars
  <2> QED BY <2>1 DEF Request, Signing
<1> QED
  BY <1>1, <1>3, <1>4, <1>5 DEF ClientNext, Exchange!ExchangeNext

(* Client and application implement the exchange: a signature that sign_tx
   returns is of the transaction and under the path it was called with, and a
   key is that of the path asked for, whatever calls came before, whatever the
   owner did and whenever the application ended. *)
THEOREM ClientImplementsExchange ==
    ASSUME HalfDuplex PROVE ClientSpec => ImplementsExchange
<1>1. ClientInit => Exchange!ExchangeInit
  BY ReplyAnswers DEF ClientInit, Exchange!ExchangeInit, Request
<1>2. TypeOK /\ ClientTypeOK /\ CallInv /\ [ClientNext]_allVars
      => [Exchange!ExchangeNext]_<<Request, AnswerOf(result)>>
  BY ExchangeStep
<1> QED
  BY <1>1, <1>2, CallInvariant, PTL
     DEF ClientSpec, ImplementsExchange, Exchange!ExchangeSpec,
         Exchange!exchangeVars

------------------------------------------------------------------------------
(* The parity of a signature. *)

WithinOrder == \A info \in SignInfo : ~info.xGTn

ParityInv ==
    /\ waiting /\ reply.kind = "signature" => (reply.v = 1 <=> reply.odd)
    /\ ParityOfCall

LEMMA NoSignature ==
    ASSUME TypeOK, ClientTypeOK, ShownInv, HalfDuplex,
           Send \/ Restart \/ ApproveAddress \/ RejectAddress \/ RejectTransaction
    PROVE  reply'.kind # "signature"
<1>1. CASE Send
  <2>1. call # NoCall /\ ~NothingToSend /\ Receive(Command)
    BY <1>1 DEF Send
  <2>2. UiDisplayAddress \/ UiDisplayTransaction(StateOnceParsed)
        => reply'.kind # "signature"
    BY ReplyKinds DEF UiDisplayAddress, UiDisplayTransaction, Answer
  <2> QED
    BY <2>1, <2>2, SendOutcome, ReplyKinds
       DEF Refuse, Answer, HandlerGetPublicKey, SignTxFirst, ParseAndDisplay
<1>2. CASE Restart \/ ApproveAddress \/ RejectAddress \/ RejectTransaction
  BY <1>2, ReplyKinds
     DEF Restart, Exit, ApproveAddress, RejectAddress, RejectTransaction
<1> QED BY <1>1, <1>2

LEMMA ParityNext ==
    ASSUME TypeOK, ClientTypeOK, ShownInv, CallInv, ParityInv, HalfDuplex,
           WithinOrder, [ClientNext]_allVars
    PROVE  ParityInv'
<1>1. CASE Send \/ Restart
  <2>1. reply'.kind # "signature" /\ result' = result
    BY <1>1, NoSignature DEF Send, Restart
  <2> QED BY <2>1 DEF ParityInv, ParityOfCall
<1>2. CASE Owner /\ ApproveTransaction
  <2>1. /\ app = "running" /\ screen = "tx" /\ UNCHANGED <<waiting, result>>
    BY <1>2 DEF Owner, ApproveTransaction, clientVars
  <2>2. waiting /\ v = 0
    BY <2>1 DEF CallInv, ShownInv, WaitingHasReview, ReviewOpen, TxScreens, InSession
  <2>3. reply'.kind = "signature" => (reply'.v = 1 <=> reply'.odd)
    <3>1. CASE reply' = Status("SIGNATURE_FAIL")
      BY <3>1, ReplyKinds
    <3>2. ASSUME NEW info \in SignInfo, v' = SignatureParity(info),
                 reply' = Signature(bip32_path, m_hash, v', info.odd)
          PROVE  reply'.v = 1 <=> reply'.odd
      <4>1. reply'.v = v' /\ (reply'.odd <=> info.odd)
        BY <3>2 DEF Signature
      <4>2. v' = 1 <=> info.odd
        BY <2>2, <3>2 DEF SignatureParity, WithinOrder
      <4> QED BY <4>1, <4>2
    <3> QED BY <1>2, <3>1, <3>2 DEF ApproveTransaction
  <2> QED BY <2>1, <2>3 DEF ParityInv, ParityOfCall
<1>3. CASE Owner /\ (ApproveAddress \/ RejectAddress \/ RejectTransaction)
  <2>1. reply'.kind # "signature" /\ result' = result
    BY <1>3, NoSignature DEF Owner, clientVars
  <2> QED BY <2>1 DEF ParityInv, ParityOfCall
<1>4. CASE Owner /\ (Boot \/ ReviewContinue \/ AskRejection \/ GoBackToTransaction
                    \/ DismissStatus \/ MenuAbout)
  <2>1. UNCHANGED <<reply, waiting, result>>
    BY <1>4 DEF Owner, clientVars, Boot, ReviewContinue, AskRejection,
                GoBackToTransaction, DismissStatus, MenuAbout
  <2> QED BY <2>1 DEF ParityInv, ParityOfCall
<1>5. CASE Continue \/ (\E c \in Calls : Begin(c))
  <2>1. /\ reply' = reply
        /\ waiting' => waiting
        /\ result' = result \/ result' = Closed
    BY <1>5 DEF Continue, Begin, vars
  <2>2. ParityOfCall'
    <3>1. CASE result' = result
      BY <3>1 DEF ParityInv, ParityOfCall
    <3>2. CASE result' = Closed
      BY <3>2, ReplyKinds DEF ParityOfCall
    <3> QED BY <2>1, <3>1, <3>2
  <2> QED BY <2>1, <2>2 DEF ParityInv
<1>6. CASE Return \/ Raise
  <2>1. /\ waiting' = FALSE
        /\ result' = Closed \/ (waiting /\ result' = reply)
    BY <1>6 DEF Return, Raise, EndCall
  <2> QED BY <2>1, ReplyKinds DEF ParityInv, ParityOfCall
<1>7. CASE UNCHANGED allVars
  BY <1>7 DEF allVars, vars, clientVars, ParityInv, ParityOfCall
<1> QED
  BY <1>1, <1>2, <1>3, <1>4, <1>5, <1>6, <1>7 DEF ClientNext, Owner

(* With a client that opens a session for every signature, and as long as no
   signature reports an r beyond the order, v is the parity of the signature it
   comes with: what crypto_sign_message leaves in v never reaches this host. *)
THEOREM ClientParity ==
    ASSUME HalfDuplex, WithinOrder
    PROVE  ClientSpec => []ParityOfCall
<1>1. ClientInit => ParityInv
  BY ReplyKinds DEF ClientInit, ParityInv, ParityOfCall
<1>2. /\ TypeOK /\ ClientTypeOK /\ ShownInv /\ CallInv /\ ParityInv
      /\ [ClientNext]_allVars
      => ParityInv'
  BY ParityNext
<1>3. ParityInv => ParityOfCall
  BY DEF ParityInv
<1> QED BY <1>1, <1>2, <1>3, CallInvariant, PTL DEF ClientSpec

------------------------------------------------------------------------------
(* What is sent as it should be is taken. *)

Refusals == {"WRONG_P1P2", "WRONG_DATA_LENGTH", "WRONG_TX_LENGTH", "BAD_STATE",
             "INS_NOT_SUPPORTED"}

Fits(t) == Len(t) <= P1_MAX /\ BytesIn(t) <= MAX_TRANSACTION_LEN

(* Until the application ends, the session the path has opened stays open to
   the chunks, and a transaction that fits is refused nothing. *)
WellInv ==
    /\ Signing /\ ~restarted /\ idx # 0 /\ ~waiting => Taking
    /\ Signing /\ ~restarted /\ waiting /\ reply.sw = "OK" /\ MoreToSend => Taking
    /\ WellSentIsTaken

LEMMA SignTxDispatched ==
    ASSUME TypeOK, ClientTypeOK, call # NoCall, ~NothingToSend, Signing,
           Receive(Command)
    PROVE  \/ idx = 0 /\ SignTxFirst(call.path) /\ call.path \in Path
           \/ idx # 0 /\ idx > P1_MAX /\ Refuse("WRONG_P1P2")
           \/ /\ idx \in DOMAIN call.transaction /\ idx <= P1_MAX
              /\ SignTxChunk(call.transaction[idx], MoreToSend)
<1>1. Dispatch(Command)
  BY DEF Receive
<1>2. idx \in Nat /\ P1_MAX \in Nat
  BY CallTypes, SizeAssumption DEF P1_MAX
<1>3. CASE idx = 0
  <2>1. Command = Apdu("SIGN_TX", 0, "MORE", call.path) /\ call.path \in Path
    BY <1>3, CommandSent, CallTypes DEF Signing
  <2>2. call.path # NoData
    BY <2>1, KindAssumption
  <2> QED
    BY <1>1, <1>2, <1>3, <2>1, <2>2 DEF Dispatch, WrongP1P2, HandlerSignTx, Apdu
<1>4. CASE idx # 0
  <2>1. /\ Command = Apdu("SIGN_TX", idx, IF MoreToSend THEN "MORE" ELSE "LAST",
                          call.transaction[idx])
        /\ idx \in DOMAIN call.transaction
    BY <1>4, CommandSent
  <2>2. call.transaction[idx] # NoData
    BY <2>1, CallTypes, KindAssumption
  <2>3. /\ Command.ins = "SIGN_TX" /\ Command.p1 = idx
        /\ Command.data = call.transaction[idx]
        /\ Command.p2 \in {"LAST", "MORE"} /\ (Command.p2 = "MORE" <=> MoreToSend)
    BY <2>1 DEF Apdu
  <2>4. CASE idx > P1_MAX
    BY <1>1, <1>4, <2>3, <2>4 DEF Dispatch, WrongP1P2
  <2>5. CASE idx <= P1_MAX
    <3>1. ~WrongP1P2(Command)
      BY <1>2, <1>4, <2>3, <2>5 DEF WrongP1P2
    <3>2. HandlerSignTx(call.transaction[idx], idx, Command.p2 = "MORE")
      BY <1>1, <2>2, <2>3, <3>1 DEF Dispatch
    <3>3. SignTxChunk(call.transaction[idx], Command.p2 = "MORE")
      BY <1>4, <3>2 DEF HandlerSignTx
    <3>4. SignTxChunk(call.transaction[idx], MoreToSend)
      BY <2>3, <3>3 DEF SignTxChunk
    <3> QED BY <2>1, <2>5, <3>4
  <2> QED BY <1>2, <2>4, <2>5
<1> QED BY <1>3, <1>4

LEMMA WellSend ==
    ASSUME TypeOK, ClientTypeOK, ShownInv, CallInv, WellInv, LengthTracksBytes,
           HalfDuplex, Send
    PROVE  WellInv'
<1>1. /\ app = "running" /\ reply.kind # "none"
      /\ call # NoCall /\ ~waiting /\ ~NothingToSend /\ Receive(Command)
      /\ waiting' /\ UNCHANGED <<call, idx, restarted>>
  BY DEF Send, Receive
<1>2. screen \notin TxScreens
  BY <1>1 DEF ShownInv, WaitingHasReview, ReviewOpen
<1>3. /\ (MoreToSend' <=> MoreToSend) /\ (Signing' <=> Signing)
      /\ (FitsBuffer' <=> FitsBuffer)
  BY <1>1 DEF MoreToSend, Signing, FitsBuffer
<1>4. SUFFICES /\ Signing /\ ~restarted /\ reply'.sw = "OK" /\ MoreToSend => Taking'
               /\ Signing /\ ~restarted =>
                     /\ Fits(call.transaction) => reply'.sw \notin Refusals
                     /\ ~FitsBuffer => reply'.kind # "signature"
  BY <1>1, <1>3 DEF WellInv, WellSentIsTaken, Fits, FitsBuffer, Refusals
<1>5. reply'.kind # "signature"
  BY NoSignature
<1>6. CASE ~Signing
  BY <1>6
<1>7. CASE idx = 0 /\ SignTxFirst(call.path) /\ call.path \in Path
  <2>1. /\ req_type' = "CONFIRM_TRANSACTION" /\ app' = app
        /\ screen' = screen /\ reply' = Status("OK")
    BY <1>7, TypeZero DEF SignTxFirst, Answer
  <2> QED BY <1>1, <1>2, <1>5, <2>1, ReplyKinds DEF Taking, Refusals
<1>8. CASE Signing /\ idx > P1_MAX /\ Refuse("WRONG_P1P2")
  <2>1. ~Fits(call.transaction)
    <3>1. idx \in Nat /\ Len(call.transaction) \in Nat
      BY <1>1, CallTypes
    <3>2. P1_MAX \in Nat
      BY SizeAssumption DEF P1_MAX
    <3> QED BY <1>1, <1>8, <3>1, <3>2 DEF NothingToSend, Fits
  <2> QED BY <1>2, <1>5, <1>8, <2>1, ReplyKinds DEF Refuse, Answer
<1>9. CASE /\ Signing /\ idx \in DOMAIN call.transaction /\ idx <= P1_MAX
           /\ SignTxChunk(call.transaction[idx], MoreToSend)
  <2> DEFINE chunk == call.transaction[idx]
  <2>1. /\ call.transaction \in Seq(Chunk) /\ idx \in 1..Len(call.transaction)
        /\ chunk \in Chunk
    BY <1>1, <1>9, CallTypes
  <2>2. ~restarted => Taking
    BY <1>1, <1>9, <2>1 DEF WellInv
  <2>3. ~restarted /\ Fits(call.transaction)
        => raw_tx_len + Size[chunk] <= MAX_TRANSACTION_LEN
    <3> SUFFICES ASSUME ~restarted, Fits(call.transaction)
                 PROVE  raw_tx_len + Size[chunk] <= MAX_TRANSACTION_LEN
      OBVIOUS
    <3>1. raw_tx = Sent(call.transaction, idx - 1)
      BY <1>1, <1>9, <2>1, <2>2 DEF CallInv, InSession
    <3>2. raw_tx_len + Size[chunk] = BytesIn(Sent(call.transaction, idx))
      BY <2>1, <3>1, SentFacts, BytesInAppend DEF LengthTracksBytes, TypeOK
    <3>3. BytesIn(Sent(call.transaction, idx)) <= BytesIn(call.transaction)
      <4>1. /\ Sent(call.transaction, idx) \in Seq(Chunk)
            /\ Len(Sent(call.transaction, idx)) = idx
            /\ \A i \in 1..idx : Sent(call.transaction, idx)[i] = call.transaction[i]
        BY <2>1 DEF Sent
      <4>2. idx <= Len(call.transaction)
        BY <2>1
      <4> QED BY <2>1, <4>1, <4>2, BytesInPrefix
    <3>4. BytesIn(call.transaction) \in Nat /\ BytesIn(Sent(call.transaction, idx)) \in Nat
      <4>1. Sent(call.transaction, idx) \in Seq(Chunk)
        BY <2>1 DEF Sent
      <4> QED BY <2>1, <4>1, BytesInAppend
    <3> QED BY <3>2, <3>3, <3>4, SizeAssumption DEF Fits
  <2>4. CASE Refuse("BAD_STATE") /\ req_type # "CONFIRM_TRANSACTION"
    BY <1>2, <1>5, <2>2, <2>4, ReplyKinds DEF Refuse, Answer, Taking
  <2>5. CASE Refuse("WRONG_TX_LENGTH") /\ raw_tx_len + Size[chunk] > MAX_TRANSACTION_LEN
    <3>1. raw_tx_len \in Nat /\ Size[chunk] \in Nat /\ MAX_TRANSACTION_LEN \in Nat
      BY <2>1, SizeAssumption DEF TypeOK
    <3>2. ~restarted => ~Fits(call.transaction)
      BY <2>3, <2>5, <3>1
    <3> QED BY <1>2, <1>5, <2>5, <3>2, ReplyKinds DEF Refuse, Answer
  <2>6. CASE /\ req_type = "CONFIRM_TRANSACTION" /\ AppendChunk(chunk)
             /\ Answer(Status("OK"))
             /\ UNCHANGED <<app, state, transaction, m_hash>>
    BY <1>1, <1>2, <1>5, <2>6, ReplyKinds
       DEF AppendChunk, Answer, Taking, Refusals
  <2>7. CASE /\ ~MoreToSend /\ req_type = "CONFIRM_TRANSACTION"
             /\ AppendChunk(chunk) /\ ParseAndDisplay
    <3>1. req_type' = "CONFIRM_TRANSACTION"
      BY <2>7 DEF AppendChunk
    <3>2. UiDisplayTransaction(StateOnceParsed) => reply'.sw \notin Refusals
      BY <3>1, ReplyKinds, ReplyAnswers
         DEF UiDisplayTransaction, StateOnceParsed, Refusals, Answer
    <3>3. reply'.sw \notin Refusals
      BY <2>7, <3>2, ReplyKinds, ReplyAnswers DEF ParseAndDisplay, Refusals, Answer
    <3> QED BY <1>5, <1>9, <2>7, <3>3
  <2> QED BY <1>9, <2>4, <2>5, <2>6, <2>7 DEF SignTxChunk
<1> QED BY <1>1, <1>6, <1>7, <1>8, <1>9, SignTxDispatched

LEMMA WellOwner ==
    ASSUME TypeOK, ClientTypeOK, ShownInv, CallInv, WellInv, LengthTracksBytes, Owner
    PROVE  WellInv'
<1>1. /\ UNCHANGED <<call, idx, waiting, result, restarted>>
      /\ MoreToSend' = MoreToSend /\ Signing' = Signing
      /\ FitsBuffer' = FitsBuffer
  BY DEF Owner, clientVars, MoreToSend, Signing, FitsBuffer
<1>2. ReviewOpen /\ app = "running" => waiting /\ call # NoCall /\ reply.kind = "none"
  BY DEF ShownInv, WaitingHasReview, CallInv, ClientTypeOK
<1>3. \A status \in StatusScreens : AfterAnswer(status) \notin TxScreens
  BY DEF AfterAnswer, StatusScreens, TxScreens
<1>4. CASE Boot
  <2>1. app # "running" /\ screen' = "menu" /\ reply' = reply
    BY <1>4 DEF Boot, Cleared
  <2> QED
    BY <1>1, <2>1 DEF WellInv, WellSentIsTaken, Taking, TxScreens
<1>5. CASE ReviewContinue \/ AskRejection \/ GoBackToTransaction
           \/ DismissStatus \/ MenuAbout
  <2>1. /\ UNCHANGED <<app, req_type, reply>>
        /\ screen' \in TxScreens => screen \in TxScreens
    BY <1>5 DEF ReviewContinue, AskRejection, GoBackToTransaction, DismissStatus,
                MenuAbout, context, TxScreens
  <2> QED BY <1>1, <2>1 DEF WellInv, WellSentIsTaken, Taking
<1>6. CASE ApproveAddress \/ RejectAddress
  <2>1. /\ app = "running" /\ screen \in AddressScreens
        /\ screen' \notin TxScreens
    BY <1>3, <1>6 DEF ApproveAddress, RejectAddress, AddressScreens, StatusScreens
  <2>2. waiting /\ ~Signing
    BY <1>2, <2>1 DEF CallInv, ReviewOpen, Signing
  <2> QED BY <1>1, <2>1, <2>2 DEF WellInv, WellSentIsTaken
<1>7. CASE ApproveTransaction \/ RejectTransaction
  <2>1. /\ app = "running" /\ screen \in TxScreens /\ screen' \notin TxScreens
        /\ reply'.sw \notin Refusals
    BY <1>3, <1>7, ReplyKinds
       DEF ApproveTransaction, RejectTransaction, TxScreens, StatusScreens, Refusals,
           Signature
  <2>2. /\ waiting /\ call # NoCall /\ Signing /\ ~MoreToSend
        /\ InSession(Len(call.transaction))
    BY <1>2, <2>1 DEF CallInv, ReviewOpen
  <2>3. FitsBuffer
    <3>1. call.transaction \in Seq(Chunk)
      BY <2>2, CallTypes
    <3>2. raw_tx = call.transaction
      BY <2>2, <3>1, SentFacts DEF InSession
    <3> QED BY <3>2 DEF LengthTracksBytes, FitsBuffer
  <2> QED
    BY <1>1, <2>1, <2>2, <2>3 DEF WellInv, WellSentIsTaken, Refusals
<1> QED BY <1>4, <1>5, <1>6, <1>7 DEF Owner

LEMMA WellNext ==
    ASSUME TypeOK, ClientTypeOK, ShownInv, CallInv, WellInv, LengthTracksBytes,
           HalfDuplex, [ClientNext]_allVars
    PROVE  WellInv'
<1>1. ASSUME NEW c \in Calls, Begin(c) PROVE WellInv'
  <2>1. ~waiting' /\ idx' = 0
    BY <1>1 DEF Begin, ClientTypeOK
  <2> QED BY <2>1 DEF WellInv, WellSentIsTaken
<1>2. CASE Continue
  <2>1. /\ waiting /\ reply.sw = "OK" /\ MoreToSend /\ ~waiting'
        /\ UNCHANGED <<app, req_type, call, restarted>>
    BY <1>2 DEF Continue, vars, context
  <2> QED BY <2>1 DEF WellInv, WellSentIsTaken, Taking, Signing
<1>3. CASE Return \/ Raise
  <2>1. ~waiting' /\ idx' = 0
    BY <1>3 DEF Return, Raise, EndCall
  <2> QED BY <2>1 DEF WellInv, WellSentIsTaken
<1>4. CASE Restart
  <2>1. restarted' /\ app' = "closed"
    BY <1>4 DEF Restart, Exit
  <2> QED BY <2>1 DEF WellInv, WellSentIsTaken
<1>5. CASE UNCHANGED allVars
  <2>1. UNCHANGED <<app, req_type, reply, screen, call, idx, waiting, restarted>>
    BY <1>5 DEF allVars, vars, clientVars, context
  <2> QED
    BY <2>1
       DEF WellInv, WellSentIsTaken, FitsBuffer, Taking, MoreToSend, Signing
<1> QED
  BY <1>1, <1>2, <1>3, <1>4, <1>5, WellSend, WellOwner DEF ClientNext

(* A transaction that fits the buffer in chunks P1 can count is never refused
   for how or when it was sent: the path clears whatever earlier calls have
   left, and every chunk finds the session and the room it needs.  One that does
   not fit is never signed, not even in part. *)
THEOREM ClientWellSent ==
    ASSUME HalfDuplex PROVE ClientSpec => []WellSentIsTaken
<1>1. ClientInit => WellInv
  BY DEF ClientInit, Init, WellInv, WellSentIsTaken
<1>2. /\ TypeOK /\ ClientTypeOK /\ ShownInv /\ CallInv /\ WellInv
      /\ LengthTracksBytes /\ [ClientNext]_allVars
      => WellInv'
  BY WellNext
<1>3. WellInv => WellSentIsTaken
  BY DEF WellInv
<1> QED
  BY <1>1, <1>2, <1>3, CallInvariant, ClientIsSession, LengthTracked, PTL
     DEF ClientSpec
==============================================================================
