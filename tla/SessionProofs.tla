---------------------------- MODULE SessionProofs ----------------------------
(***************************************************************************)
(* Theorems about Session for every set of paths, chunks and transactions, *)
(* every parser and both user interfaces.                                  *)
(***************************************************************************)
EXTENDS Session, Induction

(* What a turn of the command loop comes to: one of five outcomes. *)
Refused == \E sw \in StatusWords :
               /\ Refuse(sw)
               /\ sw = "BAD_STATE" => req_type # "CONFIRM_TRANSACTION"
Informed == Answer(Info) /\ UNCHANGED <<app, context>>
KeyAsked == \E data \in Path \cup {BadPath}, display \in BOOLEAN :
                HandlerGetPublicKey(data, display)
SessionOpened == \E data \in Path \cup {BadPath} : SignTxFirst(data)
ChunkStored ==
    \E chunk \in Chunk, more \in BOOLEAN :
        /\ raw_tx_len + Size[chunk] <= MAX_TRANSACTION_LEN
        /\ req_type = "CONFIRM_TRANSACTION"
        /\ AppendChunk(chunk)
        /\ IF more
           THEN /\ Answer(Status("OK"))
                /\ UNCHANGED <<app, state, transaction, m_hash>>
           ELSE ParseAndDisplay

LEMMA ReceiveOutcome ==
    ASSUME TypeOK, NEW c \in Commands, Receive(c)
    PROVE  /\ app = "running"
           /\ HalfDuplex => reply.kind # "none"
           /\ Refused \/ Informed \/ KeyAsked \/ SessionOpened \/ ChunkStored
<1>1. /\ c.ins \in Ins /\ c.p1 \in Nat
      /\ c.data # NoData => \/ /\ c.ins = "GET_PUBLIC_KEY"
                               /\ c.data \in Path \cup {BadPath}
                            \/ /\ c.ins = "SIGN_TX" /\ c.p1 = 0
                               /\ c.data \in Path \cup {BadPath}
                            \/ /\ c.ins = "SIGN_TX" /\ c.p1 # 0
                               /\ c.data \in Chunk
  BY SizeAssumption DEF Commands
<1>2. \A sw \in StatusWords :
          /\ Refuse(sw)
          /\ sw = "BAD_STATE" => req_type # "CONFIRM_TRANSACTION"
          => Refused
  BY DEF Refused
<1>3. CASE /\ c.ins = "GET_PUBLIC_KEY" /\ c.data # NoData
           /\ HandlerGetPublicKey(c.data, c.p1 = 1)
  BY <1>1, <1>3 DEF Receive, KeyAsked
<1>4. CASE c.ins = "SIGN_TX" /\ c.data # NoData /\ c.p1 = 0 /\ SignTxFirst(c.data)
  BY <1>1, <1>4 DEF Receive, SessionOpened
<1>5. CASE /\ c.ins = "SIGN_TX" /\ c.data # NoData /\ c.p1 # 0
           /\ SignTxChunk(c.data, c.p2 = "MORE")
  <2>1. Refused \/ ~(req_type # "CONFIRM_TRANSACTION")
    BY <1>2, <1>5 DEF SignTxChunk, StatusWords
  <2>2. Refused \/ ~(raw_tx_len + Size[c.data] > MAX_TRANSACTION_LEN)
    BY <1>2, <1>5, <2>1 DEF SignTxChunk, StatusWords
  <2>3. raw_tx_len \in Nat /\ Size[c.data] \in Nat /\ MAX_TRANSACTION_LEN \in Nat
    BY <1>1, <1>5, SizeAssumption DEF TypeOK
  <2>4. CASE Refused
    BY <2>4 DEF Receive
  <2>5. CASE ~Refused
    <3> DEFINE more == c.p2 = "MORE"
    <3>1. /\ AppendChunk(c.data)
          /\ IF more
             THEN /\ Answer(Status("OK"))
                  /\ UNCHANGED <<app, state, transaction, m_hash>>
             ELSE ParseAndDisplay
      BY <1>5, <2>1, <2>2, <2>5 DEF SignTxChunk
    <3>2. /\ req_type = "CONFIRM_TRANSACTION"
          /\ raw_tx_len + Size[c.data] <= MAX_TRANSACTION_LEN
      BY <2>1, <2>2, <2>3, <2>5
    <3>3. c.data \in Chunk /\ more \in BOOLEAN
      BY <1>1, <1>5
    <3> HIDE DEF more
    <3>4. ChunkStored
      BY <3>1, <3>2, <3>3 DEF ChunkStored
    <3> QED BY <3>4 DEF Receive
  <2> QED BY <2>4, <2>5
<1>6. CASE Informed
  BY <1>6 DEF Receive
<1>7. CASE Refused
  BY <1>7 DEF Receive
<1>8. ASSUME ~Refused
      PROVE  /\ c.ins \notin {"MALFORMED", "BAD_CLA", "UNKNOWN"}
             /\ ~WrongP1P2(c)
             /\ c.data = NoData => c.ins \in {"GET_VERSION", "GET_APP_NAME"}
  BY <1>2, <1>8 DEF Receive, Dispatch, StatusWords
<1>9. CASE ~Refused /\ c.ins \in {"GET_VERSION", "GET_APP_NAME"}
  BY <1>6, <1>8, <1>9 DEF Receive, Dispatch, Informed
<1>10. CASE ~Refused /\ c.ins = "GET_PUBLIC_KEY"
  BY <1>3, <1>8, <1>10 DEF Receive, Dispatch
<1>11. CASE ~Refused /\ c.ins = "SIGN_TX"
  BY <1>4, <1>5, <1>8, <1>11 DEF Receive, Dispatch, HandlerSignTx
<1> QED
  BY <1>1, <1>7, <1>8, <1>9, <1>10, <1>11 DEF Ins

LEMMA ReplyTypes ==
    /\ NoReply \in Reply /\ Closed \in Reply /\ Info \in Reply
    /\ \A sw \in StatusWords : Status(sw) \in Reply
    /\ \A key \in Path \cup {Zero, Garbage} : PubKey(key) \in Reply
    /\ \A path \in Path \cup {Zero, Garbage}, hash \in Seq(Chunk),
          parity \in 0..2, odd \in BOOLEAN :
              Signature(path, hash, parity, odd) \in Reply
<1>1. <<>> \in Seq(Chunk)
  OBVIOUS
<1>2. NoReply \in Reply
  BY <1>1 DEF Reply, NoReply
<1>3. Closed \in Reply /\ Info \in Reply
  BY <1>2 DEF Reply, Closed, Info, StatusWords
<1>4. \A sw \in StatusWords : Status(sw) \in Reply
  BY <1>2 DEF Reply, Status
<1>5. \A key \in Path \cup {Zero, Garbage} : PubKey(key) \in Reply
  BY <1>2 DEF Reply, PubKey, StatusWords
<1>6. \A path \in Path \cup {Zero, Garbage}, hash \in Seq(Chunk),
         parity \in 0..2, odd \in BOOLEAN :
             Signature(path, hash, parity, odd) \in Reply
  BY DEF Reply, Signature, StatusWords
<1> QED BY <1>2, <1>3, <1>4, <1>5, <1>6

LEMMA ReplyKinds ==
    /\ NoReply.kind = "none" /\ Closed.kind = "closed" /\ Info.kind = "info"
    /\ \A sw : Status(sw).kind = "status" /\ Status(sw).sw = sw
    /\ \A key : PubKey(key).kind = "pubkey"
    /\ \A path, hash, parity, odd :
          LET s == Signature(path, hash, parity, odd) IN
          s.kind = "signature" /\ s.path = path /\ s.bytes = hash
BY DEF NoReply, Closed, Info, Status, PubKey, Signature

------------------------------------------------------------------------------
(* Type correctness. *)

LEMMA TypeZero ==
    ASSUME TypeOK, NEW req \in {"CONFIRM_ADDRESS", "CONFIRM_TRANSACTION"},
           ZeroContext(req)
    PROVE  /\ state' = "NONE" /\ req_type' = req
           /\ raw_tx' = <<>> /\ raw_tx' \in Seq(Chunk)
           /\ raw_tx_len' = 0 /\ raw_tx_len' \in Len(raw_tx')..MAX_TRANSACTION_LEN
           /\ transaction' = Zero /\ m_hash' = <<>> /\ m_hash' \in Seq(Chunk)
           /\ v' = 0
BY SizeAssumption DEF ZeroContext, ContextWith

LEMMA TypeKeyAsked == ASSUME TypeOK, KeyAsked, UNCHANGED ux PROVE TypeOK'
<1> PICK data \in Path \cup {BadPath}, display \in BOOLEAN :
        HandlerGetPublicKey(data, display)
  BY DEF KeyAsked
<1>1. /\ ZeroContext("CONFIRM_ADDRESS") /\ UNCHANGED app
      /\ bip32_path' \in Path \cup {Zero, Garbage}
  BY DEF HandlerGetPublicKey, ReadPath
<1>2. pk' \in Path \cup {Zero, Garbage}
  BY DEF HandlerGetPublicKey
<1>3. /\ screen' \in Screens /\ reply' \in Reply
      /\ g_tx' = g_tx /\ pairs' = pairs
      /\ g_address' \in Path \cup {Zero, Garbage}
  BY <1>2, ReplyTypes
     DEF HandlerGetPublicKey, UiDisplayAddress, Answer, strings, StatusWords,
         Screens, AddressScreens, TypeOK
<1> QED
  BY <1>1, <1>2, <1>3, TypeZero DEF TypeOK

LEMMA TypeSessionOpened == ASSUME TypeOK, SessionOpened, UNCHANGED ux PROVE TypeOK'
<1> PICK data \in Path \cup {BadPath} : SignTxFirst(data)
  BY DEF SessionOpened
<1>1. /\ ZeroContext("CONFIRM_TRANSACTION") /\ UNCHANGED app
      /\ bip32_path' \in Path \cup {Zero, Garbage}
      /\ pk' \in Path \cup {Zero, Garbage}
      /\ UNCHANGED <<screen, strings>>
  BY DEF SignTxFirst, ReadPath, Answer
<1>2. reply' \in Reply
  BY ReplyTypes DEF SignTxFirst, Answer, StatusWords
<1> QED
  BY <1>1, <1>2, TypeZero DEF TypeOK, strings

LEMMA TypeChunkStored == ASSUME TypeOK, ChunkStored, UNCHANGED ux PROVE TypeOK'
<1> PICK chunk \in Chunk, more \in BOOLEAN :
        /\ raw_tx_len + Size[chunk] <= MAX_TRANSACTION_LEN
        /\ req_type = "CONFIRM_TRANSACTION"
        /\ AppendChunk(chunk)
        /\ IF more
           THEN /\ Answer(Status("OK"))
                /\ UNCHANGED <<app, state, transaction, m_hash>>
           ELSE ParseAndDisplay
  BY DEF ChunkStored
<1>1. /\ raw_tx' = Append(raw_tx, chunk) /\ raw_tx' \in Seq(Chunk)
      /\ Len(raw_tx') = Len(raw_tx) + 1
  BY DEF AppendChunk, TypeOK
<1>2. raw_tx_len' \in Len(raw_tx')..MAX_TRANSACTION_LEN
  <2>1. Size[chunk] \in Nat \ {0} /\ MAX_TRANSACTION_LEN \in Nat
    BY SizeAssumption
  <2>2. raw_tx_len \in Len(raw_tx)..MAX_TRANSACTION_LEN /\ Len(raw_tx) \in Nat
    BY DEF TypeOK
  <2> QED BY <1>1, <2>1, <2>2 DEF AppendChunk
<1>3. /\ req_type' = req_type /\ bip32_path' = bip32_path /\ v' = v
      /\ pk' = Garbage
  BY DEF AppendChunk
<1>4. CASE more
  BY <1>1, <1>2, <1>3, <1>4, ReplyTypes DEF TypeOK, Answer, strings, StatusWords
<1>5. CASE ~more
  <2>1. ParseAndDisplay
    BY <1>5
  <2>2. /\ app' \in {"closed", "running", "stuck"}
        /\ state' \in {"NONE", "PARSED", "APPROVED"}
        /\ transaction' \in Tx \cup {Zero, Garbage}
        /\ m_hash' \in Seq(Chunk)
    <3>1. CASE Parse(raw_tx') = ParseNoEnd /\ app' = "stuck"
               /\ transaction' = Garbage /\ UNCHANGED <<state, m_hash>>
      BY <3>1 DEF TypeOK
    <3>2. CASE Parse(raw_tx') = ParseFault /\ transaction' = Garbage
               /\ UNCHANGED <<app, state, m_hash>>
      BY <3>2 DEF TypeOK
    <3>3. CASE /\ transaction' \in Tx /\ UNCHANGED app
               /\ m_hash' = m_hash \/ m_hash' = HashedBytes
               /\ state' \in {"NONE", "PARSED"}
      BY <1>1, <3>3 DEF TypeOK, HashedBytes
    <3>4. UiDisplayTransaction(StateOnceParsed) => state' \in {"NONE", "PARSED"}
      BY DEF UiDisplayTransaction, StateOnceParsed
    <3> QED
      BY <2>1, <3>1, <3>2, <3>3, <3>4 DEF ParseAndDisplay, StateOnceParsed
  <2>3. /\ screen' \in Screens /\ reply' \in Reply
        /\ g_tx' \in Tx \cup {Zero, Garbage}
        /\ pairs' \in Tx \cup {Zero, Garbage}
        /\ g_address' = g_address
    <3>1. CASE UNCHANGED <<screen, strings>> /\ reply' \in Reply
      BY <3>1 DEF TypeOK, strings
    <3>2. CASE UiDisplayTransaction(StateOnceParsed)
      BY <2>2, <3>2, ReplyTypes
         DEF UiDisplayTransaction, Answer, strings, StatusWords, TypeOK,
             Screens, TxScreens
    <3> QED
      BY <2>1, <3>1, <3>2, ReplyTypes DEF ParseAndDisplay, Answer, StatusWords
  <2> QED BY <1>1, <1>2, <1>3, <2>2, <2>3 DEF TypeOK
<1> QED BY <1>4, <1>5

LEMMA TypeReceive ==
    ASSUME TypeOK, NEW c \in Commands, Receive(c) PROVE TypeOK'
<1>1. UNCHANGED ux
  BY DEF Receive
<1>2. CASE Refused
  BY <1>1, <1>2, ReplyTypes DEF Refused, Refuse, Answer, TypeOK, context, strings
<1>3. CASE Informed
  BY <1>1, <1>3, ReplyTypes DEF Informed, Answer, TypeOK, context, strings
<1> QED
  BY <1>1, <1>2, <1>3, ReceiveOutcome, TypeKeyAsked, TypeSessionOpened,
     TypeChunkStored

LEMMA TypeOwner ==
    ASSUME TypeOK,
           ReviewContinue \/ ApproveAddress \/ RejectAddress \/ AskRejection
           \/ ApproveTransaction \/ RejectTransaction \/ GoBackToTransaction
           \/ DismissStatus \/ MenuAbout
    PROVE  TypeOK'
<1>1. \A status \in StatusScreens : AfterAnswer(status) \in Screens
  BY DEF AfterAnswer, Screens
<1>2. CASE ReviewContinue
  BY <1>2 DEF ReviewContinue, TypeOK, context, Screens, TxScreens, AddressScreens
<1>3. CASE ApproveAddress
  BY <1>1, <1>3, ReplyTypes
     DEF ApproveAddress, TypeOK, context, strings, StatusScreens
<1>4. CASE RejectAddress
  BY <1>1, <1>4, ReplyTypes
     DEF RejectAddress, TypeOK, context, strings, StatusScreens, StatusWords
<1>5. CASE AskRejection
  BY <1>5 DEF AskRejection, TypeOK, context, strings, Screens, TxScreens
<1>6. CASE GoBackToTransaction
  BY <1>6 DEF GoBackToTransaction, TypeOK, context, strings, Screens, TxScreens
<1>7. CASE DismissStatus \/ MenuAbout
  BY <1>7 DEF DismissStatus, MenuAbout, TypeOK, context, strings, Screens
<1>8. CASE RejectTransaction
  BY <1>1, <1>8, ReplyTypes
     DEF RejectTransaction, TypeOK, strings, StatusScreens, StatusWords
<1>9. CASE ApproveTransaction
  <2>1. screen' \in Screens
    BY <1>1, <1>9 DEF ApproveTransaction, StatusScreens
  <2>2. CASE \E info \in SignInfo :
               /\ state' = "APPROVED"
               /\ v' = SignatureParity(info)
               /\ reply' = Signature(bip32_path, m_hash, v', info.odd)
    <3> PICK info \in SignInfo :
               /\ state' = "APPROVED"
               /\ v' = SignatureParity(info)
               /\ reply' = Signature(bip32_path, m_hash, v', info.odd)
      BY <2>2
    <3>1. info.odd \in BOOLEAN /\ v' \in 0..2
      BY KindAssumption DEF SignatureParity, TypeOK
    <3>2. reply' \in Reply
      BY <3>1, ReplyTypes DEF TypeOK
    <3> QED BY <1>9, <2>1, <3>1, <3>2 DEF ApproveTransaction, TypeOK, strings
  <2>3. CASE state' = "NONE" /\ reply' = Status("SIGNATURE_FAIL") /\ UNCHANGED v
    BY <1>9, <2>1, <2>3, ReplyTypes
       DEF ApproveTransaction, TypeOK, strings, StatusWords
  <2> QED BY <1>9, <2>2, <2>3 DEF ApproveTransaction
<1> QED BY <1>2, <1>3, <1>4, <1>5, <1>6, <1>7, <1>8, <1>9

LEMMA TypeNext == ASSUME TypeOK, [Next]_vars PROVE TypeOK'
<1>1. Cleared => /\ bip32_path' = Zero /\ pk' = Zero /\ screen' \in Screens
                 /\ g_tx' = Zero /\ pairs' = Zero /\ g_address' = Zero
                 /\ ZeroContext("CONFIRM_ADDRESS")
  BY DEF Cleared, Screens
<1>2. CASE Boot
  BY <1>1, <1>2, TypeZero DEF Boot, TypeOK
<1>3. CASE Exit
  BY <1>1, <1>3, TypeZero, ReplyTypes DEF Exit, TypeOK
<1>4. CASE UNCHANGED vars
  BY <1>4 DEF vars, context, strings, TypeOK
<1> QED
  BY <1>2, <1>3, <1>4, TypeReceive, TypeOwner DEF Next

(* Every variable keeps its type, whatever the host and the owner do, and
   raw_tx_len never exceeds the buffer: handler_sign_tx's length check. *)
THEOREM TypeCorrect == Spec => []TypeOK
<1>1. Init => TypeOK
  BY ReplyTypes, SizeAssumption DEF Init, TypeOK, Screens
<1>2. TypeOK /\ [Next]_vars => TypeOK'
  BY TypeNext
<1> QED BY <1>1, <1>2, PTL DEF Spec

------------------------------------------------------------------------------
(* The bytes of some chunks. *)

(* The running totals of s, up to its n-th chunk. *)
Totals(s, n) ==
    {f \in [0..n -> Nat] : f[0] = 0 /\ \A i \in 1..n : f[i] = f[i - 1] + Size[s[i]]}

LEMMA TotalsExist ==
    ASSUME NEW s \in Seq(Chunk) PROVE Totals(s, Len(s)) # {}
<1> DEFINE S == {n \in Nat : Totals(s, n) # {}}
<1>1. \A i \in 1..Len(s) : Size[s[i]] \in Nat
  BY SizeAssumption
<1>2. 0 \in S
  <2>1. [i \in 0..0 |-> 0] \in Totals(s, 0)
    BY DEF Totals
  <2> QED BY <2>1
<1>3. ASSUME NEW n \in 0 .. Len(s) - 1, n \in S PROVE n + 1 \in S
  <2> PICK f : f \in Totals(s, n)
    BY <1>3
  <2> DEFINE g == [i \in 0 .. n + 1 |-> IF i <= n THEN f[i] ELSE f[n] + Size[s[n + 1]]]
  <2>1. Size[s[n + 1]] \in Nat
    BY <1>1
  <2>2. f \in [0..n -> Nat] /\ f[0] = 0 /\ \A i \in 1..n : f[i] = f[i - 1] + Size[s[i]]
    BY DEF Totals
  <2>3. g \in [0 .. n + 1 -> Nat] /\ g[0] = 0
    BY <2>1, <2>2
  <2>4. \A i \in 1 .. n + 1 : g[i] = g[i - 1] + Size[s[i]]
    BY <2>1, <2>2
  <2>5. g \in Totals(s, n + 1)
    BY <2>3, <2>4 DEF Totals
  <2> QED BY <2>5
<1>4. Len(s) \in Nat
  OBVIOUS
<1>5. \A n \in 0..Len(s) : n \in S
  <2> HIDE DEF S
  <2> QED BY <1>2, <1>3, <1>4, BoundedInduction
<1> QED BY <1>4, <1>5

LEMMA BytesInTotals ==
    ASSUME NEW s \in Seq(Chunk)
    PROVE  \E f \in Totals(s, Len(s)) : BytesIn(s) = f[Len(s)]
<1> DEFINE Def(f) == f = [i \in 0..Len(s) |->
                            IF i = 0 THEN 0 ELSE f[i - 1] + Size[s[i]]]
           f == CHOOSE f : Def(f)
<1>1. PICK g : g \in Totals(s, Len(s))
  BY TotalsExist
<1>2. Def(g)
  BY <1>1 DEF Totals
<1>3. Def(f)
  BY <1>2
<1>4. BytesIn(s) = f[Len(s)]
  BY DEF BytesIn
<1> HIDE DEF f
<1>5. f[0] = 0 /\ \A i \in 1..Len(s) : f[i] = f[i - 1] + Size[s[i]]
  BY <1>3
<1>6. \A i \in 0..Len(s) : f[i] \in Nat
  <2> DEFINE S == {i \in Nat : f[i] \in Nat}
  <2>1. 0 \in S
    BY <1>5
  <2>2. ASSUME NEW i \in 0 .. Len(s) - 1, i \in S PROVE i + 1 \in S
    <3>1. Size[s[i + 1]] \in Nat
      BY SizeAssumption
    <3> QED BY <1>5, <2>2, <3>1
  <2>3. \A i \in 0..Len(s) : i \in S
    <3> HIDE DEF S
    <3> QED BY <2>1, <2>2, BoundedInduction
  <2> QED BY <2>3
<1>7. f \in [0..Len(s) -> Nat]
  BY <1>3, <1>6
<1>8. f \in Totals(s, Len(s))
  BY <1>5, <1>7 DEF Totals
<1> QED BY <1>4, <1>8

(* Chunks in front weigh no more than all of them. *)
LEMMA TotalsAgree ==
    ASSUME NEW s \in Seq(Chunk), NEW t \in Seq(Chunk), Len(s) <= Len(t),
           \A i \in 1..Len(s) : s[i] = t[i],
           NEW f \in Totals(s, Len(s)), NEW g \in Totals(t, Len(t))
    PROVE  /\ f[Len(s)] = g[Len(s)]
           /\ g[Len(s)] <= g[Len(t)]
<1> DEFINE S == {i \in Nat : i <= Len(s) => f[i] = g[i]}
           T == {i \in Nat : Len(s) <= i => g[Len(s)] <= g[i]}
<1>1. /\ f \in [0..Len(s) -> Nat] /\ f[0] = 0
      /\ \A i \in 1..Len(s) : f[i] = f[i - 1] + Size[s[i]]
      /\ g \in [0..Len(t) -> Nat] /\ g[0] = 0
      /\ \A i \in 1..Len(t) : g[i] = g[i - 1] + Size[t[i]]
  BY DEF Totals
<1>2. \A i \in 1..Len(t) : Size[t[i]] \in Nat
  BY SizeAssumption
<1>3. Len(s) \in Nat /\ Len(t) \in Nat
  OBVIOUS
<1>4. \A i \in 0..Len(s) : i \in S
  <2>1. 0 \in S
    BY <1>1
  <2>2. ASSUME NEW i \in 0 .. Len(s) - 1, i \in S PROVE i + 1 \in S
    <3>1. i + 1 \in 1..Len(s) /\ i + 1 \in 1..Len(t) /\ i <= Len(s) /\ (i + 1) - 1 = i
      BY <1>3
    <3> QED BY <1>1, <2>2, <3>1
  <2> HIDE DEF S
  <2> QED BY <1>3, <2>1, <2>2, BoundedInduction
<1>5. \A i \in 0..Len(t) : i \in T
  <2>1. 0 \in T
    BY <1>1, <1>3
  <2>2. ASSUME NEW i \in 0 .. Len(t) - 1, i \in T PROVE i + 1 \in T
    <3>1. i + 1 \in 1..Len(t) /\ (i + 1) - 1 = i /\ i \in 0..Len(t) /\ Len(s) \in 0..Len(t)
      BY <1>3
    <3>2. g[i + 1] = g[i] + Size[t[i + 1]]
      BY <1>1, <3>1
    <3>3. g[i] \in Nat /\ g[Len(s)] \in Nat /\ Size[t[i + 1]] \in Nat
      BY <1>1, <1>2, <3>1
    <3>4. CASE Len(s) <= i
      BY <1>3, <2>2, <3>2, <3>3, <3>4
    <3>5. CASE Len(s) = i + 1
      BY <1>3, <3>2, <3>3, <3>5
    <3> QED BY <1>3, <3>4, <3>5
  <2> HIDE DEF T
  <2> QED BY <1>3, <2>1, <2>2, BoundedInduction
<1> QED BY <1>3, <1>4, <1>5

LEMMA BytesInPrefix ==
    ASSUME NEW s \in Seq(Chunk), NEW t \in Seq(Chunk), Len(s) <= Len(t),
           \A i \in 1..Len(s) : s[i] = t[i]
    PROVE  BytesIn(s) <= BytesIn(t)
<1> PICK f \in Totals(s, Len(s)) : BytesIn(s) = f[Len(s)]
  BY BytesInTotals
<1> PICK g \in Totals(t, Len(t)) : BytesIn(t) = g[Len(t)]
  BY BytesInTotals
<1> QED BY TotalsAgree

LEMMA BytesInAppend ==
    /\ BytesIn(<<>>) = 0
    /\ \A s \in Seq(Chunk), c \in Chunk :
          /\ BytesIn(s) \in Nat
          /\ BytesIn(Append(s, c)) = BytesIn(s) + Size[c]
<1>1. BytesIn(<<>>) = 0
  <2>1. <<>> \in Seq(Chunk) /\ Len(<<>>) = 0
    OBVIOUS
  <2> QED BY <2>1, BytesInTotals DEF Totals
<1>2. ASSUME NEW s \in Seq(Chunk), NEW c \in Chunk
      PROVE  BytesIn(s) \in Nat /\ BytesIn(Append(s, c)) = BytesIn(s) + Size[c]
  <2> DEFINE t == Append(s, c)
  <2>1. /\ t \in Seq(Chunk) /\ Len(t) = Len(s) + 1 /\ t[Len(t)] = c /\ Len(s) \in Nat
        /\ Len(s) <= Len(t) /\ \A i \in 1..Len(s) : s[i] = t[i]
    OBVIOUS
  <2> HIDE DEF t
  <2>2. PICK f \in Totals(s, Len(s)) : BytesIn(s) = f[Len(s)]
    BY BytesInTotals
  <2>3. PICK g \in Totals(t, Len(t)) : BytesIn(t) = g[Len(t)]
    BY <2>1, BytesInTotals
  <2>4. f[Len(s)] = g[Len(s)]
    BY <2>1, TotalsAgree
  <2>5. g[Len(t)] = g[Len(t) - 1] + Size[t[Len(t)]] /\ f[Len(s)] \in Nat
    <3>1. /\ f \in [0..Len(s) -> Nat]
          /\ \A i \in 1..Len(t) : g[i] = g[i - 1] + Size[t[i]]
      BY DEF Totals
    <3> QED BY <2>1, <3>1
  <2>6. BytesIn(t) = BytesIn(s) + Size[c] /\ BytesIn(s) \in Nat
    BY <2>1, <2>2, <2>3, <2>4, <2>5
  <2> QED BY <2>6 DEF t
<1> QED BY <1>1, <1>2

------------------------------------------------------------------------------
(* What raw_tx_len counts. *)

LEMMA LengthNext ==
    ASSUME TypeOK, LengthTracksBytes, [Next]_vars
    PROVE  raw_tx_len' = BytesIn(raw_tx')
<1>1. raw_tx' = <<>> /\ raw_tx_len' = 0 => raw_tx_len' = BytesIn(raw_tx')
  BY BytesInAppend
<1>2. UNCHANGED <<raw_tx, raw_tx_len>> => raw_tx_len' = BytesIn(raw_tx')
  BY DEF LengthTracksBytes
<1>3. CASE Boot \/ Exit
  BY <1>1, <1>3, TypeZero DEF Boot, Exit, Cleared
<1>4. ASSUME NEW c \in Commands, Receive(c)
      PROVE  raw_tx_len' = BytesIn(raw_tx')
  <2>1. CASE Refused \/ Informed
    BY <1>2, <2>1 DEF Refused, Refuse, Informed, context
  <2>2. CASE KeyAsked
    BY <1>1, <2>2, TypeZero DEF KeyAsked, HandlerGetPublicKey
  <2>3. CASE SessionOpened
    BY <1>1, <2>3, TypeZero DEF SessionOpened, SignTxFirst
  <2>4. CASE ChunkStored
    <3>1. PICK chunk \in Chunk : /\ raw_tx' = Append(raw_tx, chunk)
                                 /\ raw_tx_len' = raw_tx_len + Size[chunk]
      BY <2>4 DEF ChunkStored, AppendChunk
    <3>2. raw_tx \in Seq(Chunk) /\ raw_tx_len = BytesIn(raw_tx)
      BY DEF TypeOK, LengthTracksBytes
    <3> QED BY <3>1, <3>2, BytesInAppend
  <2> QED BY <1>4, <2>1, <2>2, <2>3, <2>4, ReceiveOutcome
<1>5. CASE ReviewContinue \/ ApproveAddress \/ RejectAddress \/ AskRejection
           \/ ApproveTransaction \/ RejectTransaction \/ GoBackToTransaction
           \/ DismissStatus \/ MenuAbout \/ UNCHANGED vars
  BY <1>2, <1>5
     DEF ReviewContinue, ApproveAddress, RejectAddress, AskRejection,
         ApproveTransaction, RejectTransaction, GoBackToTransaction,
         DismissStatus, MenuAbout, vars, context
<1> QED BY <1>3, <1>4, <1>5 DEF Next

(* raw_tx_len is the sum of the sizes of the chunks in the buffer, and the
   buffer holds them: handler_sign_tx counts what it stores, whatever was
   refused, rejected or signed in between. *)
THEOREM LengthTracked == Spec => []LengthTracksBytes
<1>1. Init => LengthTracksBytes
  BY BytesInAppend, SizeAssumption DEF Init, LengthTracksBytes
<1>2. TypeOK => raw_tx_len <= MAX_TRANSACTION_LEN
  <2>1. TypeOK => Len(raw_tx) \in Nat
    BY DEF TypeOK
  <2> QED BY <2>1, SizeAssumption DEF TypeOK
<1>3. TypeOK /\ TypeOK' /\ LengthTracksBytes /\ [Next]_vars => LengthTracksBytes'
  BY <1>2, LengthNext, SizeAssumption DEF LengthTracksBytes, TypeOK
<1> QED BY <1>1, <1>3, TypeCorrect, PTL DEF Spec

------------------------------------------------------------------------------
(* What holds whether or not the host waits for its replies. *)

BelongsInv ==
    /\ app = "closed" => reply = Closed
    /\ HashBelongsToSession

LEMMA PrefixFacts ==
    /\ \A s \in Seq(Chunk) : IsPrefix(s, s) /\ IsPrefix(<<>>, s)
    /\ \A s, t \in Seq(Chunk), c \in Chunk :
          IsPrefix(s, t) => IsPrefix(s, Append(t, c))
<1>1. ASSUME NEW s \in Seq(Chunk) PROVE IsPrefix(s, s) /\ IsPrefix(<<>>, s)
  BY <1>1 DEF IsPrefix
<1>2. ASSUME NEW s \in Seq(Chunk), NEW t \in Seq(Chunk), NEW c \in Chunk,
             IsPrefix(s, t)
      PROVE  IsPrefix(s, Append(t, c))
  BY <1>2 DEF IsPrefix
<1> QED BY <1>1, <1>2

LEMMA ChunkStoredEffect ==
    ASSUME TypeOK, ChunkStored
    PROVE  /\ \E chunk \in Chunk : raw_tx' = Append(raw_tx, chunk)
           /\ m_hash' = m_hash \/ m_hash' = raw_tx'
           /\ bip32_path' = bip32_path
           /\ app' = app \/ app' = "stuck"
           /\ reply'.kind \in {"none", "status"}
<1> PICK chunk \in Chunk, more \in BOOLEAN :
        /\ raw_tx_len + Size[chunk] <= MAX_TRANSACTION_LEN
        /\ req_type = "CONFIRM_TRANSACTION"
        /\ AppendChunk(chunk)
        /\ IF more
           THEN /\ Answer(Status("OK"))
                /\ UNCHANGED <<app, state, transaction, m_hash>>
           ELSE ParseAndDisplay
  BY DEF ChunkStored
<1>1. raw_tx' = Append(raw_tx, chunk) /\ bip32_path' = bip32_path
  BY DEF AppendChunk
<1>2. CASE more
  BY <1>1, <1>2, ReplyKinds DEF Answer
<1>3. CASE ~more
  <2>1. UiDisplayTransaction(StateOnceParsed) =>
          reply'.kind \in {"none", "status"}
    BY ReplyKinds DEF UiDisplayTransaction, Answer
  <2>2. ParseAndDisplay
    BY <1>3
  <2> QED
    BY <1>1, <2>1, <2>2, ReplyKinds DEF ParseAndDisplay, HashedBytes, Answer
<1> QED BY <1>2, <1>3

LEMMA BelongsReceive ==
    ASSUME TypeOK, BelongsInv, NEW c \in Commands, Receive(c)
    PROVE  BelongsInv'
<1>1. reply'.kind # "signature" /\ IsPrefix(m_hash', raw_tx') => HashBelongsToSession'
  BY DEF HashBelongsToSession
<1>2. app = "running"
  BY ReceiveOutcome
<1>3. CASE Refused
  BY <1>1, <1>2, <1>3, ReplyKinds
     DEF Refused, Refuse, Answer, context, BelongsInv, HashBelongsToSession
<1>4. CASE Informed
  BY <1>1, <1>2, <1>4, ReplyKinds
     DEF Informed, Answer, context, BelongsInv, HashBelongsToSession
<1>5. CASE KeyAsked
  <2>1. ZeroContext("CONFIRM_ADDRESS") /\ UNCHANGED app
    BY <1>5 DEF KeyAsked, HandlerGetPublicKey
  <2>2. reply'.kind # "signature"
    <3> PICK data \in Path \cup {BadPath}, display \in BOOLEAN :
            HandlerGetPublicKey(data, display)
      BY <1>5 DEF KeyAsked
    <3>1. UiDisplayAddress => reply'.kind # "signature"
      BY ReplyKinds DEF UiDisplayAddress, Answer
    <3> QED BY <3>1, ReplyKinds DEF HandlerGetPublicKey, Answer
  <2> QED BY <1>1, <1>2, <2>1, <2>2, TypeZero, PrefixFacts DEF BelongsInv
<1>6. CASE SessionOpened
  <2>1. ZeroContext("CONFIRM_TRANSACTION") /\ UNCHANGED app
    BY <1>6 DEF SessionOpened, SignTxFirst
  <2>2. reply'.kind # "signature"
    BY <1>6, ReplyKinds DEF SessionOpened, SignTxFirst, Answer
  <2> QED BY <1>1, <1>2, <2>1, <2>2, TypeZero, PrefixFacts DEF BelongsInv
<1>7. CASE ChunkStored
  <2>1. reply'.kind # "signature"
    BY <1>7, ChunkStoredEffect
  <2>2. IsPrefix(m_hash', raw_tx')
    <3> PICK chunk \in Chunk : raw_tx' = Append(raw_tx, chunk)
      BY <1>7, ChunkStoredEffect
    <3>1. m_hash \in Seq(Chunk) /\ raw_tx \in Seq(Chunk) /\ raw_tx' \in Seq(Chunk)
      BY DEF TypeOK
    <3>2. IsPrefix(m_hash, raw_tx') /\ IsPrefix(raw_tx', raw_tx')
      BY <3>1, PrefixFacts DEF BelongsInv, HashBelongsToSession
    <3> QED BY <1>7, <3>2, ChunkStoredEffect
  <2> QED BY <1>1, <1>2, <1>7, <2>1, <2>2, ChunkStoredEffect DEF BelongsInv
<1> QED
  BY <1>3, <1>4, <1>5, <1>6, <1>7, ReceiveOutcome

LEMMA BelongsNext == ASSUME TypeOK, BelongsInv, [Next]_vars PROVE BelongsInv'
<1>1. Cleared => raw_tx' = <<>> /\ m_hash' = <<>> /\ IsPrefix(m_hash', raw_tx')
  <2>1. Cleared => raw_tx' = <<>> /\ m_hash' = <<>>
    BY TypeZero DEF Cleared
  <2>2. IsPrefix(<<>>, <<>>)
    BY DEF IsPrefix
  <2> QED BY <2>1, <2>2
<1>2. CASE Boot
  BY <1>1, <1>2, ReplyKinds DEF Boot, BelongsInv, HashBelongsToSession
<1>3. CASE Exit
  <2>1. reply'.kind # "signature"
    BY <1>3, ReplyKinds DEF Exit
  <2> QED BY <1>1, <1>3, <2>1 DEF Exit, BelongsInv, HashBelongsToSession
<1>4. CASE ApproveTransaction
  <2>1. /\ app' = "running" /\ UNCHANGED <<bip32_path, m_hash, raw_tx>>
        /\ reply'.kind = "signature" => reply'.path = bip32_path /\ reply'.bytes = m_hash
    BY <1>4, ReplyKinds DEF ApproveTransaction
  <2> QED BY <2>1 DEF BelongsInv, HashBelongsToSession
<1>5. CASE ApproveAddress \/ RejectAddress \/ RejectTransaction
  BY <1>5, ReplyKinds
     DEF ApproveAddress, RejectAddress, RejectTransaction, context, BelongsInv,
         HashBelongsToSession
<1>6. CASE ReviewContinue \/ AskRejection \/ GoBackToTransaction \/ DismissStatus
           \/ MenuAbout \/ UNCHANGED vars
  BY <1>6 DEF ReviewContinue, AskRejection, GoBackToTransaction, DismissStatus,
              MenuAbout, vars, context, BelongsInv, HashBelongsToSession
<1> QED
  BY <1>2, <1>3, <1>4, <1>5, <1>6, BelongsReceive DEF Next

LEMMA BelongsInvariant == Spec => []BelongsInv
<1>1. Init => BelongsInv
  <2>1. Init => reply.kind # "signature" /\ reply = Closed
    BY ReplyKinds DEF Init
  <2>2. Init => IsPrefix(m_hash, raw_tx)
    BY DEF Init, IsPrefix
  <2> QED BY <2>1, <2>2 DEF BelongsInv, HashBelongsToSession
<1>2. TypeOK /\ BelongsInv /\ [Next]_vars => BelongsInv'
  BY BelongsNext
<1> QED BY <1>1, <1>2, TypeCorrect, PTL DEF Spec

(* The hash in the context, and the bytes of a signature, are the first bytes
   received under the path that signs: no signature mixes two sessions, even
   if commands arrive while a review is on the screen. *)
THEOREM HashBelongs == Spec => []HashBelongsToSession
<1>1. BelongsInv => HashBelongsToSession
  BY DEF BelongsInv
<1> QED BY <1>1, BelongsInvariant, PTL

(* Once bytes are stored, they and the path they came with stay until both are
   cleared: handler_sign_tx writes the path only with the context cleared. *)
THEOREM PathBinds == Spec => PathBindsSession
<1> DEFINE Binds == raw_tx # <<>> /\ raw_tx' # <<>> =>
                       bip32_path' = bip32_path /\ IsPrefix(raw_tx, raw_tx')
<1>1. ASSUME TypeOK, [Next]_vars PROVE Binds
  <2>1. CASE UNCHANGED <<bip32_path, raw_tx>>
    BY <1>1, <2>1, PrefixFacts DEF TypeOK
  <2>2. ASSUME NEW req \in {"CONFIRM_ADDRESS", "CONFIRM_TRANSACTION"},
               ZeroContext(req)
        PROVE  Binds
    BY <1>1, <2>2, TypeZero
  <2>3. CASE ChunkStored
    <3>1. bip32_path' = bip32_path
      BY <1>1, <2>3, ChunkStoredEffect
    <3>2. PICK chunk \in Chunk : raw_tx' = Append(raw_tx, chunk)
      BY <1>1, <2>3, ChunkStoredEffect
    <3>3. raw_tx \in Seq(Chunk) /\ IsPrefix(raw_tx, raw_tx)
      BY <1>1, PrefixFacts DEF TypeOK
    <3> QED BY <3>1, <3>2, <3>3, PrefixFacts
  <2>4. CASE Boot \/ Exit
    BY <2>2, <2>4 DEF Boot, Exit, Cleared
  <2>5. ASSUME NEW c \in Commands, Receive(c) PROVE Binds
    <3>1. CASE Refused \/ Informed
      BY <2>1, <3>1 DEF Refused, Refuse, Informed, context
    <3>2. CASE KeyAsked \/ SessionOpened
      BY <2>2, <3>2
         DEF KeyAsked, HandlerGetPublicKey, SessionOpened, SignTxFirst
    <3> QED BY <1>1, <2>3, <2>5, <3>1, <3>2, ReceiveOutcome
  <2>6. CASE ReviewContinue \/ ApproveAddress \/ RejectAddress \/ AskRejection
             \/ ApproveTransaction \/ RejectTransaction \/ GoBackToTransaction
             \/ DismissStatus \/ MenuAbout \/ UNCHANGED vars
    BY <2>1, <2>6
       DEF ReviewContinue, ApproveAddress, RejectAddress, AskRejection,
           ApproveTransaction, RejectTransaction, GoBackToTransaction,
           DismissStatus, MenuAbout, vars, context
  <2> QED BY <1>1, <2>4, <2>5, <2>6 DEF Next
<1>2. TypeOK /\ [Next]_vars => [Binds]_vars
  BY <1>1
<1> QED BY <1>2, TypeCorrect, PTL DEF Spec, PathBindsSession

(* The guards of the two ui_display functions never fire: BAD_STATE answers
   a chunk outside a session, and nothing else. *)
THEOREM BadStateOutside == Spec => BadStateOnlyOutsideSession
<1> DEFINE Outside == reply' # reply /\ reply'.sw = "BAD_STATE" =>
                         req_type = "CONFIRM_ADDRESS" /\ UNCHANGED context
<1>1. /\ NoReply.sw = "NONE" /\ Closed.sw = "NONE" /\ Info.sw = "OK"
      /\ \A key : PubKey(key).sw = "OK"
      /\ \A path, hash, parity, odd : Signature(path, hash, parity, odd).sw = "OK"
      /\ \A sw : Status(sw).sw = sw
  BY DEF NoReply, Closed, Info, PubKey, Signature, Status
<1>2. ASSUME TypeOK, [Next]_vars PROVE Outside
  <2>1. CASE Refused
    BY <1>1, <1>2, <2>1 DEF Refused, Refuse, Answer, TypeOK
  <2>2. CASE Informed \/ SessionOpened
    BY <1>1, <2>2 DEF Informed, SessionOpened, SignTxFirst, Answer
  <2>3. CASE KeyAsked
    <3> PICK data \in Path \cup {BadPath}, display \in BOOLEAN :
            HandlerGetPublicKey(data, display)
      BY <2>3 DEF KeyAsked
    <3>1. state' = "NONE" /\ req_type' = "CONFIRM_ADDRESS"
      BY <1>2, TypeZero DEF HandlerGetPublicKey
    <3> QED
      BY <1>1, <3>1 DEF HandlerGetPublicKey, UiDisplayAddress, Answer
  <2>4. CASE ChunkStored
    <3>1. req_type' = "CONFIRM_TRANSACTION"
      BY <2>4 DEF ChunkStored, AppendChunk
    <3>2. UiDisplayTransaction(StateOnceParsed) => reply'.sw # "BAD_STATE"
      BY <1>1, <3>1 DEF UiDisplayTransaction, StateOnceParsed, Answer
    <3> QED BY <1>1, <2>4, <3>2 DEF ChunkStored, ParseAndDisplay, Answer
  <2>5. ASSUME NEW c \in Commands, Receive(c) PROVE Outside
    BY <1>2, <2>1, <2>2, <2>3, <2>4, <2>5, ReceiveOutcome
  <2>6. CASE ApproveAddress \/ RejectAddress \/ RejectTransaction \/ Exit
    BY <1>1, <2>6 DEF ApproveAddress, RejectAddress, RejectTransaction, Exit
  <2>7. CASE ApproveTransaction
    BY <1>1, <2>7 DEF ApproveTransaction
  <2>8. CASE Boot \/ ReviewContinue \/ AskRejection \/ GoBackToTransaction
             \/ DismissStatus \/ MenuAbout \/ UNCHANGED vars
    BY <2>8 DEF Boot, ReviewContinue, AskRejection, GoBackToTransaction,
                DismissStatus, MenuAbout, vars
  <2> QED BY <1>2, <2>5, <2>6, <2>7, <2>8 DEF Next
<1>3. TypeOK /\ [Next]_vars => [Outside]_vars
  BY <1>2
<1> QED BY <1>3, TypeCorrect, PTL DEF Spec, BadStateOnlyOutsideSession

------------------------------------------------------------------------------
(* What holds when the transport makes the host wait. *)

ShownInv ==
    /\ app = "closed" => reply = Closed
    /\ app = "running" /\ screen \in TxScreens => g_tx \in Displayable
    /\ WaitingHasReview
    /\ ReviewMatchesContext
    /\ SignedWasShown

(* A command that opens no review leaves the screen, and has a reply that is
   not a signature. *)
LEMMA ShownAnswered ==
    ASSUME ShownInv, app = "running", reply.kind # "none",
           app' = "running", UNCHANGED screen,
           reply'.kind \notin {"none", "signature"}
    PROVE  ShownInv'
<1>1. screen \notin AddressScreens \cup TxScreens
  BY DEF ShownInv, WaitingHasReview, ReviewOpen
<1> QED
  BY <1>1 DEF ShownInv, WaitingHasReview, ReviewOpen, ReviewMatchesContext,
              SignedWasShown, TxScreens

LEMMA ShownKeyAsked ==
    ASSUME TypeOK, ShownInv, KeyAsked, app = "running", reply.kind # "none"
    PROVE  ShownInv'
<1> PICK data \in Path \cup {BadPath}, display \in BOOLEAN :
        HandlerGetPublicKey(data, display)
  BY DEF KeyAsked
<1>1. /\ app' = "running" /\ state' = "NONE" /\ req_type' = "CONFIRM_ADDRESS"
      /\ bip32_path' = ReadPath(data)
  BY TypeZero DEF HandlerGetPublicKey
<1>2. CASE UNCHANGED screen /\ reply'.kind \in {"status", "pubkey"}
  BY <1>1, <1>2, ShownAnswered
<1>3. CASE data \in Path /\ pk' = data /\ UiDisplayAddress
  <2>1. \/ UNCHANGED screen /\ reply' = Status("DISPLAY_FAIL")
        \/ g_address' = pk' /\ screen' \in AddressScreens /\ reply' = NoReply
    BY <1>1, <1>3 DEF UiDisplayAddress, AddressScreens
  <2>2. CASE UNCHANGED screen /\ reply' = Status("DISPLAY_FAIL")
    BY <1>2, <2>2, ReplyKinds
  <2> QED
    BY <1>1, <1>3, <2>1, <2>2, ReplyKinds
       DEF ShownInv, WaitingHasReview, ReviewOpen, ReviewMatchesContext,
           SignedWasShown, TxScreens, AddressScreens, ReadPath
<1> QED
  BY <1>2, <1>3, ReplyKinds DEF HandlerGetPublicKey, Answer

LEMMA ShownChunkStored ==
    ASSUME TypeOK, ShownInv, ChunkStored, app = "running", reply.kind # "none"
    PROVE  ShownInv'
<1> PICK chunk \in Chunk, more \in BOOLEAN :
        /\ raw_tx_len + Size[chunk] <= MAX_TRANSACTION_LEN
        /\ req_type = "CONFIRM_TRANSACTION"
        /\ AppendChunk(chunk)
        /\ IF more
           THEN /\ Answer(Status("OK"))
                /\ UNCHANGED <<app, state, transaction, m_hash>>
           ELSE ParseAndDisplay
  BY DEF ChunkStored
<1>1. raw_tx' = Append(raw_tx, chunk) /\ raw_tx' # <<>>
      /\ req_type' = "CONFIRM_TRANSACTION"
  BY DEF AppendChunk, TypeOK
<1>2. CASE app' = app /\ UNCHANGED screen /\ reply'.kind = "status"
  BY <1>2, ShownAnswered
<1>3. CASE app' = "stuck" /\ reply' = NoReply
  BY <1>3, ReplyKinds
     DEF ShownInv, WaitingHasReview, ReviewMatchesContext, SignedWasShown
<1>4. CASE /\ Parse(raw_tx') \in Tx /\ transaction' = Parse(raw_tx')
           /\ UNCHANGED app /\ m_hash' = raw_tx'
           /\ UiDisplayTransaction("PARSED")
  <2>1. CASE transaction' \in Displayable
    <3>1. /\ g_tx' = transaction' /\ state' = "PARSED" /\ reply' = NoReply
          /\ screen' \in {"tx", "tx_start"}
          /\ screen' = "tx" => pairs' = transaction'
      BY <1>1, <1>4, <2>1 DEF UiDisplayTransaction, Formats
    <3> QED
      BY <1>1, <1>4, <2>1, <3>1, ReplyKinds
         DEF ShownInv, WaitingHasReview, ReviewOpen, ReviewMatchesContext,
             SignedWasShown, TxScreens, AddressScreens
  <2>2. CASE transaction' \notin Displayable
    BY <1>1, <1>2, <1>4, <2>2, ReplyKinds DEF UiDisplayTransaction, Formats
  <2> QED BY <2>1, <2>2
<1> QED
  BY <1>2, <1>3, <1>4, ReplyKinds
     DEF ParseAndDisplay, HashedBytes, StateOnceParsed, Answer

LEMMA ShownReceive ==
    ASSUME TypeOK, ShownInv, HalfDuplex, NEW c \in Commands, Receive(c)
    PROVE  ShownInv'
<1>1. app = "running" /\ reply.kind # "none"
  BY ReceiveOutcome
<1>2. CASE Refused \/ Informed
  BY <1>1, <1>2, ShownAnswered, ReplyKinds
     DEF Refused, Refuse, Informed, Answer
<1>3. CASE SessionOpened
  BY <1>1, <1>3, ShownAnswered, ReplyKinds DEF SessionOpened, SignTxFirst, Answer
<1> QED
  BY <1>1, <1>2, <1>3, ReceiveOutcome, ShownKeyAsked, ShownChunkStored

LEMMA ShownNext ==
    ASSUME TypeOK, ShownInv, HalfDuplex, [Next]_vars
    PROVE  ShownInv'
<1>1. \A status \in StatusScreens :
        AfterAnswer(status) \notin AddressScreens \cup TxScreens
  BY DEF AfterAnswer, StatusScreens, AddressScreens, TxScreens
<1>2. CASE Boot
  BY <1>2, ReplyKinds
     DEF Boot, Cleared, ShownInv, WaitingHasReview, ReviewOpen, AddressScreens,
         TxScreens, ReviewMatchesContext, SignedWasShown
<1>3. CASE Exit
  BY <1>3, ReplyKinds
     DEF Exit, ShownInv, WaitingHasReview, ReviewMatchesContext, SignedWasShown
<1>4. CASE ReviewContinue
  BY <1>4 DEF ReviewContinue, context, ShownInv, WaitingHasReview, ReviewOpen,
              AddressScreens, TxScreens, ReviewMatchesContext, SignedWasShown
<1>5. CASE AskRejection \/ GoBackToTransaction
  BY <1>5 DEF AskRejection, GoBackToTransaction, context, strings, ShownInv,
              WaitingHasReview, ReviewOpen, AddressScreens, TxScreens,
              ReviewMatchesContext, SignedWasShown
<1>6. CASE DismissStatus \/ MenuAbout
  BY <1>6 DEF DismissStatus, MenuAbout, context, strings, ShownInv, WaitingHasReview,
              ReviewOpen, AddressScreens, TxScreens, StatusScreens,
              ReviewMatchesContext, SignedWasShown
<1>7. CASE ApproveAddress \/ RejectAddress \/ RejectTransaction
  <2>1. /\ app = "running" /\ app' = app
        /\ screen' \notin AddressScreens \cup TxScreens
        /\ reply'.kind \in {"status", "pubkey"}
    BY <1>1, <1>7, ReplyKinds
       DEF ApproveAddress, RejectAddress, RejectTransaction, StatusScreens
  <2> QED
    BY <2>1 DEF ShownInv, WaitingHasReview, ReviewOpen, ReviewMatchesContext,
                SignedWasShown, TxScreens
<1>8. CASE ApproveTransaction
  <2>1. /\ app = "running" /\ app' = app /\ screen = "tx"
        /\ screen' \notin AddressScreens \cup TxScreens
        /\ g_tx' = g_tx /\ pairs' = pairs
        /\ \/ reply'.kind = "signature" /\ reply'.bytes = m_hash
           \/ reply'.kind = "status"
    BY <1>1, <1>8, ReplyKinds DEF ApproveTransaction, StatusScreens, strings
  <2>2. /\ Parse(m_hash) = g_tx /\ pairs = g_tx /\ g_tx \in Displayable
    BY <2>1 DEF ShownInv, ReviewMatchesContext, TxScreens
  <2> QED
    BY <2>1, <2>2 DEF ShownInv, WaitingHasReview, ReviewOpen,
                      ReviewMatchesContext, SignedWasShown, TxScreens
<1>9. CASE UNCHANGED vars
  BY <1>9 DEF vars, context, strings, ShownInv, WaitingHasReview, ReviewOpen,
              ReviewMatchesContext, SignedWasShown
<1> QED
  BY <1>2, <1>3, <1>4, <1>5, <1>6, <1>7, <1>8, <1>9, ShownReceive DEF Next

LEMMA ShownInvariant == ASSUME HalfDuplex PROVE Spec => []ShownInv
<1>1. Init => ShownInv
  BY ReplyKinds
     DEF Init, ShownInv, WaitingHasReview, ReviewMatchesContext, SignedWasShown
<1>2. TypeOK /\ ShownInv /\ [Next]_vars => ShownInv'
  BY ShownNext
<1> QED BY <1>1, <1>2, TypeCorrect, PTL DEF Spec

(* While a review is on the screen, the context its callbacks will read is
   the one it was opened for: validate.c signs the hash of what
   ui_display_transaction formatted, under the path of that session. *)
THEOREM ReviewMatches == ASSUME HalfDuplex PROVE Spec => []ReviewMatchesContext
<1>1. ShownInv => ReviewMatchesContext
  BY DEF ShownInv
<1> QED BY <1>1, ShownInvariant, PTL

(* What the host holds a signature of is what the screen showed in full. *)
THEOREM SignedShown == ASSUME HalfDuplex PROVE Spec => []SignedWasShown
<1>1. ShownInv => SignedWasShown
  BY DEF ShownInv
<1> QED BY <1>1, ShownInvariant, PTL

(* Every command has its reply at once, or a review that will give one. *)
THEOREM WaitingReviewed == ASSUME HalfDuplex PROVE Spec => []WaitingHasReview
<1>1. ShownInv => WaitingHasReview
  BY DEF ShownInv
<1> QED BY <1>1, ShownInvariant, PTL

------------------------------------------------------------------------------
(* The refinement of SigningDevice. *)

LEMMA DeviceForgets ==
    ASSUME TxReview = Zero, TxReview' = Zero, LastSignature' = Zero
    PROVE  Device!DeviceNext
BY DEF Device!DeviceNext, Device!Forget

LEMMA DeviceReceives ==
    ASSUME TypeOK, TypeOK', ShownInv, ShownInv', HalfDuplex,
           NEW c \in Commands, Receive(c)
    PROVE  Device!DeviceNext
<1>1. app = "running" /\ reply.kind # "none"
  BY ReceiveOutcome
<1>2. TxReview = Zero
  BY <1>1 DEF TxReview, ShownInv, WaitingHasReview, ReviewOpen
<1>3. reply'.kind # "signature"
  <2>1. CASE Refused \/ Informed \/ SessionOpened
    BY <2>1, ReplyKinds
       DEF Refused, Refuse, Informed, SessionOpened, SignTxFirst, Answer
  <2>2. CASE KeyAsked
    <3> PICK data \in Path \cup {BadPath}, display \in BOOLEAN :
            HandlerGetPublicKey(data, display)
      BY <2>2 DEF KeyAsked
    <3>1. UiDisplayAddress => reply'.kind # "signature"
      BY ReplyKinds DEF UiDisplayAddress, Answer
    <3> QED BY <3>1, ReplyKinds DEF HandlerGetPublicKey, Answer
  <2>3. CASE ChunkStored
    BY <2>3, ChunkStoredEffect
  <2> QED BY <2>1, <2>2, <2>3, ReceiveOutcome
<1>4. LastSignature' = Zero
  BY <1>3 DEF LastSignature
<1>5. CASE TxReview' = Zero
  BY <1>2, <1>4, <1>5, DeviceForgets
<1>6. CASE TxReview' # Zero
  <2>1. TxReview' = [path |-> bip32_path', bytes |-> m_hash']
    BY <1>6 DEF TxReview
  <2>2. TxReview' \in Device!Reviews
    BY <2>1 DEF TypeOK, Device!Reviews
  <2> QED BY <1>2, <1>4, <2>2 DEF Device!DeviceNext, Device!Open
<1> QED BY <1>5, <1>6

LEMMA DeviceStep ==
    ASSUME TypeOK, TypeOK', ShownInv, ShownInv', BelongsInv, HalfDuplex,
           [Next]_vars
    PROVE  [Device!DeviceNext]_<<TxReview, LastSignature>>
<1>1. \A status \in StatusScreens : AfterAnswer(status) \notin TxScreens
  BY DEF AfterAnswer, StatusScreens, TxScreens
<1>2. app = "running" /\ screen \in TxScreens => TxReview # Zero
  BY KindAssumption DEF TxReview, TypeOK
<1>3. CASE Boot
  BY <1>3, ReplyKinds
     DEF Boot, Cleared, BelongsInv, TxReview, LastSignature, TxScreens
<1>4. CASE Exit
  <2>1. TxReview' = Zero /\ LastSignature' = Zero
    BY <1>4, ReplyKinds DEF Exit, TxReview, LastSignature
  <2> QED
    BY <2>1, DeviceForgets DEF Device!DeviceNext, Device!Close
<1>5. CASE ReviewContinue \/ AskRejection \/ GoBackToTransaction
           \/ DismissStatus \/ MenuAbout \/ UNCHANGED vars
  BY <1>5 DEF ReviewContinue, AskRejection, GoBackToTransaction, DismissStatus,
              MenuAbout, vars, context, TxReview, LastSignature, TxScreens, StatusScreens
<1>6. CASE ApproveAddress \/ RejectAddress
  <2>1. TxReview = Zero /\ TxReview' = Zero /\ LastSignature' = Zero
    BY <1>1, <1>6, ReplyKinds
       DEF ApproveAddress, RejectAddress, TxReview, LastSignature,
           StatusScreens, TxScreens, AddressScreens
  <2> QED BY <2>1, DeviceForgets
<1>7. CASE RejectTransaction
  <2>1. TxReview # Zero /\ TxReview' = Zero /\ LastSignature' = Zero
    BY <1>1, <1>2, <1>7, ReplyKinds
       DEF RejectTransaction, TxReview, LastSignature, StatusScreens, TxScreens
  <2> QED BY <2>1 DEF Device!DeviceNext, Device!Close
<1>8. CASE ApproveTransaction
  <2>1. /\ TxReview # Zero /\ TxReview = [path |-> bip32_path, bytes |-> m_hash]
        /\ TxReview' = Zero
    BY <1>1, <1>2, <1>8
       DEF ApproveTransaction, TxReview, StatusScreens, TxScreens
  <2>2. LastSignature' = Zero \/ LastSignature' = TxReview
    BY <1>8, <2>1, ReplyKinds DEF ApproveTransaction, LastSignature
  <2> QED
    BY <2>1, <2>2 DEF Device!DeviceNext, Device!Close, Device!ApproveReview
<1> QED
  BY <1>3, <1>4, <1>5, <1>6, <1>7, <1>8, DeviceReceives DEF Next

(* The application implements the signing device: a signature leaves it only
   by the approval of an open review, of the path and the bytes that review
   was opened for, and once. *)
THEOREM SessionImplementsDevice == ASSUME HalfDuplex PROVE Spec => ImplementsDevice
<1>1. Init => Device!DeviceInit
  BY ReplyKinds DEF Init, Device!DeviceInit, TxReview, LastSignature
<1>2. /\ TypeOK /\ TypeOK' /\ ShownInv /\ ShownInv' /\ BelongsInv
      /\ [Next]_vars
      => [Device!DeviceNext]_<<TxReview, LastSignature>>
  BY DeviceStep
<1>3. Spec => []BelongsInv
  BY BelongsInvariant
<1> QED
  BY <1>1, <1>2, <1>3, TypeCorrect, ShownInvariant, PTL
     DEF Spec, ImplementsDevice, Device!DeviceSpec, Device!deviceVars
==============================================================================
