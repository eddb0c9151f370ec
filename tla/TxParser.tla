------------------------------- MODULE TxParser -------------------------------
(***************************************************************************)
(* transaction_deserialize: the loop that turns the bytes of an unsigned   *)
(* transaction into the fields the review shows.                           *)
(*                                                                         *)
(* The parser context is one record, as in the code; parseRLP maps a       *)
(* context to the next one and a status, because transaction_deserialize   *)
(* does not always look at the status.  A turn of the loop is one step for *)
(* the part before the switch on the transaction type ("head") and one for *)
(* the field ("field"); the turn that finds the transaction's type is one  *)
(* step for each header it reads ("head", "nested", "type").               *)
(*                                                                         *)
(* A field is copied whole or the data ends in it, so currentFieldPos,     *)
(* which is 0 whenever a field's copy begins, is not kept.  Of a field cut *)
(* short nothing is kept: it is never shown.                               *)
(***************************************************************************)
EXTENDS Items

CONSTANTS Inputs,       \* the byte strings to parse
          StaleBytes,   \* what may lie behind the last byte received
          ADDRESS_LEN,  \* the longest recipient
          MAX_INT256    \* the longest integer

ASSUME InputsAssumption == Inputs \subseteq Seq(Byte) /\ StaleBytes \subseteq Byte
ASSUME LimitsAssumption == ADDRESS_LEN \in Nat /\ MAX_INT256 \in Nat

VARIABLES raw,      \* the bytes, buf->ptr
          ctx,      \* the parser context
          tx,       \* the transaction it fills
          pc,       \* where in the loop: "head", "nested", "type" or "field"
          status    \* what transaction_deserialize returned, or "running"

vars == <<raw, ctx, tx, pc, status>>

------------------------------------------------------------------------------
(* The end of a transaction. *)

OTHER_TYPE == 256   \* a type the parser does not know

LEGACY_RLP_CHAIN_ID == 7

(* PARSING_IS_DONE *)
IsDone(type, field) == Supported(type) /\ field = Len(Fields(type)) + 1

(* Slip: what processTxCancel returns is dropped too. *)
ReportsLegacyFaults(type) == type = LEGACY

(* A fault of a field is an error of the transaction in two of the six
   processTx functions; the others drop what the field's function returns. *)
ReportsFaults(type) == type = LEGACY \/ type \in TypesOf("cancel")

Integers256 == {"type", "chainID", "nonce", "gasprice", "startgas", "value", "ratio"}

------------------------------------------------------------------------------
(* The parser context: workBuffer is an index, rlpBuffer its first
   rlpBufferPos bytes; overrun is set when a byte is stored behind it. *)

FreshContext(length) ==
    [currentField |-> 1, currentFieldLength |-> 0, currentFieldIsList |-> FALSE,
     processingField |-> FALSE, fieldSingleByte |-> FALSE, outerRLP |-> TRUE,
     commandLength |-> length, workBuffer |-> 0, rlpBuffer |-> <<>>,
     overrun |-> FALSE]

Consume(c, n) == [c EXCEPT !.workBuffer = @ + n, !.commandLength = @ - n]

(* Slip: the byte that is its own header is not given back. *)
ConsumeHeaderWhole(c, h, n) == Consume(c, n)

(* A single byte is left to be copied as the field. *)
ConsumeHeader(c, h, n) == IF IsSingle(h[1]) THEN c ELSE Consume(c, n)

(* The next n bytes go to the header buffer. *)
Buffer(c, n) ==
    [Consume(c, n) EXCEPT
        !.rlpBuffer = @ \o SubSeq(raw, c.workBuffer + 1, c.workBuffer + n)]

(* The item whose header is h begins. *)
BeginField(c, h) ==
    [c EXCEPT !.currentFieldLength = FieldLength(h),
              !.currentFieldIsList = IsListHeader(h[1]),
              !.fieldSingleByte = IsSingle(h[1]),
              !.rlpBuffer = <<>>,
              !.processingField = @ \/ ~c.outerRLP]

(* The first byte of the header that is being read. *)
FirstByte(c) ==
    IF Len(c.rlpBuffer) = 0 THEN raw[c.workBuffer + 1] ELSE c.rlpBuffer[1]

(* The bytes it still lacks, as far as there is room for them. *)
Wanted(c) ==
    LET size == HeaderLen(FirstByte(c)) IN
    (IF size > RLP_BUFFER THEN RLP_BUFFER ELSE size) - Len(c.rlpBuffer)

Parsed(answer, c) == [status |-> answer, ctx |-> c]

ParseRLP(c) ==
    IF c.commandLength = 0
    THEN Parsed("PROCESSING", c)
    ELSE IF Len(c.rlpBuffer) = RLP_BUFFER
    THEN Parsed("ERROR", [c EXCEPT !.overrun = TRUE])
    ELSE IF c.commandLength < Wanted(c)
    THEN Parsed("PROCESSING", Buffer(c, c.commandLength))
    ELSE IF HeaderLen(FirstByte(c)) > RLP_BUFFER
    THEN Parsed("ERROR", Buffer(c, Wanted(c)))
    ELSE LET header == Buffer(c, Wanted(c)).rlpBuffer IN
         Parsed("CONTINUE", BeginField(ConsumeHeader(c, header, Wanted(c)), header))

------------------------------------------------------------------------------
(* The loop of transaction_deserialize. *)

NoTx == [txType |-> 0, nonce |-> <<>>, gasprice |-> <<>>, startgas |-> <<>>,
         to |-> <<>>, value |-> <<>>, ratio |-> <<>>, chainID |-> <<>>]

Init ==
    /\ raw \in Inputs
    /\ ctx = FreshContext(Len(raw))
    /\ tx = NoTx
    /\ pc = "head"
    /\ status = "running"

AtHead == status = "running" /\ pc = "head"

(* Slip: a legacy transaction may end anywhere. *)
EndsAnywhere == tx.txType = LEGACY /\ ctx.commandLength = 0

OldStyleEnd ==
    tx.txType = LEGACY /\ ctx.currentField = LEGACY_RLP_CHAIN_ID
    /\ ctx.commandLength = 0

Done ==
    /\ AtHead
    /\ IsDone(tx.txType, ctx.currentField)
    /\ status' = "OK"
    /\ UNCHANGED <<raw, ctx, tx, pc>>

(* A transaction without v, r and s, from before EIP-155. *)
EndOldStyle ==
    /\ AtHead
    /\ ~IsDone(tx.txType, ctx.currentField)
    /\ OldStyleEnd
    /\ tx' = [tx EXCEPT !.chainID = <<>>]
    /\ status' = "OK"
    /\ UNCHANGED <<raw, ctx, pc>>

EndOfData ==
    /\ AtHead
    /\ ~IsDone(tx.txType, ctx.currentField)
    /\ ~OldStyleEnd
    /\ ctx.commandLength = 0
    /\ status' = "PROCESSING"
    /\ UNCHANGED <<raw, ctx, tx, pc>>

GoesOn == /\ AtHead
          /\ ~IsDone(tx.txType, ctx.currentField)
          /\ ctx.commandLength # 0

Overruns(c) == IF c.overrun THEN "OVERRUN" ELSE "running"

(* parseNestedRlp: the header of the outer list, ... *)
ReadOuterHeader ==
    /\ GoesOn
    /\ ctx.outerRLP
    /\ ctx' = ParseRLP(ctx).ctx
    /\ status' = Overruns(ctx')
    /\ pc' = "nested"
    /\ UNCHANGED <<raw, tx>>

(* Slip: the header of the list is read again and again. *)
ReadsOuterAgain ==
    /\ status = "running" /\ pc = "nested"
    /\ ctx' = ParseRLP(ctx).ctx
    /\ status' = Overruns(ctx')
    /\ IF ctx'.fieldSingleByte
       THEN tx' = [tx EXCEPT !.txType = LEGACY] /\ pc' = "head"
       ELSE pc' = "type" /\ UNCHANGED tx
    /\ UNCHANGED raw

(* ... and that of its first item, which is a single byte if it is the nonce of
   a legacy transaction.  Neither status is looked at. *)
ReadNestedHeader ==
    /\ status = "running" /\ pc = "nested"
    /\ ctx' = [ParseRLP(ctx).ctx EXCEPT !.outerRLP = FALSE]
    /\ status' = Overruns(ctx')
    /\ IF ctx'.fieldSingleByte
       THEN tx' = [tx EXCEPT !.txType = LEGACY] /\ pc' = "head"
       ELSE pc' = "type" /\ UNCHANGED tx
    /\ UNCHANGED raw

(* The byte workBuffer points at, which may lie behind the data. *)
Peeked(c) == IF c.workBuffer < Len(raw) THEN {raw[c.workBuffer + 1]} ELSE StaleBytes

(* Slip: the length is given back first, and the position then by nothing. *)
GoBackLengthFirst(c, start) == [c EXCEPT !.commandLength = start]

(* Return to where start bytes were left. *)
GoBack(c, start) == [c EXCEPT !.workBuffer = @ - (start - c.commandLength),
                              !.commandLength = start]

(* The type is the byte behind the next header, which is then given back; that
   status is not looked at either. *)
DetectType ==
    /\ status = "running" /\ pc = "type"
    /\ LET ahead == ParseRLP(ctx).ctx IN
       /\ \E byte \in Peeked(ahead) : tx' = [tx EXCEPT !.txType = byte]
       /\ ctx' = [GoBack(ahead, ctx.commandLength) EXCEPT !.processingField = FALSE]
    /\ status' = Overruns(ctx')
    /\ pc' = "head"
    /\ UNCHANGED raw

ReadHeader ==
    /\ GoesOn
    /\ ~ctx.outerRLP
    /\ IF ctx.processingField
       THEN pc' = "field" /\ UNCHANGED <<ctx, status>>
       ELSE LET parsed == ParseRLP(ctx) IN
            /\ ctx' = parsed.ctx
            /\ pc' = IF parsed.status = "CONTINUE" THEN "field" ELSE pc
            /\ status' = CASE parsed.status = "CONTINUE" -> status
                           [] parsed.ctx.overrun -> "OVERRUN"
                           [] OTHER -> parsed.status
    /\ UNCHANGED <<raw, tx>>

------------------------------------------------------------------------------
(* The fields. *)

(* Slip: the longest integer is refused. *)
RefusesLongest(name, length) ==
    \/ name \in Integers256 /\ length >= MAX_INT256
    \/ name = "to" /\ length > ADDRESS_LEN

(* Slip: the recipient's length is not checked. *)
ChecksIntegersOnly(name, length) == name \in Integers256 /\ length > MAX_INT256

TooLong(name, length) ==
    \/ name \in Integers256 /\ length > MAX_INT256
    \/ name = "to" /\ length > ADDRESS_LEN

Faulty(name) == IF name = "content" THEN ~ctx.currentFieldIsList
                ELSE \/ ctx.currentFieldIsList
                     \/ TooLong(name, ctx.currentFieldLength)

(* ratio is one byte: a longer field runs over the first bytes of value, which
   lies behind it. *)
StoreRatio(bytes) ==
    [tx EXCEPT !.ratio = IF bytes = <<>> THEN @ ELSE <<bytes[1]>>,
               !.value = [i \in 1..Len(@) |->
                             IF i < Len(bytes) THEN bytes[i + 1] ELSE @[i]]]

(* A recipient longer than its place would run over the ratio behind it. *)
StoreTo(bytes) ==
    IF Len(bytes) <= ADDRESS_LEN THEN [tx EXCEPT !.to = bytes]
    ELSE [StoreRatio(SubSeq(bytes, ADDRESS_LEN + 1, Len(bytes)))
             EXCEPT !.to = SubSeq(bytes, 1, ADDRESS_LEN)]

(* txType is an enumeration of one or of four bytes, as the build decides;
   what runs over it is overwritten by the nonce. *)
StoreType(bytes) ==
    IF Len(bytes) = 0 THEN {tx}
    ELSE {[tx EXCEPT !.txType = type] :
             type \in IF Len(bytes) = 1 THEN {bytes[1]} ELSE {bytes[1], OTHER_TYPE}}

Store(name, bytes) ==
    IF name = "type" THEN StoreType(bytes)
    ELSE IF name = "ratio" THEN {StoreRatio(bytes)}
    ELSE IF name = "to" THEN {StoreTo(bytes)}
    ELSE IF name \in {"nonce", "gasprice", "startgas", "value", "chainID"}
    THEN {[tx EXCEPT ![name] = bytes]}
    ELSE {tx}

(* Slip: the ratio is expected of no transaction. *)
AlwaysSkips(field, type) ==
    IF type # LEGACY /\ field < Len(Fields(type)) /\ Fields(type)[field + 1] = "ratio"
    THEN 1 ELSE 0

(* Slip: the ratio is expected of every transaction. *)
NeverSkips(name, type) == 0

(* Only a partially fee delegated transaction has a ratio; the field before
   it, whether it was complete or at fault, skips it for the others. *)
Skips(field, type) ==
    IF /\ type # LEGACY /\ type \notin PartialFeeDelegated
       /\ field < Len(Fields(type)) /\ Fields(type)[field + 1] = "ratio"
    THEN 1 ELSE 0

KnownField ==
    Supported(tx.txType) /\ ctx.currentField <= Len(Fields(tx.txType))

Field == Fields(tx.txType)[ctx.currentField]

Skip == Skips(ctx.currentField, tx.txType)

(* Of the list that holds the other fields only the header is taken. *)
FieldSize == IF Field = "content" THEN 0 ELSE ctx.currentFieldLength

UnknownField ==
    /\ ~KnownField
    /\ status' = "ERROR"
    /\ UNCHANGED <<ctx, tx>>

FaultyField ==
    /\ KnownField /\ Faulty(Field)
    /\ ctx' = [ctx EXCEPT !.currentField = @ + Skip]
    /\ status' = IF ReportsFaults(tx.txType) THEN "ERROR" ELSE status
    /\ UNCHANGED tx

CutField ==
    /\ KnownField /\ ~Faulty(Field) /\ ctx.commandLength < FieldSize
    /\ ctx' = [Consume(ctx, ctx.commandLength) EXCEPT !.currentField = @ + Skip]
    /\ UNCHANGED <<tx, status>>

WholeField ==
    /\ KnownField /\ ~Faulty(Field) /\ ctx.commandLength >= FieldSize
    /\ tx' \in Store(Field, SubSeq(raw, ctx.workBuffer + 1, ctx.workBuffer + FieldSize))
    /\ ctx' = [Consume(ctx, FieldSize) EXCEPT !.currentField = @ + 1 + Skip,
                                              !.processingField = FALSE]
    /\ UNCHANGED status

ProcessField ==
    /\ status = "running" /\ pc = "field"
    /\ UnknownField \/ FaultyField \/ CutField \/ WholeField
    /\ pc' = "head"
    /\ UNCHANGED raw

------------------------------------------------------------------------------
Next == Done \/ EndOldStyle \/ EndOfData
        \/ ReadOuterHeader \/ ReadNestedHeader \/ DetectType
        \/ ReadHeader \/ ProcessField

Spec == Init /\ [][Next]_vars

(* The loop runs; nothing else does. *)
FairSpec == Spec /\ WF_vars(Next)

------------------------------------------------------------------------------
(* Properties. *)

(* Every variable has its type; the position and what is left of the data
   always add up to the data, through every header that is looked at twice and
   every byte that is given back: nothing behind the data is parsed. *)
WithinInput ==
    /\ ctx.workBuffer \in 0..Len(raw)
    /\ ctx.commandLength \in 0..Len(raw)
    /\ ctx.workBuffer + ctx.commandLength = Len(raw)

(* No copy runs over the field of another one, and no field is copied twice,
   whatever the headers say and whatever faults were dropped: a field other than
   the type changes only in its own turn, and from empty.  The exception is the
   amount, over which a ratio of more than a byte does run (ValueKept); the nonce,
   which a type of more bytes runs over, is written after it (StoreType). *)
FieldsKept ==
    [][\A name \in DOMAIN tx \ {"txType"} :
          tx'[name] # tx[name] =>
              /\ pc = "field" /\ KnownField
              /\ \/ Field = name /\ tx[name] = <<>>
                 \/ name = "value" /\ Field = "ratio" /\ ctx.currentFieldLength > 1]_vars

(* The item of a field is in the data as a whole, and of the kind and the length
   its field asks for. *)
IsField(bytes, type, i) ==
    LET name == Fields(type)[i]
        p == PlacesOf(bytes, type)[i]
    IN  /\ Behind(bytes, name, p) <= Len(bytes)
        /\ IsListAt(bytes, p) <=> name = "content"
        /\ ~TooLong(name, LengthAt(bytes, p))

(* A ratio of more than a byte, which runs over the amount. *)
HasLongRatio(bytes, type) ==
    \E i \in DOMAIN Fields(type) :
        /\ Fields(type)[i] = "ratio" /\ ~Absent(type, i)
        /\ IsField(bytes, type, i) /\ LengthAt(bytes, PlacesOf(bytes, type)[i]) > 1

(* The transaction holds what the item of a field does. *)
Says(t, bytes, i) ==
    LET name == Fields(t.txType)[i]
        payload == PayloadOf(bytes, PlacesOf(bytes, t.txType)[i])
    IN  /\ name \in {"nonce", "gasprice", "startgas", "to", "chainID"} =>
              t[name] = payload
        /\ name = "type" => payload = <<t.txType>>
        /\ name = "value" => t.value = payload \/ HasLongRatio(bytes, t.txType)
        /\ name = "ratio" =>
              t.ratio = IF payload = <<>> THEN <<>> ELSE <<payload[1]>>

(* The transaction holds, field by field, the items that follow each other in
   the bytes; of a legacy transaction the chain id is left empty if it is not
   there as a whole. *)
IsDecodedFrom(t, bytes) ==
    LET type == t.txType
        Read(i) == IsField(bytes, type, i) /\ Says(t, bytes, i)
    IN  /\ Supported(type)
        /\ \/ \A i \in DOMAIN Fields(type) : Absent(type, i) \/ Read(i)
           \/ /\ type = LEGACY
              /\ \A i \in 1 .. LEGACY_RLP_CHAIN_ID - 1 : Read(i)
              /\ ~IsField(bytes, type, LEGACY_RLP_CHAIN_ID)
              /\ t.chainID = <<>>

(* Whatever the bytes are, the transaction that is returned is what they say, but
   for an amount that a ratio of more than a byte runs over. *)
Understood == status = "OK" => IsDecodedFrom(tx, raw)

(* The items of all fields are there, or of a legacy transaction those in front
   of the chain id and nothing behind them. *)
Decodable(bytes) ==
    LET type == TypeOf(bytes) IN
    /\ HasHeader(bytes, 0) /\ HasHeader(bytes, PayloadAt(bytes, 0))
    /\ Supported(type)
    /\ \/ \A i \in DOMAIN Fields(type) : Absent(type, i) \/ IsField(bytes, type, i)
       \/ /\ type = LEGACY
          /\ \A i \in 1 .. LEGACY_RLP_CHAIN_ID - 1 : IsField(bytes, type, i)
          /\ PlacesOf(bytes, type)[LEGACY_RLP_CHAIN_ID] = Len(bytes)

(* A transaction whose fields are all there is not refused, however they are
   encoded, and no header of it overruns the header buffer. *)
DecodableIsAccepted == status \notin {"running", "OK"} => ~Decodable(raw)

(* Once the transaction is known to be a legacy or a cancel transaction, whose
   faults are reported, the parser returns, whatever the bytes are: an item
   that is not what its field asks for is not tried again for ever. *)
FaultsEnd ==
    status = "running" /\ tx.txType \in {LEGACY} \cup TypesOf("cancel")
        ~> status # "running"

(* The parser returns, with an error if a field is at fault: process_txs.h says
   that of every type of transaction. *)
ParserReturns == <>(status # "running")

(* The amount that was read stays as it was read, whatever fields follow it. *)
ValueKept == [][tx.value # <<>> => tx'.value = tx.value]_vars

(* The number behind that of the last field of the longest list. *)
LAST_FIELD == 16

(* How many steps the parser takes at most until it returns: two for each field,
   one for each header in front of them and one for the type; none of them
   depends on how long the data is. *)
StepsFrom(answer, at, c) ==
    LET ForFields == 2 * (LAST_FIELD - c.currentField)
        InFront == 2 * LAST_FIELD
    IN  IF answer # "running" THEN 0
        ELSE CASE at = "head" /\ c.commandLength = 0 -> 1
               [] at = "head" /\ c.commandLength # 0 /\ c.outerRLP -> InFront + 4
               [] at = "nested" -> InFront + 3
               [] at = "type" -> InFront + 2
               [] at = "head" /\ c.commandLength # 0 /\ ~c.outerRLP -> ForFields + 3
               [] at = "field" -> ForFields + 2

StepsLeft == StepsFrom(status, pc, ctx)

(* A fault that the function of the type does not return. *)
FaultDropped == pc = "field" /\ FaultyField /\ ~ReportsFaults(tx.txType)

(* Every step brings transaction_deserialize nearer to its return, whatever the
   bytes are and through every header that is looked at twice, but one that drops
   a fault; so it returns of itself, after a number of steps that the length of the
   data has no part in, unless it meets a fault that is dropped. *)
MovesOn == [][FaultDropped \/ StepsLeft' \in 0 .. StepsLeft - 1]_vars
==============================================================================
