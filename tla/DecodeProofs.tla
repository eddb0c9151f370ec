---------------------------- MODULE DecodeProofs ----------------------------
(***************************************************************************)
(* The parser decodes: what transaction_deserialize accepts it has read as *)
(* the items that follow each other in the bytes, and it refuses nothing   *)
(* that is there as a whole, whatever the bytes are; every step brings it  *)
(* nearer to its return, but one that drops a fault; and what is copied    *)
(* stays in the field it is copied to.                                     *)
(***************************************************************************)
EXTENDS TxParserProofs, Induction

------------------------------------------------------------------------------
(* The fields of the types. *)

(* Fields whose item is stored. *)
Stored == {"type", "nonce", "gasprice", "startgas", "to", "value", "ratio", "chainID"}

(* What the parser's loop relies on in the order of the fields. *)
Orderly(names) ==
    /\ Len(names) \in 9..15 /\ DOMAIN names = 1..Len(names)
    /\ \A i, j \in DOMAIN names : names[i] = names[j] /\ names[i] \in Stored => i = j
    /\ \A i \in DOMAIN names :
          names[i] = "ratio" => i >= 7 /\ names[i - 1] \in {"discard", "data"}
    /\ \A i \in DOMAIN names : names[i] = "content" => i = 1
    /\ \A i \in DOMAIN names : names[i] = "type" => i = 2 /\ names[1] = "content"

ValueTransferFields ==
    <<"content", "type", "nonce", "gasprice", "startgas", "to", "value", "discard",
      "ratio", "chainID", "discard", "discard">>

MemoFields ==
    <<"content", "type", "nonce", "gasprice", "startgas", "to", "value", "discard",
      "data", "ratio", "chainID", "discard", "discard">>

DeployFields ==
    <<"content", "type", "nonce", "gasprice", "startgas", "discard", "value", "discard",
      "data", "discard", "ratio", "discard", "chainID", "discard", "discard">>

CancelFields ==
    <<"content", "type", "nonce", "gasprice", "startgas", "discard", "ratio",
      "chainID", "discard", "discard">>

FieldNames == {"content", "type", "nonce", "gasprice", "startgas", "to", "value",
               "ratio", "data", "chainID", "discard"}

(* A list that holds what two others do is one behind the other. *)
LEMMA Listed ==
    ASSUME NEW s \in Seq(FieldNames), NEW t \in Seq(FieldNames),
           NEW u \in Seq(FieldNames),
           Len(u) = Len(s) + Len(t),
           \A i \in 1..Len(s) : u[i] = s[i],
           \A i \in 1..Len(t) : u[Len(s) + i] = t[i]
    PROVE  s \o t = u
<1>1. PICK w : w = s \o t
  OBVIOUS
<1>2. /\ w \in Seq(FieldNames) /\ Len(w) = Len(s) + Len(t)
      /\ \A i \in 1..Len(s) + Len(t) : w[i] = IF i <= Len(s) THEN s[i] ELSE t[i - Len(s)]
  BY <1>1, ConcatProperties
<1>3. Len(s) \in Nat /\ Len(t) \in Nat
  BY LenProperties
<1>4. ASSUME NEW i \in 1..Len(w) PROVE w[i] = u[i]
  <2>1. CASE i <= Len(s)
    BY <1>2, <1>3, <2>1
  <2>2. CASE ~(i <= Len(s))
    <3>1. i - Len(s) \in 1..Len(t) /\ Len(s) + (i - Len(s)) = i
      BY <1>2, <1>3, <2>2
    <3> QED BY <1>2, <2>2, <3>1
  <2> QED BY <2>1, <2>2
<1> QED BY <1>1, <1>2, <1>4, SeqEqual

LEMMA ListedBetween ==
    ASSUME NEW own \in Seq(FieldNames), NEW all \in Seq(FieldNames),
           Len(all) = 8 + Len(own),
           \A i \in 1..5 : all[i] = Preamble[i],
           \A i \in 1..Len(own) : all[5 + i] = own[i],
           \A i \in 1..3 : all[5 + Len(own) + i] = Trailer[i]
    PROVE  Preamble \o own \o Trailer = all
<1>1. /\ Preamble \in Seq(FieldNames) /\ Len(Preamble) = 5
      /\ Trailer \in Seq(FieldNames) /\ Len(Trailer) = 3
  BY DEF Preamble, Trailer, FieldNames
<1>2. PICK front : front = Preamble \o own
  OBVIOUS
<1>3. /\ front \in Seq(FieldNames) /\ Len(front) = 5 + Len(own)
      /\ \A i \in 1..5 + Len(own) :
            front[i] = IF i <= 5 THEN Preamble[i] ELSE own[i - 5]
  <2>1. /\ front \in Seq(FieldNames) /\ Len(front) = Len(Preamble) + Len(own)
        /\ \A i \in 1..Len(Preamble) + Len(own) :
              front[i] = IF i <= Len(Preamble) THEN Preamble[i] ELSE own[i - Len(Preamble)]
    BY <1>1, <1>2, ConcatProperties
  <2> QED BY <1>1, <2>1
<1>4. Len(own) \in Nat
  BY LenProperties
<1>5. ASSUME NEW i \in 1..Len(front) PROVE all[i] = front[i]
  <2>1. CASE i <= 5
    BY <1>3, <1>4, <2>1
  <2>2. CASE ~(i <= 5)
    <3>1. i - 5 \in 1..Len(own) /\ 5 + (i - 5) = i
      BY <1>3, <1>4, <2>2
    <3> QED BY <1>3, <2>2, <3>1
  <2> QED BY <2>1, <2>2
<1>6. /\ Len(all) = Len(front) + Len(Trailer)
      /\ \A i \in 1..Len(Trailer) : all[Len(front) + i] = Trailer[i]
  BY <1>1, <1>3, <1>4
<1>7. front \o Trailer = all
  BY <1>1, <1>3, <1>5, <1>6, Listed
<1> QED BY <1>2, <1>7

LEMMA ListsOfKinds ==
    /\ FieldsOfKind("value_transfer") = ValueTransferFields
    /\ FieldsOfKind("memo") = MemoFields
    /\ FieldsOfKind("deploy") = DeployFields
    /\ FieldsOfKind("execution") = MemoFields
    /\ FieldsOfKind("cancel") = CancelFields
<1>1. FieldsOfKind("value_transfer") = ValueTransferFields
  <2> DEFINE own == <<"to", "value", "discard", "ratio">>
             all == ValueTransferFields
  <2>1. own \in Seq(FieldNames) /\ Len(own) = 4 /\ all \in Seq(FieldNames) /\ Len(all) = 12
    BY DEF FieldNames, ValueTransferFields
  <2>2. /\ \A i \in 1..5 : all[i] = Preamble[i]
        /\ \A i \in 1..4 : all[5 + i] = own[i]
        /\ \A i \in 1..3 : all[9 + i] = Trailer[i]
    BY DEF Preamble, Trailer, ValueTransferFields
  <2>3. FieldsOfKind("value_transfer") = Preamble \o own \o Trailer
    BY DEF FieldsOfKind
  <2> HIDE DEF own, all
  <2>4. /\ Len(all) = 8 + Len(own)
        /\ \A i \in 1..Len(own) : all[5 + i] = own[i]
        /\ \A i \in 1..3 : all[5 + Len(own) + i] = Trailer[i]
    BY <2>1, <2>2
  <2>5. Preamble \o own \o Trailer = all
    BY <2>1, <2>2, <2>4, ListedBetween
  <2> QED BY <2>3, <2>5 DEF all
<1>2. FieldsOfKind("memo") = MemoFields
  <2> DEFINE own == <<"to", "value", "discard", "data", "ratio">>
             all == MemoFields
  <2>1. own \in Seq(FieldNames) /\ Len(own) = 5 /\ all \in Seq(FieldNames) /\ Len(all) = 13
    BY DEF FieldNames, MemoFields
  <2>2. /\ \A i \in 1..5 : all[i] = Preamble[i]
        /\ \A i \in 1..5 : all[5 + i] = own[i]
        /\ \A i \in 1..3 : all[10 + i] = Trailer[i]
    BY DEF Preamble, Trailer, MemoFields
  <2>3. FieldsOfKind("memo") = Preamble \o own \o Trailer
    BY DEF FieldsOfKind
  <2> HIDE DEF own, all
  <2>4. /\ Len(all) = 8 + Len(own)
        /\ \A i \in 1..Len(own) : all[5 + i] = own[i]
        /\ \A i \in 1..3 : all[5 + Len(own) + i] = Trailer[i]
    BY <2>1, <2>2
  <2>5. Preamble \o own \o Trailer = all
    BY <2>1, <2>2, <2>4, ListedBetween
  <2> QED BY <2>3, <2>5 DEF all
<1>3. FieldsOfKind("deploy") = DeployFields
  <2> DEFINE own == <<"discard", "value", "discard", "data", "discard", "ratio", "discard">>
             all == DeployFields
  <2>1. own \in Seq(FieldNames) /\ Len(own) = 7 /\ all \in Seq(FieldNames) /\ Len(all) = 15
    BY DEF FieldNames, DeployFields
  <2>2. /\ \A i \in 1..5 : all[i] = Preamble[i]
        /\ \A i \in 1..7 : all[5 + i] = own[i]
        /\ \A i \in 1..3 : all[12 + i] = Trailer[i]
    BY DEF Preamble, Trailer, DeployFields
  <2>3. FieldsOfKind("deploy") = Preamble \o own \o Trailer
    BY DEF FieldsOfKind
  <2> HIDE DEF own, all
  <2>4. /\ Len(all) = 8 + Len(own)
        /\ \A i \in 1..Len(own) : all[5 + i] = own[i]
        /\ \A i \in 1..3 : all[5 + Len(own) + i] = Trailer[i]
    BY <2>1, <2>2
  <2>5. Preamble \o own \o Trailer = all
    BY <2>1, <2>2, <2>4, ListedBetween
  <2> QED BY <2>3, <2>5 DEF all
<1>4. FieldsOfKind("execution") = FieldsOfKind("memo")
  BY DEF FieldsOfKind
<1>5. FieldsOfKind("cancel") = CancelFields
  <2> DEFINE own == <<"discard", "ratio">>
             all == CancelFields
  <2>1. own \in Seq(FieldNames) /\ Len(own) = 2 /\ all \in Seq(FieldNames) /\ Len(all) = 10
    BY DEF FieldNames, CancelFields
  <2>2. /\ \A i \in 1..5 : all[i] = Preamble[i]
        /\ \A i \in 1..2 : all[5 + i] = own[i]
        /\ \A i \in 1..3 : all[7 + i] = Trailer[i]
    BY DEF Preamble, Trailer, CancelFields
  <2>3. FieldsOfKind("cancel") = Preamble \o own \o Trailer
    BY DEF FieldsOfKind
  <2> HIDE DEF own, all
  <2>4. /\ Len(all) = 8 + Len(own)
        /\ \A i \in 1..Len(own) : all[5 + i] = own[i]
        /\ \A i \in 1..3 : all[5 + Len(own) + i] = Trailer[i]
    BY <2>1, <2>2
  <2>5. Preamble \o own \o Trailer = all
    BY <2>1, <2>2, <2>4, ListedBetween
  <2> QED BY <2>3, <2>5 DEF all
<1> QED BY <1>1, <1>2, <1>3, <1>4, <1>5

LEMMA LegacyList ==
    LegacyFields = <<"nonce", "gasprice", "startgas", "to", "value", "data",
                     "chainID", "discard", "discard">>
<1> DEFINE s == <<"nonce", "gasprice", "startgas", "to", "value", "data">>
           u == <<"nonce", "gasprice", "startgas", "to", "value", "data",
                  "chainID", "discard", "discard">>
<1>1. s \in Seq(FieldNames) /\ Len(s) = 6
  BY DEF FieldNames
<1>2. Trailer \in Seq(FieldNames) /\ Len(Trailer) = 3
  BY DEF FieldNames, Trailer
<1>3. u \in Seq(FieldNames) /\ Len(u) = 9
  BY DEF FieldNames
<1>4. /\ \A i \in 1..6 : u[i] = s[i]
      /\ \A i \in 1..3 : u[6 + i] = Trailer[i]
  BY DEF Trailer
<1>5. LegacyFields = s \o Trailer
  BY DEF LegacyFields
<1> HIDE DEF s, u
<1>6. /\ Len(u) = Len(s) + Len(Trailer)
      /\ \A i \in 1..Len(s) : u[i] = s[i]
      /\ \A i \in 1..Len(Trailer) : u[Len(s) + i] = Trailer[i]
  BY <1>1, <1>2, <1>3, <1>4
<1>7. s \o Trailer = u
  BY <1>1, <1>2, <1>3, <1>6, Listed, Zenon
<1> QED BY <1>5, <1>7 DEF s, u

LEMMA OrderlyLists ==
    /\ Orderly(ValueTransferFields)
    /\ Orderly(MemoFields)
    /\ Orderly(DeployFields)
    /\ Orderly(CancelFields)
    /\ Orderly(LegacyFields)
<1>1. Orderly(ValueTransferFields)
  BY DEF Orderly, ValueTransferFields, Stored
<1>2. Orderly(MemoFields)
  BY DEF Orderly, MemoFields, Stored
<1>3. Orderly(DeployFields)
  BY DEF Orderly, DeployFields, Stored
<1>4. Orderly(CancelFields)
  BY DEF Orderly, CancelFields, Stored
<1>5. Orderly(LegacyFields)
  BY LegacyList DEF Orderly, Stored
<1> QED BY <1>1, <1>2, <1>3, <1>4, <1>5

LEMMA FieldsOrderly ==
    ASSUME NEW type, Supported(type)
    PROVE  /\ Orderly(Fields(type))
           /\ type = LEGACY =>
                 /\ Fields(type) = LegacyFields
                 /\ Fields(type)[LEGACY_RLP_CHAIN_ID] = "chainID"
                 /\ \A i \in DOMAIN Fields(type) : Fields(type)[i] \notin {"ratio", "content", "type"}
                 /\ \A i \in DOMAIN Fields(type) : Fields(type)[i] = "chainID" => i = LEGACY_RLP_CHAIN_ID
<1>1. CASE type = LEGACY
  <2>1. Fields(type) = LegacyFields
    BY <1>1 DEF Fields
  <2> QED BY <2>1, LegacyList, OrderlyLists DEF LEGACY_RLP_CHAIN_ID
<1>2. CASE type # LEGACY
  <2>1. PICK kind \in Kinds : Fields(type) = FieldsOfKind(kind)
    BY <1>2 DEF Supported, Fields
  <2> QED BY <1>2, <2>1, ListsOfKinds, OrderlyLists DEF Kinds
<1> QED BY <1>1, <1>2

LEMMA KindOf ==
    ASSUME NEW type, Supported(type), type # LEGACY
    PROVE  \/ type \in {8, 9, 10} /\ Fields(type) = ValueTransferFields
           \/ type \in {16, 17, 18, 48, 49, 50} /\ Fields(type) = MemoFields
           \/ type \in {40, 41, 42} /\ Fields(type) = DeployFields
           \/ type \in {56, 57, 58} /\ Fields(type) = CancelFields
<1>1. PICK kind : kind = CHOOSE k \in Kinds : type \in TypesOf(k)
  OBVIOUS
<1>2. kind \in Kinds /\ type \in TypesOf(kind) /\ Fields(type) = FieldsOfKind(kind)
  BY <1>1 DEF Supported, Fields
<1>3. CASE kind = "value_transfer"
  BY <1>2, <1>3, ListsOfKinds DEF TypesOf, FirstType
<1>4. CASE kind = "memo"
  BY <1>2, <1>4, ListsOfKinds DEF TypesOf, FirstType
<1>5. CASE kind = "deploy"
  BY <1>2, <1>5, ListsOfKinds DEF TypesOf, FirstType
<1>6. CASE kind = "execution"
  BY <1>2, <1>6, ListsOfKinds DEF TypesOf, FirstType
<1>7. CASE kind = "cancel"
  BY <1>2, <1>7, ListsOfKinds DEF TypesOf, FirstType
<1> QED BY <1>2, <1>3, <1>4, <1>5, <1>6, <1>7 DEF Kinds

(* The list of every type but the legacy one holds the other fields. *)
LEMMA FirstNames ==
    ASSUME NEW type, Supported(type)
    PROVE  /\ 1 \in DOMAIN Fields(type) /\ 2 \in DOMAIN Fields(type)
           /\ ~Absent(type, 1) /\ ~Absent(type, 2)
           /\ type # LEGACY => Fields(type)[1] = "content" /\ Fields(type)[2] = "type"
           /\ type = LEGACY => Fields(type)[1] # "content"
<1>1. /\ 1 \in DOMAIN Fields(type) /\ 2 \in DOMAIN Fields(type)
      /\ ~Absent(type, 1) /\ ~Absent(type, 2)
  <2>1. PICK names : names = Fields(type)
    OBVIOUS
  <2>2. Orderly(names)
    BY <2>1, FieldsOrderly
  <2>3. PICK m \in 9..15 : m = Len(names) /\ DOMAIN names = 1..m
    BY <2>2 DEF Orderly
  <2>4. 1 \in DOMAIN names /\ 2 \in DOMAIN names
    BY <2>3
  <2>5. \A i \in DOMAIN names : names[i] = "ratio" => i >= 7
    BY <2>2 DEF Orderly
  <2>6. names[1] # "ratio" /\ names[2] # "ratio"
    BY <2>4, <2>5
  <2> QED BY <2>1, <2>4, <2>6 DEF Absent
<1>2. CASE type = LEGACY
  BY <1>1, <1>2, FieldsOrderly
<1>3. CASE type # LEGACY
  <2>5. Fields(type)[1] = "content" /\ Fields(type)[2] = "type"
    <3>1. CASE Fields(type) = ValueTransferFields
      BY <3>1 DEF ValueTransferFields
    <3>2. CASE Fields(type) = MemoFields
      BY <3>2 DEF MemoFields
    <3>3. CASE Fields(type) = DeployFields
      BY <3>3 DEF DeployFields
    <3>4. CASE Fields(type) = CancelFields
      BY <3>4 DEF CancelFields
    <3> QED BY <1>3, <3>1, <3>2, <3>3, <3>4, KindOf
  <2> QED BY <1>1, <1>3, <2>5
<1> QED BY <1>2, <1>3

------------------------------------------------------------------------------
(* Items. *)

LEMMA ByteAtIsByte ==
    ASSUME NEW bytes \in Seq(Byte), NEW p \in Nat
    PROVE  ByteAt(bytes, p) \in Byte
<1>1. CASE p < Len(bytes)
  <2>1. p + 1 \in 1..Len(bytes)
    BY <1>1, LenProperties
  <2> QED BY <1>1, <2>1, ElementOfSeq DEF ByteAt
<1>2. CASE ~(p < Len(bytes))
  BY <1>2 DEF ByteAt, Byte
<1> QED BY <1>1, <1>2

(* Where an item begins whose header is there. *)
LEMMA PayloadPlace ==
    ASSUME NEW bytes \in Seq(Byte), NEW p \in Nat
    PROVE  /\ PayloadAt(bytes, p) \in Nat /\ PayloadAt(bytes, p) >= p
           /\ PayloadAt(bytes, p) = p <=> IsSingle(ByteAt(bytes, p))
           /\ HasHeader(bytes, p) => p < Len(bytes) /\ PayloadAt(bytes, p) <= Len(bytes)
           /\ HeaderLen(ByteAt(bytes, p)) \in 1..9
           /\ ~IsSingle(ByteAt(bytes, p)) =>
                 PayloadAt(bytes, p) = p + HeaderLen(ByteAt(bytes, p))
<1>1. HeaderLen(ByteAt(bytes, p)) \in 1..9
  BY ByteAtIsByte, HeaderLenBounds
<1>2. Len(bytes) \in Nat
  BY LenProperties
<1> QED BY <1>1, <1>2 DEF PayloadAt, HasHeader, RLP_BUFFER

LEMMA StartPlace ==
    ASSUME NEW bytes \in Seq(Byte)
    PROVE  /\ PayloadAt(bytes, 0) \in Nat /\ StartOf(bytes) \in Nat
BY PayloadPlace DEF StartOf

LEMMA HeaderParts ==
    ASSUME NEW bytes \in Seq(Byte), NEW p \in Nat, HasHeader(bytes, p)
    PROVE  /\ HeaderAt(bytes, p) \in Seq(Byte)
           /\ Len(HeaderAt(bytes, p)) = HeaderLen(ByteAt(bytes, p))
           /\ HeaderAt(bytes, p)[1] = ByteAt(bytes, p)
           /\ HeaderLen(ByteAt(bytes, p)) \in 1..5
           /\ LengthAt(bytes, p) \in Nat
<1>1. PICK size \in 1..9 : size = HeaderLen(ByteAt(bytes, p))
  BY PayloadPlace
<1>2. PICK h : h = SubSeq(bytes, p + 1, p + size)
  OBVIOUS
<1>3. h = HeaderAt(bytes, p)
  BY <1>1, <1>2 DEF HeaderAt
<1>4. p + size <= Len(bytes) /\ size \in 1..5
  BY <1>1 DEF HasHeader, RLP_BUFFER
<1>5. h \in Seq(Byte) /\ Len(h) = size /\ h[1] = bytes[p + 1]
  BY <1>2, <1>4, Part
<1>6. ByteAt(bytes, p) = bytes[p + 1]
  BY <1>4, LenProperties DEF ByteAt
<1>7. LengthAt(bytes, p) \in Nat
  BY <1>1, <1>3, <1>4, <1>5, <1>6, FieldLengthNat DEF LengthAt
<1> QED BY <1>1, <1>3, <1>4, <1>5, <1>6, <1>7

LEMMA SingleByte ==
    ASSUME NEW first \in Byte, IsSingle(first)
    PROVE  LengthBytes(first) = 0 /\ ~IsListHeader(first)
BY DEF LengthBytes, IsSingle, IsListHeader, Byte

LEMMA SingleItem ==
    ASSUME NEW bytes \in Seq(Byte), NEW p \in Nat, HasHeader(bytes, p),
           IsSingle(ByteAt(bytes, p))
    PROVE  LengthAt(bytes, p) = 1 /\ ~IsListAt(bytes, p)
<1>1. ByteAt(bytes, p) \in Byte
  BY ByteAtIsByte
<1>2. LengthBytes(ByteAt(bytes, p)) = 0 /\ ~IsListAt(bytes, p)
  BY <1>1, SingleByte DEF IsListAt
<1> QED BY <1>2, HeaderParts DEF LengthAt, FieldLength, ShortLength

LEMMA BehindPlace ==
    ASSUME NEW bytes \in Seq(Byte), NEW p \in Nat, NEW name
    PROVE  /\ Behind(bytes, name, p) \in Nat
           /\ Behind(bytes, name, p) <= Len(bytes) <=>
                 /\ HasHeader(bytes, p)
                 /\ PayloadAt(bytes, p) + SizeAt(bytes, name, p) <= Len(bytes)
           /\ Behind(bytes, name, p) <= Len(bytes) =>
                 Behind(bytes, name, p) = PayloadAt(bytes, p) + SizeAt(bytes, name, p)
<1>1. Len(bytes) \in Nat /\ PayloadAt(bytes, p) \in Nat
  BY LenProperties, PayloadPlace
<1>2. CASE ~HasHeader(bytes, p)
  BY <1>1, <1>2 DEF Behind
<1>3. CASE HasHeader(bytes, p)
  <2>1. SizeAt(bytes, name, p) \in Nat
    BY <1>3, HeaderParts DEF SizeAt
  <2> QED BY <1>1, <1>3, <2>1 DEF Behind
<1> QED BY <1>2, <1>3

(* The positions of the fields, one after the other. *)
LEMMA Places ==
    ASSUME NEW bytes \in Seq(Byte), NEW type, Supported(type),
           NEW place, place = PlacesOf(bytes, type)
    PROVE  /\ place[1] = StartOf(bytes)
           /\ \A i \in 1 .. Len(Fields(type)) + 1 : place[i] \in Nat
           /\ \A i \in DOMAIN Fields(type) :
                 place[i + 1] = IF Absent(type, i) THEN place[i]
                                ELSE Behind(bytes, Fields(type)[i], place[i])
<1> DEFINE names == Fields(type)
           m == Len(names)
           After(i, p) == IF Absent(type, i) THEN p ELSE Behind(bytes, names[i], p)
           step == [i \in 1..m |-> [p \in Nat |-> After(i, p)]]
           Is(f) == f = [i \in 1 .. m + 1 |->
                            IF i = 1 THEN StartOf(bytes)
                            ELSE IF Absent(type, i - 1) THEN f[i - 1]
                            ELSE Behind(bytes, names[i - 1], f[i - 1])]
<1>1. m \in Nat /\ DOMAIN names = 1..m
  BY FieldsOrderly DEF Orderly
<1>2. step \in [1..m -> [Nat -> Nat]]
  BY BehindPlace
<1>3. PICK g : Stepwise(g, m, Nat, StartOf(bytes), step)
  <2> HIDE DEF step, m
  <2> QED BY <1>1, <1>2, StartPlace, StepwiseExists
<1> DEFINE f == [i \in 1 .. m + 1 |-> g[i - 1]]
<1>4. Is(f)
  <2>1. ASSUME NEW i \in 1 .. m + 1, i # 1
        PROVE  /\ f[i] = After(i - 1, f[i - 1])
    <3>1. i - 1 \in 1..m /\ (i - 1) - 1 \in 0..m /\ i - 1 \in 1 .. m + 1
      BY <1>1, <2>1
    <3>2. g[i - 1] = step[i - 1][g[(i - 1) - 1]] /\ g[(i - 1) - 1] \in Nat
      BY <1>3, <3>1 DEF Stepwise
    <3>3. f[i] = g[i - 1] /\ f[i - 1] = g[(i - 1) - 1]
      BY <3>1
    <3> QED BY <3>1, <3>2, <3>3
  <2>2. 1 \in 1 .. m + 1 /\ f[1] = StartOf(bytes)
    BY <1>1, <1>3 DEF Stepwise
  <2> HIDE DEF m, names
  <2> QED BY <2>1, <2>2
<1>5. place = CHOOSE h : Is(h)
  BY DEF PlacesOf
<1>6. Is(place)
  <2> HIDE DEF Is, f
  <2> QED BY <1>4, <1>5
<1>7. /\ place[1] = StartOf(bytes)
      /\ \A i \in 1..m : place[i + 1] = After(i, place[i])
  <2>1. 1 \in 1 .. m + 1
    BY <1>1
  <2>2. ASSUME NEW i \in 1..m PROVE place[i + 1] = After(i, place[i])
    <3>1. i + 1 \in 1 .. m + 1 /\ i + 1 # 1 /\ (i + 1) - 1 = i
      BY <1>1
    <3> HIDE DEF m
    <3> QED BY <1>6, <3>1
  <2> HIDE DEF m
  <2> QED BY <1>6, <2>1, <2>2
<1>8. \A i \in 1 .. m + 1 : place[i] \in Nat
  <2> DEFINE S == {n \in Nat : place[n + 1] \in Nat}
  <2>1. 0 \in S
    BY <1>7, StartPlace
  <2>2. ASSUME NEW n \in 0 .. m - 1, n \in S PROVE n + 1 \in S
    <3>1. n + 1 \in 1..m
      BY <1>1
    <3>2. After(n + 1, place[n + 1]) \in Nat
      BY <2>2, BehindPlace
    <3> QED BY <1>7, <3>1, <3>2
  <2>3. \A n \in 0..m : n \in S
    <3> HIDE DEF S, m
    <3> QED BY <1>1, <2>1, <2>2, BoundedInduction
  <2>4. ASSUME NEW i \in 1 .. m + 1 PROVE place[i] \in Nat
    <3>1. i - 1 \in 0..m /\ (i - 1) + 1 = i
      BY <1>1
    <3> QED BY <2>3, <3>1
  <2> QED BY <2>4
<1> QED BY <1>1, <1>7, <1>8

------------------------------------------------------------------------------
(* parseRLP. *)

(* What only moves bytes to the header buffer leaves the rest of a context. *)
SameField(c, d) ==
    /\ d.currentField = c.currentField /\ d.processingField = c.processingField
    /\ d.outerRLP = c.outerRLP /\ d.overrun = c.overrun
    /\ d.fieldSingleByte = c.fieldSingleByte

LEMMA BufferSame ==
    ASSUME NEW c \in Contexts, NEW n \in Nat, NEW d, d = Buffer(c, n)
    PROVE  /\ SameField(c, d) /\ d.commandLength = c.commandLength - n
           /\ c.rlpBuffer = <<>> =>
                 d.rlpBuffer = <<>> \o SubSeq(raw, c.workBuffer + 1, c.workBuffer + n)
BY DEF SameField, Buffer, Consume, Contexts

LEMMA BeginSame ==
    ASSUME NEW c \in Contexts, NEW h, NEW d, d = BeginField(c, h)
    PROVE  /\ d.currentField = c.currentField
           /\ d.outerRLP = c.outerRLP /\ d.overrun = c.overrun
           /\ d.workBuffer = c.workBuffer /\ d.commandLength = c.commandLength
           /\ d.rlpBuffer = <<>>
           /\ d.processingField = (c.processingField \/ ~c.outerRLP)
           /\ d.fieldSingleByte = IsSingle(h[1])
           /\ d.currentFieldLength = FieldLength(h)
           /\ d.currentFieldIsList = IsListHeader(h[1])
BY DEF BeginField, Contexts

(* What parseRLP makes of the bytes when nothing is in the header buffer: the
   item, if its header is there. *)
ReadsHeader(bytes, c, at, d, answer) ==
    /\ d.currentField = c.currentField /\ d.outerRLP = c.outerRLP
    /\ d.overrun = c.overrun
    /\ HasHeader(bytes, at) =>
          /\ answer = "CONTINUE" /\ d.rlpBuffer = <<>>
          /\ d.workBuffer = PayloadAt(bytes, at)
          /\ d.currentFieldLength = LengthAt(bytes, at)
          /\ d.currentFieldIsList = IsListAt(bytes, at)
          /\ d.fieldSingleByte = IsSingle(ByteAt(bytes, at))
          /\ d.processingField = (c.processingField \/ ~c.outerRLP)
    /\ ~HasHeader(bytes, at) =>
          /\ answer \in {"PROCESSING", "ERROR"}
          /\ d.processingField = c.processingField
          /\ d.fieldSingleByte = c.fieldSingleByte
          /\ \/ Len(d.rlpBuffer) = RLP_BUFFER
             \/ d.commandLength = 0 /\ Len(d.rlpBuffer) = c.commandLength

LEMMA ParseFresh ==
    ASSUME raw \in Seq(Byte), NEW c, Sound(c), c.rlpBuffer = <<>>,
           NEW p, p = ParseRLP(c), NEW d, d = p.ctx, NEW at, at = c.workBuffer
    PROVE  ReadsHeader(raw, c, at, d, p.status)
<1> SUFFICES /\ d.currentField = c.currentField /\ d.outerRLP = c.outerRLP
             /\ d.overrun = c.overrun
             /\ HasHeader(raw, at) =>
                   /\ p.status = "CONTINUE" /\ d.rlpBuffer = <<>>
                   /\ d.workBuffer = PayloadAt(raw, at)
                   /\ d.currentFieldLength = LengthAt(raw, at)
                   /\ d.currentFieldIsList = IsListAt(raw, at)
                   /\ d.fieldSingleByte = IsSingle(ByteAt(raw, at))
                   /\ d.processingField = (c.processingField \/ ~c.outerRLP)
             /\ ~HasHeader(raw, at) =>
                   /\ p.status \in {"PROCESSING", "ERROR"}
                   /\ d.processingField = c.processingField
                   /\ d.fieldSingleByte = c.fieldSingleByte
                   /\ \/ Len(d.rlpBuffer) = RLP_BUFFER
                      \/ d.commandLength = 0 /\ Len(d.rlpBuffer) = c.commandLength
  BY DEF ReadsHeader
<1> DEFINE first == FirstByte(c)
           size == HeaderLen(first)
           left == c.commandLength
<1>1. /\ c \in Contexts /\ at + left = Len(raw) /\ at \in Nat /\ left \in Nat
      /\ Len(raw) \in Nat /\ Len(c.rlpBuffer) = 0
  BY LenProperties, EmptySeq DEF Sound, Contexts
<1>2. CASE left = 0
  <2>1. ~HasHeader(raw, at)
    BY <1>1, <1>2, PayloadPlace
  <2>2. p.status = "PROCESSING" /\ d = c
    BY <1>2 DEF ParseRLP, Parsed
  <2> QED BY <1>1, <1>2, <2>1, <2>2
<1>3. ASSUME left # 0
      PROVE  /\ first = ByteAt(raw, at) /\ size \in 1..9
             /\ Wanted(c) = IF size > 5 THEN 5 ELSE size
             /\ HasHeader(raw, at) <=> size <= left /\ size <= 5
  <2>1. first = ByteAt(raw, at)
    BY <1>1, <1>3 DEF FirstByte, ByteAt
  <2>2. size \in 1..9
    BY <1>1, <2>1, PayloadPlace
  <2>3. Wanted(c) = (IF size > 5 THEN 5 ELSE size) - 0
    BY <1>1 DEF Wanted, RLP_BUFFER
  <2>4. Wanted(c) = IF size > 5 THEN 5 ELSE size
    BY <2>2, <2>3
  <2>5. HasHeader(raw, at) <=> at + size <= Len(raw) /\ size <= 5
    BY <2>1 DEF HasHeader, RLP_BUFFER
  <2> QED BY <1>1, <2>1, <2>2, <2>4, <2>5
<1>4. CASE left # 0 /\ left < Wanted(c)
  <2>1. p = Parsed("PROCESSING", Buffer(c, left))
    BY <1>1, <1>4 DEF ParseRLP, RLP_BUFFER
  <2>2. p.status = "PROCESSING" /\ d = Buffer(c, left)
    BY <2>1 DEF Parsed
  <2>3. SameField(c, d) /\ d.commandLength = 0
    <3>1. PICK n \in Nat : n = left
      BY <1>1
    <3>2. d = Buffer(c, n)
      BY <2>2, <3>1
    <3>3. SameField(c, d) /\ d.commandLength = left - n
      BY <1>1, <3>2, BufferSame
    <3> QED BY <3>1, <3>3
  <2>4. Len(d.rlpBuffer) = left
    <3>1. Len(d.rlpBuffer) = Len(c.rlpBuffer) + left
      BY <1>1, <2>2, BufferSound
    <3> QED BY <1>1, <3>1
  <2>5. ~HasHeader(raw, at)
    BY <1>1, <1>3, <1>4
  <2> QED BY <1>1, <2>2, <2>3, <2>4, <2>5 DEF SameField
<1>5. CASE left # 0 /\ ~(left < Wanted(c)) /\ size > RLP_BUFFER
  <2>1. p = Parsed("ERROR", Buffer(c, Wanted(c)))
    BY <1>1, <1>5 DEF ParseRLP, RLP_BUFFER
  <2>2. p.status = "ERROR" /\ d = Buffer(c, Wanted(c)) /\ Wanted(c) = 5
    BY <1>3, <1>5, <2>1 DEF Parsed, RLP_BUFFER
  <2>3. SameField(c, d)
    BY <1>1, <2>2, BufferSame
  <2>4. Len(d.rlpBuffer) = 5
    <3>1. PICK n \in Nat : n = Wanted(c) /\ n = 5 /\ n <= left
      BY <1>1, <1>5, <2>2
    <3>2. d = Buffer(c, n) /\ n <= c.commandLength
      BY <1>1, <2>2, <3>1
    <3>3. n \in Nat /\ c \in Contexts /\ c.workBuffer + c.commandLength = Len(raw)
      BY <1>1, <3>1
    <3>4. Len(d.rlpBuffer) = Len(c.rlpBuffer) + n
      BY <3>2, <3>3, BufferSound
    <3> QED BY <1>1, <3>1, <3>4
  <2>5. ~HasHeader(raw, at)
    BY <1>3, <1>5 DEF RLP_BUFFER
  <2> QED BY <2>2, <2>3, <2>4, <2>5 DEF SameField, RLP_BUFFER
<1>6. CASE left # 0 /\ ~(left < Wanted(c)) /\ ~(size > RLP_BUFFER)
  <2> DEFINE h == Buffer(c, Wanted(c)).rlpBuffer
             e == ConsumeHeader(c, h, Wanted(c))
  <2>1. p = Parsed("CONTINUE", BeginField(e, h))
    BY <1>1, <1>6 DEF ParseRLP, RLP_BUFFER
  <2>2. /\ Wanted(c) = size /\ size \in 1..5 /\ size <= left /\ HasHeader(raw, at)
        /\ first = ByteAt(raw, at)
    BY <1>1, <1>3, <1>6 DEF RLP_BUFFER
  <2>3. h = HeaderAt(raw, at)
    <3>1. PICK part : part = SubSeq(raw, at + 1, at + size)
      OBVIOUS
    <3>2. part \in Seq(Byte)
      BY <1>1, <2>2, <3>1, BytesPart
    <3>3. h = <<>> \o part
      <4>1. PICK n \in Nat : n = size
        BY <2>2
      <4>2. PICK f : f = Buffer(c, n)
        OBVIOUS
      <4>3. f.rlpBuffer = <<>> \o SubSeq(raw, c.workBuffer + 1, c.workBuffer + n)
        BY <1>1, <4>1, <4>2, BufferSame
      <4> QED BY <2>2, <3>1, <4>1, <4>2, <4>3
    <3>4. h = part
      BY <3>2, <3>3, ConcatEmptySeq
    <3> QED BY <2>2, <3>1, <3>4 DEF HeaderAt
  <2>4. h[1] = ByteAt(raw, at)
    BY <1>1, <2>2, <2>3, HeaderParts
  <2>5. /\ e \in Contexts /\ SameField(c, e)
        /\ e.workBuffer = PayloadAt(raw, at)
    <3>1. CASE IsSingle(h[1])
      BY <1>1, <2>4, <3>1 DEF ConsumeHeader, SameField, PayloadAt
    <3>2. CASE ~IsSingle(h[1])
      <4>1. e = Consume(c, size)
        BY <2>2, <3>2 DEF ConsumeHeader
      <4>2. e \in Contexts
        BY <1>1, <2>2, <4>1, Consumed
      <4>3. e.workBuffer = at + size /\ SameField(c, e)
        BY <1>1, <4>1 DEF Consume, SameField, Contexts
      <4> QED BY <2>2, <2>4, <3>2, <4>2, <4>3 DEF PayloadAt
    <3> QED BY <3>1, <3>2
  <2>6. p.status = "CONTINUE" /\ d = BeginField(e, h)
    BY <2>1 DEF Parsed
  <2> HIDE DEF h, e
  <2>7. /\ d.currentField = e.currentField
        /\ d.outerRLP = e.outerRLP /\ d.overrun = e.overrun
        /\ d.workBuffer = e.workBuffer
        /\ d.rlpBuffer = <<>>
        /\ d.processingField = (e.processingField \/ ~e.outerRLP)
        /\ d.fieldSingleByte = IsSingle(h[1])
        /\ d.currentFieldLength = FieldLength(h)
        /\ d.currentFieldIsList = IsListHeader(h[1])
    BY <2>5, <2>6, BeginSame
  <2> QED BY <2>2, <2>3, <2>4, <2>5, <2>6, <2>7 DEF SameField, LengthAt, IsListAt
<1> QED BY <1>2, <1>4, <1>5, <1>6

LEMMA ParseStatus ==
    ASSUME NEW c, NEW p, p = ParseRLP(c)
    PROVE  p.status \in {"CONTINUE", "PROCESSING", "ERROR"}
BY DEF ParseRLP, Parsed

(* Without bytes, or with a full header buffer, it finds no header. *)
LEMMA ParseStopped ==
    ASSUME NEW c \in Contexts, NEW p, p = ParseRLP(c)
    PROVE  /\ c.commandLength = 0 => p.status = "PROCESSING" /\ p.ctx = c
           /\ c.commandLength # 0 /\ Len(c.rlpBuffer) = RLP_BUFFER =>
                 p.status = "ERROR" /\ p.ctx.overrun
BY DEF ParseRLP, Parsed, Contexts

(* An item that is not a single byte costs a byte more than it holds. *)
Slack(c) ==
    IF c.processingField /\ (c.currentFieldLength # 1 \/ c.currentFieldIsList)
    THEN 1 ELSE 0

LEMMA ParseShrinks ==
    ASSUME raw \in Seq(Byte), NEW c, Sound(c),
           NEW p, p = ParseRLP(c), p.status = "CONTINUE", NEW d, d = p.ctx
    PROVE  /\ d.currentField = c.currentField /\ d.outerRLP = c.outerRLP
           /\ d.overrun = c.overrun /\ d.rlpBuffer = <<>>
           /\ d.processingField = (c.processingField \/ ~c.outerRLP)
           /\ d.commandLength + Slack(d) <= c.commandLength
<1> DEFINE len == Len(c.rlpBuffer)
           first == FirstByte(c)
           size == HeaderLen(first)
           left == c.commandLength
           h == Buffer(c, Wanted(c)).rlpBuffer
           e == ConsumeHeader(c, h, Wanted(c))
<1>1. /\ c \in Contexts /\ c.workBuffer + left = Len(raw) /\ HeaderOpen(c.rlpBuffer)
      /\ c.rlpBuffer \in Seq(Byte) /\ len \in Nat /\ c.workBuffer \in Nat /\ left \in Nat
  BY LenProperties DEF Sound, Contexts, ByteStrings
<1>2. /\ left # 0 /\ len # RLP_BUFFER /\ ~(left < Wanted(c)) /\ ~(size > RLP_BUFFER)
      /\ d = BeginField(e, h)
  BY DEF ParseRLP, Parsed
<1>3. first \in Byte
  <2>1. CASE len = 0
    BY <1>1, <1>2, <2>1, ElementOfSeq, LenProperties DEF FirstByte
  <2>2. CASE len # 0
    BY <1>1, <2>2, ElementOfSeq DEF FirstByte
  <2> QED BY <2>1, <2>2
<1>4. size \in 1..9
  BY <1>3, HeaderLenBounds
<1>5. Wanted(c) \in Nat /\ Wanted(c) # 0
  <2>1. len = 0 \/ len < size
    BY <1>1, <1>2 DEF HeaderOpen, FirstByte
  <2> QED BY <1>1, <1>2, <1>4, <2>1 DEF Wanted, RLP_BUFFER
<1>6. h[1] = first
  <2>1. PICK n \in Nat : n = Wanted(c) /\ n <= left /\ n # 0
    BY <1>1, <1>2, <1>5
  <2>2. PICK f : f = Buffer(c, n)
    OBVIOUS
  <2>3. /\ len # 0 => f.rlpBuffer[1] = c.rlpBuffer[1]
        /\ len = 0 => f.rlpBuffer[1] = raw[c.workBuffer + 1]
    BY <1>1, <2>1, <2>2, BufferSound
  <2> QED BY <2>1, <2>2, <2>3 DEF FirstByte
<1>7. CASE IsSingle(first)
  <2>1. e = c
    BY <1>6, <1>7 DEF ConsumeHeader
  <2>2. FieldLength(h) = 1 /\ ~IsListHeader(h[1])
    BY <1>3, <1>6, <1>7, SingleByte DEF FieldLength, ShortLength
  <2> HIDE DEF e, h
  <2> QED BY <1>1, <1>2, <2>1, <2>2, BeginSame DEF Slack
<1>8. CASE ~IsSingle(first)
  <2>1. e = Consume(c, Wanted(c))
    BY <1>6, <1>8 DEF ConsumeHeader
  <2>2. /\ e \in Contexts
        /\ e.commandLength = left - Wanted(c)
        /\ e.currentField = c.currentField /\ e.outerRLP = c.outerRLP
        /\ e.overrun = c.overrun /\ e.processingField = c.processingField
    <3>1. PICK n \in Nat : n = Wanted(c) /\ n <= left
      BY <1>1, <1>2, <1>5
    <3>2. e = Consume(c, n)
      BY <2>1, <3>1
    <3>3. e \in Contexts
      BY <1>1, <3>1, <3>2, Consumed
    <3> HIDE DEF e
    <3> QED BY <1>1, <3>1, <3>2, <3>3 DEF Consume, Contexts
  <2>3. /\ d.commandLength = e.commandLength /\ d.currentField = e.currentField
        /\ d.outerRLP = e.outerRLP /\ d.overrun = e.overrun /\ d.rlpBuffer = <<>>
        /\ d.processingField = (e.processingField \/ ~e.outerRLP)
    <3> HIDE DEF e, h
    <3> QED BY <1>2, <2>2, BeginSame
  <2>4. d.commandLength + 1 <= left /\ d.commandLength \in Int
    <3> HIDE DEF e
    <3> QED BY <1>1, <1>2, <1>5, <2>2, <2>3
  <2>5. Slack(d) = 0 \/ Slack(d) = 1
    BY DEF Slack
  <2> HIDE DEF e
  <2> QED BY <1>1, <2>2, <2>3, <2>4, <2>5
<1> QED BY <1>7, <1>8

------------------------------------------------------------------------------
(* What has been read of the items. *)

ReadTo(bytes, t, k) ==
    \A i \in 1..k :
        \/ Absent(t.txType, i)
        \/ IsField(bytes, t.txType, i) /\ Says(t, bytes, i)

(* An empty item leaves the ratio as it was, so it must have been empty. *)
NoRatioYet(t, k) ==
    (\A i \in 1..k : Fields(t.txType)[i] = "ratio" => Absent(t.txType, i)) =>
        t.ratio = <<>>

Upto(bytes, t, i) == ReadTo(bytes, t, i - 1) /\ NoRatioYet(t, i - 1)

(* The type is the one the bytes tell, and what tells it, if it was not a byte
   behind them, is the type's own item. *)
Known(bytes, type) ==
    /\ Decodable(bytes) => type = TypeOf(bytes)
    /\ type # LEGACY /\ PayloadAt(bytes, StartOf(bytes)) < Len(bytes) =>
          ByteAt(bytes, PayloadAt(bytes, StartOf(bytes))) = type

LEMMA ItemThere ==
    ASSUME NEW bytes \in Seq(Byte), NEW type, Supported(type),
           NEW i \in DOMAIN Fields(type), IsField(bytes, type, i),
           NEW p, p = PlacesOf(bytes, type)[i],
           NEW name, name = Fields(type)[i]
    PROVE  /\ p \in Nat /\ HasHeader(bytes, p) /\ p < Len(bytes)
           /\ PayloadAt(bytes, p) + SizeAt(bytes, name, p) <= Len(bytes)
           /\ Behind(bytes, name, p) = PayloadAt(bytes, p) + SizeAt(bytes, name, p)
<1>1. i \in 1 .. Len(Fields(type)) + 1
  BY FieldsOrderly DEF Orderly
<1>2. p \in Nat
  BY <1>1, Places
<1>3. Behind(bytes, name, p) <= Len(bytes)
  BY DEF IsField
<1> QED BY <1>2, <1>3, BehindPlace, PayloadPlace

(* A field whose item is not there, when all in front of it are. *)
LEMMA NotDecodable ==
    ASSUME NEW bytes \in Seq(Byte), NEW t, Supported(t.txType), Known(bytes, t.txType),
           NEW i \in DOMAIN Fields(t.txType), ~Absent(t.txType, i),
           ReadTo(bytes, t, i - 1), ~IsField(bytes, t.txType, i),
           t.txType = LEGACY /\ i = LEGACY_RLP_CHAIN_ID =>
               PlacesOf(bytes, t.txType)[i] # Len(bytes)
    PROVE  ~Decodable(bytes)
<1> SUFFICES ASSUME Decodable(bytes) PROVE FALSE
  OBVIOUS
<1>1. TypeOf(bytes) = t.txType
  BY DEF Known
<1>2. CASE \A j \in DOMAIN Fields(t.txType) :
              Absent(t.txType, j) \/ IsField(bytes, t.txType, j)
  BY <1>2
<1>3. CASE /\ t.txType = LEGACY
           /\ \A j \in 1 .. LEGACY_RLP_CHAIN_ID - 1 : IsField(bytes, t.txType, j)
           /\ PlacesOf(bytes, t.txType)[LEGACY_RLP_CHAIN_ID] = Len(bytes)
  <2>1. i \in Nat /\ i > 7
    <3>1. i \in 1..Len(Fields(t.txType)) /\ Len(Fields(t.txType)) \in Nat
      BY FieldsOrderly DEF Orderly
    <3>2. ~(i \in 1 .. LEGACY_RLP_CHAIN_ID - 1) /\ i # 7
      BY <1>3 DEF LEGACY_RLP_CHAIN_ID
    <3> QED BY <3>1, <3>2 DEF LEGACY_RLP_CHAIN_ID
  <2>2. 7 \in 1 .. i - 1 /\ 7 \in DOMAIN Fields(t.txType)
    BY <2>1, FieldsOrderly DEF Orderly
  <2>3. IsField(bytes, t.txType, 7)
    BY <1>3, <2>2 DEF ReadTo, Absent
  <2>4. PlacesOf(bytes, t.txType)[7] < Len(bytes)
    BY <2>2, <2>3, ItemThere
  <2> QED BY <1>3, <2>4, LenProperties DEF LEGACY_RLP_CHAIN_ID
<1> QED BY <1>1, <1>2, <1>3 DEF Decodable

LEMMA SmallTypes ==
    ASSUME NEW type, Supported(type), type # LEGACY PROVE type \in Nat /\ type <= 58
BY DEF Supported, TypesOf, FirstType, Kinds

LEMMA OneByte ==
    ASSUME NEW bytes \in Seq(Byte), NEW p \in Nat, p < Len(bytes)
    PROVE  SubSeq(bytes, p + 1, p + 1) = <<bytes[p + 1]>>
<1>1. PICK n \in 1..9 : n = 1
  OBVIOUS
<1>2. PICK part : part = SubSeq(bytes, p + 1, p + n)
  OBVIOUS
<1>3. p + n <= Len(bytes)
  BY <1>1, LenProperties
<1>4. part \in Seq(Byte) /\ Len(part) = 1 /\ part[1] = bytes[p + 1]
  <2>1. part \in Seq(Byte) /\ Len(part) = n /\ part[1] = bytes[p + 1]
    BY <1>2, <1>3, Part
  <2> QED BY <1>1, <2>1
<1>5. PICK one : one = <<bytes[p + 1]>>
  OBVIOUS
<1>6. bytes[p + 1] \in Byte
  BY <1>4, ElementOfSeq
<1>7. one \in Seq(Byte) /\ Len(one) = 1 /\ one[1] = bytes[p + 1]
  BY <1>5, <1>6
<1>8. part = one
  BY <1>4, <1>7, SeqEqual
<1> QED BY <1>1, <1>2, <1>5, <1>8

(* The item of the type is the type, a single byte. *)
LEMMA TypeItem ==
    ASSUME NEW bytes \in Seq(Byte), NEW t, Supported(t.txType), Known(bytes, t.txType),
           NEW i \in DOMAIN Fields(t.txType), Fields(t.txType)[i] = "type",
           ReadTo(bytes, t, i - 1),
           NEW p, p = PlacesOf(bytes, t.txType)[i], HasHeader(bytes, p)
    PROVE  PayloadOf(bytes, p) = <<t.txType>>
<1> DEFINE type == t.txType
<1>1. i = 2 /\ Fields(type)[1] = "content" /\ type # LEGACY /\ 1 \in DOMAIN Fields(type)
  BY FieldsOrderly DEF Orderly
<1>2. ~Absent(type, 1) /\ IsField(bytes, type, 1)
  <2>1. ~Absent(type, 1)
    BY <1>1 DEF Absent
  <2>2. 1 \in 1 .. i - 1
    BY <1>1
  <2> QED BY <2>1, <2>2 DEF ReadTo
<1>3. p = PayloadAt(bytes, StartOf(bytes))
  <2>1. p = Behind(bytes, "content", StartOf(bytes))
    BY <1>1, <1>2, Places
  <2>2. Behind(bytes, "content", StartOf(bytes)) = PayloadAt(bytes, StartOf(bytes)) + 0
    BY <1>1, <1>2, Places, ItemThere DEF SizeAt
  <2> QED BY <2>1, <2>2, StartPlace, PayloadPlace
<1>4. p \in Nat /\ p < Len(bytes)
  BY <1>3, StartPlace, PayloadPlace
<1>5. ByteAt(bytes, p) = type /\ bytes[p + 1] = type
  BY <1>1, <1>3, <1>4 DEF Known, ByteAt
<1>6. IsSingle(ByteAt(bytes, p))
  <2>1. type \in Nat /\ type <= 58
    BY <1>1, SmallTypes
  <2>2. PICK n \in Nat : n = ByteAt(bytes, p) /\ n <= 58
    BY <1>5, <2>1
  <2>3. n <= 127
    BY <2>2
  <2> QED BY <2>2, <2>3 DEF IsSingle
<1>7. PayloadAt(bytes, p) = p /\ LengthAt(bytes, p) = 1
  BY <1>4, <1>6, SingleItem DEF PayloadAt
<1>8. SubSeq(bytes, p + 1, p + 1) = <<bytes[p + 1]>>
  BY <1>4, OneByte
<1> QED BY <1>5, <1>7, <1>8 DEF PayloadOf

(* What storing a field leaves of the others. *)
Keeps(name, bytes, u) ==
    /\ name # "type" \/ bytes = <<tx.txType>> => u.txType = tx.txType
    /\ \A other \in {"nonce", "gasprice", "startgas", "to", "chainID"} :
          u[other] = IF other = name THEN bytes ELSE tx[other]
    /\ name = "value" => u.value = bytes
    /\ name \notin {"value", "ratio"} => u.value = tx.value
    /\ name = "ratio" /\ Len(bytes) <= 1 => u.value = tx.value
    /\ name = "ratio" /\ tx.value = <<>> => u.value = <<>>
    /\ name # "ratio" => u.ratio = tx.ratio
    /\ name = "ratio" => u.ratio = IF bytes = <<>> THEN tx.ratio ELSE <<bytes[1]>>

LEMMA StoreKeeps ==
    ASSUME Fits(tx), NEW name, NEW bytes \in ByteStrings, NEW u \in Store(name, bytes),
           name = "to" => Len(bytes) <= ADDRESS_LEN
    PROVE  Keeps(name, bytes, u)
<1> USE DEF Keeps
<1>1. CASE name = "type"
  <2>1. CASE Len(bytes) = 0
    <3>1. u = tx
      BY <1>1, <2>1 DEF Store, StoreType
    <3> QED BY <1>1, <2>1, <3>1
  <2>2. CASE Len(bytes) # 0
    <3>1. PICK type \in {bytes[1], OTHER_TYPE} :
              /\ u = [tx EXCEPT !.txType = type]
              /\ Len(bytes) = 1 => type = bytes[1]
      BY <1>1, <2>2 DEF Store, StoreType
    <3>2. bytes = <<tx.txType>> => type = tx.txType
      BY <3>1
    <3> QED BY <1>1, <3>1, <3>2 DEF Fits, Transactions
  <2> QED BY <2>1, <2>2
<1>2. CASE name = "ratio"
  <2>1. PICK v : v = [i \in 1..Len(tx.value) |->
                        IF i < Len(bytes) THEN bytes[i + 1] ELSE tx.value[i]]
    OBVIOUS
  <2>2. PICK r : r = IF bytes = <<>> THEN tx.ratio ELSE <<bytes[1]>>
    OBVIOUS
  <2>3. u = [tx EXCEPT !.ratio = r, !.value = v]
    BY <1>2, <2>1, <2>2 DEF Store, StoreRatio, Fits, Transactions
  <2>4. Len(bytes) <= 1 => v = tx.value
    <3> SUFFICES ASSUME Len(bytes) <= 1 PROVE v = tx.value
      OBVIOUS
    <3>1. Len(bytes) \in Nat /\ tx.value \in Seq(Byte) /\ Len(tx.value) \in Nat
      BY LenProperties DEF Fits, Transactions, ByteStrings
    <3>2. \A i \in 1..Len(tx.value) : ~(i < Len(bytes))
      BY <3>1
    <3>3. v = [i \in 1..Len(tx.value) |-> tx.value[i]]
      BY <2>1, <3>2
    <3>4. DOMAIN tx.value = 1..Len(tx.value) /\ tx.value = [i \in DOMAIN tx.value |-> tx.value[i]]
      BY <3>1, LenProperties
    <3> QED BY <3>3, <3>4
  <2>5. tx.value = <<>> => v = <<>>
    <3> SUFFICES ASSUME tx.value = <<>> PROVE v = <<>>
      OBVIOUS
    <3>1. v \in Seq(Byte) /\ Len(v) = Len(tx.value)
      BY <2>1, RatioOverValue DEF Fits, Transactions, ByteStrings
    <3>2. Len(v) = 0
      BY <3>1, EmptySeq
    <3> QED BY <3>1, <3>2, EmptySeq
  <2> QED BY <1>2, <2>2, <2>3, <2>4, <2>5 DEF Fits, Transactions
<1>3. CASE name \in {"nonce", "gasprice", "startgas", "to", "value", "chainID"}
  <2>1. u = [tx EXCEPT ![name] = bytes]
    BY <1>3 DEF Store, StoreTo
  <2> QED BY <1>3, <2>1 DEF Fits, Transactions
<1>4. CASE name \notin {"type", "ratio", "nonce", "gasprice", "startgas", "to", "value",
                        "chainID"}
  <2>1. u = tx
    BY <1>4 DEF Store
  <2> QED BY <1>4, <2>1
<1> QED BY <1>1, <1>2, <1>3, <1>4

(* A field whose item is there is stored as the item says, and what was stored
   before it stays, but for a value that a long ratio runs over. *)
LEMMA FieldStored ==
    ASSUME raw \in Seq(Byte), Fits(tx), NEW type, type = tx.txType,
           Supported(type), Known(raw, type),
           NEW i \in DOMAIN Fields(type), ~Absent(type, i), Upto(raw, tx, i),
           IsField(raw, type, i), NEW name, name = Fields(type)[i],
           NEW payload, payload = PayloadOf(raw, PlacesOf(raw, type)[i]),
           NEW bytes \in ByteStrings, name # "content" => bytes = payload,
           name \in {"ratio", "to"} => Len(bytes) = LengthAt(raw, PlacesOf(raw, type)[i]),
           NEW u \in Store(name, bytes)
    PROVE  u.txType = type /\ ReadTo(raw, u, i) /\ NoRatioYet(u, i)
<1>1. i \in Nat /\ i \in 1..Len(Fields(type)) /\ i - 1 \in Nat
  BY FieldsOrderly DEF Orderly
<1>2. name = "type" => payload = <<type>>
  <2> SUFFICES ASSUME name = "type" PROVE payload = <<type>>
    OBVIOUS
  <2>1. HasHeader(raw, PlacesOf(raw, type)[i]) /\ ReadTo(raw, tx, i - 1)
    BY ItemThere DEF Upto
  <2> QED BY <2>1, TypeItem
<1>3. /\ u.txType = type
      /\ \A other \in {"nonce", "gasprice", "startgas", "to", "chainID"} :
            u[other] = IF other = name THEN bytes ELSE tx[other]
      /\ name = "value" => u.value = bytes
      /\ name \notin {"value", "ratio"} => u.value = tx.value
      /\ name = "ratio" /\ Len(bytes) <= 1 => u.value = tx.value
      /\ name # "ratio" => u.ratio = tx.ratio
      /\ name = "ratio" => u.ratio = IF bytes = <<>> THEN tx.ratio ELSE <<bytes[1]>>
  <2>1. name = "to" => Len(bytes) <= ADDRESS_LEN
    <3> SUFFICES ASSUME name = "to" PROVE Len(bytes) <= ADDRESS_LEN
      OBVIOUS
    <3>1. ~(Len(bytes) > ADDRESS_LEN)
      BY DEF IsField, TooLong
    <3> QED BY <3>1, LimitsAssumption, LenProperties DEF ByteStrings
  <2>2. Keeps(name, bytes, u)
    BY <2>1, StoreKeeps
  <2> QED BY <1>2, <2>2 DEF Keeps
<1>4. name = "ratio" => tx.ratio = <<>>
  <2> SUFFICES ASSUME name = "ratio" PROVE tx.ratio = <<>>
    OBVIOUS
  <2>1. ASSUME NEW j \in 1 .. i - 1 PROVE Fields(type)[j] # "ratio"
    <3>1. j \in DOMAIN Fields(type) /\ j # i
      BY <1>1, FieldsOrderly DEF Orderly
    <3>2. Fields(type)[j] = Fields(type)[i] /\ Fields(type)[j] \in Stored => j = i
      BY <3>1, FieldsOrderly DEF Orderly
    <3> QED BY <3>1, <3>2 DEF Stored
  <2> QED BY <2>1 DEF Upto, NoRatioYet
<1>5. name = "ratio" => HasLongRatio(raw, type) \/ u.value = tx.value
  <2> SUFFICES ASSUME name = "ratio", ~(Len(bytes) <= 1) PROVE HasLongRatio(raw, type)
    BY <1>3
  <2>1. Len(bytes) \in Nat
    BY LenProperties DEF ByteStrings
  <2>2. LengthAt(raw, PlacesOf(raw, type)[i]) > 1
    BY <2>1
  <2> QED BY <2>2 DEF HasLongRatio
<1>6. Says(u, raw, i)
  BY <1>2, <1>3, <1>4 DEF Says
<1>7. ASSUME NEW j \in 1 .. i - 1, Says(tx, raw, j)
      PROVE  Says(u, raw, j)
  <2>1. j \in DOMAIN Fields(type) /\ j # i
    BY <1>1, FieldsOrderly DEF Orderly
  <2>2. Fields(type)[j] \in Stored => Fields(type)[j] # name
    BY <2>1, FieldsOrderly DEF Orderly
  <2> DEFINE other == Fields(type)[j]
             said == PayloadOf(raw, PlacesOf(raw, type)[j])
  <2>3. /\ other \in {"nonce", "gasprice", "startgas", "to", "chainID"} => tx[other] = said
        /\ other = "type" => said = <<type>>
        /\ other = "value" => tx.value = said \/ HasLongRatio(raw, type)
        /\ other = "ratio" => tx.ratio = IF said = <<>> THEN <<>> ELSE <<said[1]>>
    BY <1>7 DEF Says
  <2>4. /\ other \in {"nonce", "gasprice", "startgas", "to", "chainID"} => u[other] = said
        /\ other = "type" => said = <<u.txType>>
        /\ other = "value" => u.value = said \/ HasLongRatio(raw, type)
        /\ other = "ratio" => u.ratio = IF said = <<>> THEN <<>> ELSE <<said[1]>>
    <3> HIDE DEF said
    <3> QED BY <1>3, <1>5, <2>2, <2>3 DEF Stored
  <2> QED BY <1>3, <2>4 DEF Says
<1>8. ReadTo(raw, u, i)
  <2>1. ASSUME NEW j \in 1..i
        PROVE  Absent(type, j) \/ (IsField(raw, type, j) /\ Says(u, raw, j))
    <3>1. j = i \/ j \in 1 .. i - 1
      BY <1>1
    <3> QED BY <1>6, <1>7, <3>1 DEF Upto, ReadTo
  <2> QED BY <1>3, <2>1 DEF ReadTo
<1>9. NoRatioYet(u, i)
  <2> SUFFICES ASSUME \A j \in 1..i : Fields(type)[j] = "ratio" => Absent(type, j)
               PROVE  u.ratio = <<>>
    BY <1>3 DEF NoRatioYet
  <2>1. name # "ratio"
    BY <1>1
  <2>2. \A j \in 1 .. i - 1 : Fields(type)[j] = "ratio" => Absent(type, j)
    BY <1>1
  <2> QED BY <1>3, <2>1, <2>2 DEF Upto, NoRatioYet
<1> QED BY <1>3, <1>8, <1>9

(* The field behind the one that was read: a ratio that the type has not is
   skipped. *)
LEMMA SkipFacts ==
    ASSUME NEW type, Supported(type), NEW i \in DOMAIN Fields(type),
           NEW skip, skip = Skips(i, type)
    PROVE  /\ skip \in {0, 1} /\ i + skip \in DOMAIN Fields(type)
           /\ skip = 1 => /\ Absent(type, i + 1) /\ type # LEGACY /\ i >= 6
                          /\ Fields(type)[i] \in {"discard", "data"}
                          /\ Skips(i + 1, type) = 0
           /\ i + 1 + skip \in DOMAIN Fields(type) => ~Absent(type, i + 1 + skip)
<1>1. /\ DOMAIN Fields(type) = 1..Len(Fields(type)) /\ Len(Fields(type)) \in Nat
      /\ \A j \in DOMAIN Fields(type) : Fields(type)[j] = "ratio" =>
            j >= 7 /\ Fields(type)[j - 1] \in {"discard", "data"}
  BY FieldsOrderly DEF Orderly
<1>2. i \in Nat /\ i >= 1 /\ i <= Len(Fields(type))
  BY <1>1
<1>3. CASE skip = 1
  <2>1. /\ type # LEGACY /\ type \notin PartialFeeDelegated
        /\ i + 1 \in DOMAIN Fields(type) /\ Fields(type)[i + 1] = "ratio"
    BY <1>1, <1>2, <1>3 DEF Skips
  <2>2. i + 1 >= 7 /\ Fields(type)[(i + 1) - 1] \in {"discard", "data"} /\ (i + 1) - 1 = i
    BY <1>1, <1>2, <2>1
  <2>3. ~(i + 2 \in DOMAIN Fields(type) /\ Fields(type)[i + 2] = "ratio")
    <3> SUFFICES ASSUME i + 2 \in DOMAIN Fields(type), Fields(type)[i + 2] = "ratio" PROVE FALSE
      OBVIOUS
    <3>1. PICK j \in DOMAIN Fields(type) : j = i + 2 /\ j - 1 = i + 1
      BY <1>2
    <3>2. Fields(type)[j - 1] \in {"discard", "data"}
      BY <1>1, <3>1
    <3> QED BY <2>1, <3>1, <3>2
  <2>4. Skips(i + 1, type) = 0
    <3>1. i + 1 < Len(Fields(type)) => i + 2 \in DOMAIN Fields(type)
      BY <1>1, <1>2
    <3>2. (i + 1) + 1 = i + 2
      BY <1>2
    <3> QED BY <2>3, <3>1, <3>2 DEF Skips
  <2>5. i + 1 + skip = i + 2
    BY <1>2, <1>3
  <2> QED BY <1>2, <1>3, <2>1, <2>2, <2>3, <2>4, <2>5 DEF Absent
<1>4. CASE skip # 1
  <2>1. skip = 0
    BY <1>4 DEF Skips
  <2>2. i + 1 \in DOMAIN Fields(type) => i < Len(Fields(type))
    BY <1>1, <1>2
  <2>3. i + 1 \in DOMAIN Fields(type) => ~Absent(type, i + 1)
    BY <1>4, <2>2 DEF Absent, Skips
  <2>4. i + skip = i /\ i + 1 + skip = i + 1
    BY <1>2, <2>1
  <2> QED BY <1>4, <2>1, <2>3, <2>4
<1> QED BY <1>3, <1>4

------------------------------------------------------------------------------
(* The invariant: where the parser stands in the items. *)

(* In front of one, with what is in front of that one read; ... *)
Between(bytes, t, c) ==
    /\ ~c.processingField /\ c.rlpBuffer = <<>>
    /\ Known(bytes, t.txType)
    /\ Supported(t.txType) =>
          /\ c.currentField \in 1 .. Len(Fields(t.txType)) + 1
          /\ c.workBuffer = PlacesOf(bytes, t.txType)[c.currentField]
          /\ c.currentField \in DOMAIN Fields(t.txType) =>
                ~Absent(t.txType, c.currentField)
          /\ Upto(bytes, t, c.currentField)

(* ... behind the header of one; ... *)
Within(bytes, t, c) ==
    /\ c.rlpBuffer = <<>>
    /\ Known(bytes, t.txType)
    /\ Supported(t.txType) =>
          LET p == PlacesOf(bytes, t.txType)[c.currentField] IN
          /\ c.currentField \in DOMAIN Fields(t.txType)
          /\ ~Absent(t.txType, c.currentField)
          /\ Upto(bytes, t, c.currentField)
          /\ HasHeader(bytes, p) /\ c.workBuffer = PayloadAt(bytes, p)
          /\ c.currentFieldLength = LengthAt(bytes, p)
          /\ c.currentFieldIsList = IsListAt(bytes, p)

(* ... at one that is at fault and tried again, which reaches the ratio that is
   to be skipped; ... *)
Unlike(c, name) ==
    IF name = "content" THEN ~c.currentFieldIsList
    ELSE c.currentFieldIsList \/ TooLong(name, c.currentFieldLength)

Stuck(bytes, t, c) ==
    /\ ~Decodable(bytes)
    /\ c.processingField
    /\ Supported(t.txType) /\ ~ReportsFaults(t.txType)
    /\ c.currentField \in DOMAIN Fields(t.txType)
    /\ Unlike(c, Fields(t.txType)[c.currentField])

(* ... at the end of the data, in one; ... *)
Cut(bytes, t, c) ==
    /\ ~Decodable(bytes)
    /\ c.commandLength = 0
    /\ Supported(t.txType) /\ c.currentField \in DOMAIN Fields(t.txType)
    /\ t.txType = LEGACY /\ c.currentField = LEGACY_RLP_CHAIN_ID =>
          /\ ReadTo(bytes, t, LEGACY_RLP_CHAIN_ID - 1)
          /\ ~IsField(bytes, LEGACY, LEGACY_RLP_CHAIN_ID)

(* ... anywhere, because a part of a header was read twice, with less data left
   than a transaction needs; ... *)
Lost(bytes, c) ==
    /\ ~Decodable(bytes)
    /\ c.currentField >= 1
    /\ c.currentField + c.commandLength + Slack(c) <= RLP_BUFFER

(* ... or behind a header that does not fit the header buffer or the data. *)
Doomed(bytes, c) ==
    /\ ~Decodable(bytes)
    /\ c.currentField = 1 /\ ~c.processingField
    /\ c.commandLength = 0 \/ Len(c.rlpBuffer) = RLP_BUFFER

(* In front of the headers of the lists. *)
Opened(t, c, p) ==
    /\ c.rlpBuffer = <<>> /\ c.workBuffer = p
    /\ c.currentField = 1 /\ ~c.processingField
    /\ t.ratio = <<>>

Outside(bytes, t, c) == c.outerRLP /\ Opened(t, c, 0)

AtNested(bytes, t, c) ==
    /\ c.outerRLP
    /\ \/ HasHeader(bytes, 0) /\ Opened(t, c, PayloadAt(bytes, 0))
       \/ Doomed(bytes, c)

AtType(bytes, t, c) ==
    /\ ~c.outerRLP
    /\ \/ /\ ~IsSingle(ByteAt(bytes, PayloadAt(bytes, 0)))
          /\ Opened(t, c, StartOf(bytes))
       \/ Doomed(bytes, c)

AtItem(bytes, t, c) ==
    /\ ~c.outerRLP
    /\ \/ Between(bytes, t, c) \/ Stuck(bytes, t, c) \/ Cut(bytes, t, c)
       \/ Lost(bytes, c) \/ Doomed(bytes, c)

InItem(bytes, t, c) ==
    /\ ~c.outerRLP /\ c.processingField
    /\ Within(bytes, t, c) \/ Stuck(bytes, t, c) \/ Lost(bytes, c)

Stands(bytes, t, c, at) ==
    /\ ~c.overrun
    /\ \/ at = "head" /\ (Outside(bytes, t, c) \/ AtItem(bytes, t, c))
       \/ at = "nested" /\ AtNested(bytes, t, c)
       \/ at = "type" /\ AtType(bytes, t, c)
       \/ at = "field" /\ InItem(bytes, t, c)

DecodeInv ==
    /\ status = "running" => Stands(raw, tx, ctx, pc)
    /\ Understood
    /\ DecodableIsAccepted

LEMMA InitDecodeInv == Init => DecodeInv
<1> SUFFICES ASSUME Init PROVE DecodeInv
  OBVIOUS
<1>1. Opened(tx, ctx, 0) /\ ctx.outerRLP /\ ~ctx.overrun
  BY DEF Init, FreshContext, NoTx, Opened
<1> QED BY <1>1 DEF Init, DecodeInv, Stands, Outside, Understood, DecodableIsAccepted

(* What a step has to leave. *)
LEMMA GoesOnOrEnds ==
    ASSUME raw' = raw,
           \/ status' = "running" /\ Stands(raw, tx', ctx', pc')
           \/ status' \notin {"running", "OK"} /\ ~Decodable(raw)
           \/ status' = "OK" /\ IsDecodedFrom(tx', raw)
    PROVE  DecodeInv'
BY DEF DecodeInv, Understood, DecodableIsAccepted

------------------------------------------------------------------------------
(* The lists' headers. *)

LEMMA FirstThere ==
    ASSUME NEW type, Supported(type)
    PROVE  /\ 1 \in DOMAIN Fields(type) /\ 1 \in 1 .. Len(Fields(type)) + 1
           /\ ~Absent(type, 1)
<1>1. /\ Len(Fields(type)) \in 9..15 /\ DOMAIN Fields(type) = 1..Len(Fields(type))
      /\ \A i \in DOMAIN Fields(type) : Fields(type)[i] = "ratio" => i >= 7
  BY FieldsOrderly DEF Orderly
<1>2. 1 \in DOMAIN Fields(type) /\ 1 \in 1 .. Len(Fields(type)) + 1
  BY <1>1
<1> QED BY <1>1, <1>2 DEF Absent

(* A transaction whose first field is not there. *)
LEMMA NeedsItem ==
    ASSUME NEW bytes \in Seq(Byte), ~HasHeader(bytes, StartOf(bytes))
    PROVE  ~Decodable(bytes)
<1> SUFFICES ASSUME Decodable(bytes) PROVE FALSE
  OBVIOUS
<1> DEFINE type == TypeOf(bytes)
<1>1. Supported(type)
  BY DEF Decodable
<1>2. 1 \in DOMAIN Fields(type) /\ ~Absent(type, 1)
  BY <1>1, FirstThere
<1>3. IsField(bytes, type, 1)
  BY <1>2 DEF Decodable, LEGACY_RLP_CHAIN_ID
<1> QED BY <1>1, <1>2, <1>3, ItemThere, Places

LEMMA OuterDecodes ==
    ASSUME ParserInv, DecodeInv, ReadOuterHeader PROVE DecodeInv'
<1>0. PICK p, d : p = ParseRLP(ctx) /\ d = p.ctx
  OBVIOUS
<1>1. /\ raw \in Seq(Byte) /\ Sound(ctx) /\ ctx \in Contexts
      /\ status = "running" /\ pc = "head" /\ ctx.outerRLP /\ ctx.commandLength # 0
      /\ ctx' = d /\ status' = Overruns(ctx') /\ pc' = "nested"
      /\ raw' = raw /\ tx' = tx
  BY <1>0 DEF ReadOuterHeader, GoesOn, AtHead, ParserInv, Sound
<1>2. Opened(tx, ctx, 0) /\ ~ctx.overrun
  BY <1>1 DEF DecodeInv, Stands, Outside, AtItem
<1>3. /\ d.currentField = ctx.currentField /\ d.outerRLP = ctx.outerRLP
      /\ d.overrun = ctx.overrun
      /\ HasHeader(raw, 0) =>
            /\ d.rlpBuffer = <<>> /\ d.workBuffer = PayloadAt(raw, 0)
            /\ d.processingField = (ctx.processingField \/ ~ctx.outerRLP)
      /\ ~HasHeader(raw, 0) =>
            /\ d.processingField = ctx.processingField
            /\ Len(d.rlpBuffer) = RLP_BUFFER \/ d.commandLength = 0
  <2>1. ctx.rlpBuffer = <<>>
    BY <1>2 DEF Opened
  <2>2. PICK at : at = ctx.workBuffer /\ at = 0
    BY <1>2 DEF Opened
  <2>3. ReadsHeader(raw, ctx, at, d, p.status)
    BY <1>0, <1>1, <2>1, <2>2, ParseFresh
  <2> QED BY <2>2, <2>3 DEF ReadsHeader
<1>4. ~HasHeader(raw, 0) => ~Decodable(raw)
  BY DEF Decodable
<1>5. AtNested(raw, tx', ctx')
  BY <1>1, <1>2, <1>3, <1>4 DEF AtNested, Opened, Doomed
<1> QED BY <1>1, <1>2, <1>3, <1>5, GoesOnOrEnds DEF Stands, Overruns

LEMMA FirstField ==
    ASSUME NEW bytes \in Seq(Byte), NEW t, NEW c, Known(bytes, t.txType),
           Opened(t, c, StartOf(bytes))
    PROVE  Between(bytes, t, c)
<1>1. ASSUME Supported(t.txType)
      PROVE  /\ 1 \in 1 .. Len(Fields(t.txType)) + 1
             /\ StartOf(bytes) = PlacesOf(bytes, t.txType)[1]
             /\ ~Absent(t.txType, 1)
  BY <1>1, FirstThere, Places
<1>2. Upto(bytes, t, 1)
  BY DEF Upto, ReadTo, NoRatioYet, Opened
<1> QED BY <1>1, <1>2 DEF Between, Opened

(* A doomed parser reads no header. *)
LEMMA DoomedReads ==
    ASSUME NEW bytes, NEW c \in Contexts, Doomed(bytes, c), ~c.overrun,
           NEW p, p = ParseRLP(c)
    PROVE  /\ p.status # "CONTINUE"
           /\ p.ctx.overrun \/ (c.commandLength = 0 /\ p.ctx = c)
BY ParseStopped DEF Doomed

LEMMA NestedDecodes ==
    ASSUME ParserInv, DecodeInv, ReadNestedHeader PROVE DecodeInv'
<1> DEFINE q == PayloadAt(raw, 0)
<1>0. PICK p, d : p = ParseRLP(ctx) /\ d = p.ctx
  OBVIOUS
<1>1. /\ raw \in Seq(Byte) /\ Sound(ctx) /\ ctx \in Contexts
      /\ status = "running" /\ pc = "nested"
      /\ ctx' = [d EXCEPT !.outerRLP = FALSE] /\ status' = Overruns(ctx')
      /\ raw' = raw
  BY <1>0 DEF ReadNestedHeader, ParserInv, Sound
<1>2. /\ ~ctx.overrun /\ ctx.outerRLP
      /\ (HasHeader(raw, 0) /\ Opened(tx, ctx, q)) \/ Doomed(raw, ctx)
  BY <1>1 DEF DecodeInv, Stands, AtNested
<1>3. /\ d \in Contexts
      /\ ctx'.currentField = d.currentField /\ ~ctx'.outerRLP
      /\ ctx'.overrun = d.overrun /\ ctx'.rlpBuffer = d.rlpBuffer
      /\ ctx'.workBuffer = d.workBuffer /\ ctx'.processingField = d.processingField
      /\ ctx'.commandLength = d.commandLength
      /\ ctx'.fieldSingleByte = d.fieldSingleByte
  <2>1. d \in Contexts
    BY <1>0, <1>1, ParseSound DEF Sound
  <2> QED BY <1>1, <2>1 DEF Contexts
<1>4. /\ d.fieldSingleByte => pc' = "head" /\ tx' = [tx EXCEPT !.txType = LEGACY]
      /\ ~d.fieldSingleByte => pc' = "type" /\ tx' = tx
  BY <1>3 DEF ReadNestedHeader
<1>5. status' = "running" \/ (status' # "OK" /\ d.overrun)
  BY <1>1, <1>3 DEF Overruns
<1>6. CASE Doomed(raw, ctx)
  <2>1. ~Decodable(raw)
    BY <1>6 DEF Doomed
  <2>2. CASE d.overrun
    BY <1>1, <1>3, <2>1, <2>2, GoesOnOrEnds DEF Overruns
  <2>3. CASE ~d.overrun
    <3>1. d = ctx
      BY <1>0, <1>1, <1>2, <1>6, <2>3, DoomedReads
    <3>2. Doomed(raw, ctx')
      BY <1>3, <1>6, <3>1 DEF Doomed
    <3>3. Stands(raw, tx', ctx', pc')
      BY <1>3, <1>4, <2>3, <3>2 DEF Stands, AtItem, AtType
    <3> QED BY <1>1, <1>3, <2>3, <3>3, GoesOnOrEnds DEF Overruns
  <2> QED BY <2>2, <2>3
<1>7. CASE HasHeader(raw, 0) /\ Opened(tx, ctx, q)
  <2>1. ReadsHeader(raw, ctx, q, d, p.status)
    <3>1. PICK at : at = ctx.workBuffer /\ at = q
      BY <1>7 DEF Opened
    <3>2. ctx.rlpBuffer = <<>>
      BY <1>7 DEF Opened
    <3>3. ReadsHeader(raw, ctx, at, d, p.status)
      BY <1>0, <1>1, <3>1, <3>2, ParseFresh
    <3> QED BY <3>1, <3>3
  <2>2. ~d.overrun /\ d.currentField = 1
    BY <1>2, <1>7, <2>1 DEF ReadsHeader, Opened
  <2>3. status' = "running"
    BY <1>1, <1>3, <2>2 DEF Overruns
  <2>4. CASE ~HasHeader(raw, q)
    <3>1. ~Decodable(raw)
      BY <2>4 DEF Decodable
    <3>2. Doomed(raw, ctx')
      BY <1>3, <1>7, <2>1, <2>2, <2>4, <3>1 DEF Doomed, ReadsHeader, Opened
    <3>3. Stands(raw, tx', ctx', pc')
      BY <1>3, <1>4, <2>2, <3>2 DEF Stands, AtItem, AtType
    <3> QED BY <1>1, <2>3, <3>3, GoesOnOrEnds
  <2>5. ASSUME HasHeader(raw, q)
        PROVE  /\ Opened(tx, ctx', StartOf(raw))
               /\ d.fieldSingleByte = IsSingle(ByteAt(raw, q))
    BY <1>2, <1>3, <1>7, <2>1, <2>2, <2>5 DEF ReadsHeader, Opened, StartOf
  <2>6. CASE HasHeader(raw, q) /\ IsSingle(ByteAt(raw, q))
    <3>1. pc' = "head" /\ tx'.txType = LEGACY /\ tx'.ratio = tx.ratio
      BY <1>4, <2>5, <2>6 DEF ParserInv, Fits, Transactions
    <3>2. Known(raw, tx'.txType)
      BY <2>6, <3>1 DEF Known, TypeOf
    <3>3. Opened(tx', ctx', StartOf(raw))
      BY <2>5, <2>6, <3>1 DEF Opened
    <3>4. Between(raw, tx', ctx')
      BY <1>1, <3>2, <3>3, FirstField
    <3>5. Stands(raw, tx', ctx', pc')
      BY <1>3, <2>2, <3>1, <3>4 DEF Stands, AtItem
    <3> QED BY <1>1, <2>3, <3>5, GoesOnOrEnds
  <2>7. CASE HasHeader(raw, q) /\ ~IsSingle(ByteAt(raw, q))
    <3>1. pc' = "type" /\ tx' = tx
      BY <1>4, <2>5, <2>7
    <3>2. Stands(raw, tx', ctx', pc')
      BY <1>3, <2>2, <2>5, <2>7, <3>1 DEF Stands, AtType
    <3> QED BY <1>1, <2>3, <3>2, GoesOnOrEnds
  <2> QED BY <2>4, <2>6, <2>7
<1> QED BY <1>2, <1>6, <1>7

LEMMA TypeDecodes ==
    ASSUME ParserInv, DecodeInv, DetectType PROVE DecodeInv'
<1> DEFINE start == StartOf(raw)
           head == PayloadAt(raw, start)
<1>0. PICK p, d : p = ParseRLP(ctx) /\ d = p.ctx
  OBVIOUS
<1>1. /\ raw \in Seq(Byte) /\ Sound(ctx) /\ ctx \in Contexts
      /\ status = "running" /\ pc = "type"
      /\ ctx' = [GoBack(d, ctx.commandLength) EXCEPT !.processingField = FALSE]
      /\ status' = Overruns(ctx') /\ pc' = "head" /\ raw' = raw
  BY <1>0 DEF DetectType, ParserInv, Sound
<1>2. /\ ~ctx.overrun /\ ~ctx.outerRLP
      /\ \/ ~IsSingle(ByteAt(raw, PayloadAt(raw, 0))) /\ Opened(tx, ctx, start)
         \/ Doomed(raw, ctx)
  BY <1>1 DEF DecodeInv, Stands, AtType
<1>3. /\ d \in Contexts /\ Sound(d)
      /\ ctx'.currentField = d.currentField /\ ctx'.outerRLP = d.outerRLP
      /\ ctx'.overrun = d.overrun /\ ctx'.rlpBuffer = d.rlpBuffer
      /\ ctx'.workBuffer = d.workBuffer - (ctx.commandLength - d.commandLength)
      /\ ~ctx'.processingField
      /\ ctx'.commandLength = ctx.commandLength
  <2>1. d \in Contexts /\ Sound(d)
    BY <1>0, <1>1, ParseSound DEF Sound
  <2> QED BY <1>1, <2>1 DEF Contexts, GoBack
<1>4. ctx'.workBuffer = ctx.workBuffer
  <2>1. /\ d.workBuffer \in Nat /\ d.commandLength \in Nat
        /\ ctx.workBuffer \in Nat /\ ctx.commandLength \in Nat
    BY <1>1, <1>3 DEF Contexts
  <2>2. d.workBuffer + d.commandLength = ctx.workBuffer + ctx.commandLength
    BY <1>1, <1>3 DEF Sound
  <2> QED BY <1>3, <2>1, <2>2
<1>5. PICK byte \in Peeked(d) : tx' = [tx EXCEPT !.txType = byte]
  BY <1>0 DEF DetectType
<1>6. CASE Doomed(raw, ctx)
  <2>1. ~Decodable(raw)
    BY <1>6 DEF Doomed
  <2>2. CASE d.overrun
    BY <1>1, <1>3, <2>1, <2>2, GoesOnOrEnds DEF Overruns
  <2>3. CASE ~d.overrun
    <3>1. d = ctx
      BY <1>0, <1>1, <1>2, <1>6, <2>3, DoomedReads
    <3>2. Doomed(raw, ctx')
      BY <1>3, <1>6, <3>1 DEF Doomed
    <3>3. Stands(raw, tx', ctx', pc')
      BY <1>1, <1>2, <1>3, <2>3, <3>1, <3>2 DEF Stands, AtItem
    <3> QED BY <1>1, <1>3, <2>3, <3>3, GoesOnOrEnds DEF Overruns
  <2> QED BY <2>2, <2>3
<1>7. CASE ~IsSingle(ByteAt(raw, PayloadAt(raw, 0))) /\ Opened(tx, ctx, start)
  <2>1. ReadsHeader(raw, ctx, start, d, p.status)
    <3>1. PICK at : at = ctx.workBuffer /\ at = start
      BY <1>7 DEF Opened
    <3>2. ctx.rlpBuffer = <<>>
      BY <1>7 DEF Opened
    <3>3. ReadsHeader(raw, ctx, at, d, p.status)
      BY <1>0, <1>1, <3>1, <3>2, ParseFresh
    <3> QED BY <3>1, <3>3
  <2>2. ~d.overrun /\ d.currentField = 1 /\ ~d.outerRLP
    BY <1>2, <1>7, <2>1 DEF ReadsHeader, Opened
  <2>3. status' = "running"
    BY <1>1, <1>3, <2>2 DEF Overruns
  <2>4. CASE ~HasHeader(raw, start)
    <3>1. ~Decodable(raw)
      BY <1>1, <2>4, NeedsItem
    <3>2. CASE Len(d.rlpBuffer) = RLP_BUFFER
      BY <1>1, <1>3, <2>2, <2>3, <3>1, <3>2, GoesOnOrEnds DEF Stands, AtItem, Doomed
    <3>3. CASE Len(d.rlpBuffer) # RLP_BUFFER
      <4>1. Len(d.rlpBuffer) = ctx.commandLength
        BY <2>1, <2>4, <3>3 DEF ReadsHeader
      <4>2. Len(d.rlpBuffer) < 5
        <5>1. Len(d.rlpBuffer) \in Nat
          BY <1>3, LenProperties DEF Contexts, ByteStrings
        <5> QED BY <1>3, <3>3, <5>1 DEF Sound, HeaderOpen, RLP_BUFFER
      <4>3. Lost(raw, ctx')
        BY <1>1, <1>3, <2>2, <3>1, <4>1, <4>2 DEF Lost, Slack, RLP_BUFFER, Contexts
      <4> QED BY <1>1, <1>3, <2>2, <2>3, <4>3, GoesOnOrEnds DEF Stands, AtItem
    <3> QED BY <3>2, <3>3
  <2>5. CASE HasHeader(raw, start)
    <3>1. d.workBuffer = head /\ d.rlpBuffer = <<>>
      BY <2>1, <2>5 DEF ReadsHeader
    <3>2. head < Len(raw) => byte = ByteAt(raw, head)
      BY <1>5, <3>1 DEF Peeked, ByteAt
    <3>3. tx'.txType = byte /\ tx'.ratio = tx.ratio
      BY <1>5 DEF ParserInv, Fits, Transactions
    <3>4. Decodable(raw) => head < Len(raw)
      <4> SUFFICES ASSUME ~(head < Len(raw)) PROVE ~Decodable(raw)
        OBVIOUS
      <4>1. TypeOf(raw) = 0
        BY <1>7 DEF TypeOf, ByteAt
      <4>2. ~Supported(0)
        BY DEF Supported, TypesOf, FirstType, Kinds, LEGACY
      <4> QED BY <4>1, <4>2 DEF Decodable
    <3>5. Known(raw, byte)
      BY <1>7, <3>2, <3>4 DEF Known, TypeOf
    <3>6. Opened(tx', ctx', start)
      BY <1>3, <1>4, <1>7, <2>2, <3>1, <3>3 DEF Opened
    <3>7. Between(raw, tx', ctx')
      BY <1>1, <3>3, <3>5, <3>6, FirstField
    <3>8. Stands(raw, tx', ctx', pc')
      BY <1>1, <1>3, <2>2, <3>7 DEF Stands, AtItem
    <3> QED BY <1>1, <2>3, <3>8, GoesOnOrEnds
  <2> QED BY <2>4, <2>5
<1> QED BY <1>2, <1>6, <1>7

------------------------------------------------------------------------------
(* The fields. *)

(* In front of a field whose header is not there. *)
LEMMA NoHeader ==
    ASSUME NEW bytes \in Seq(Byte), NEW t, NEW c, Between(bytes, t, c),
           Supported(t.txType), c.currentField \in DOMAIN Fields(t.txType),
           ~HasHeader(bytes, c.workBuffer),
           t.txType = LEGACY /\ c.currentField = LEGACY_RLP_CHAIN_ID =>
               c.workBuffer # Len(bytes)
    PROVE  ~Decodable(bytes)
<1> DEFINE i == c.currentField
<1>1. /\ c.workBuffer = PlacesOf(bytes, t.txType)[i] /\ ~Absent(t.txType, i)
      /\ ReadTo(bytes, t, i - 1) /\ Known(bytes, t.txType)
  BY DEF Between, Upto
<1>2. ~IsField(bytes, t.txType, i)
  BY <1>1, ItemThere
<1> QED BY <1>1, <1>2, NotDecodable

LEMMA DoneDecodes ==
    ASSUME ParserInv, DecodeInv, Done PROVE DecodeInv'
<1> DEFINE type == tx.txType
           i == ctx.currentField
<1>1. /\ Supported(type) /\ i = Len(Fields(type)) + 1
      /\ status = "running" /\ pc = "head" /\ status' = "OK"
      /\ raw' = raw /\ tx' = tx
  BY DEF Done, AtHead, IsDone
<1>2. i \notin DOMAIN Fields(type) /\ i >= 10
  <2> HIDE DEF i, type
  <2>1. Len(Fields(type)) \in 9..15 /\ DOMAIN Fields(type) = 1..Len(Fields(type))
    BY <1>1, FieldsOrderly DEF Orderly
  <2>2. Len(Fields(type)) \in Nat /\ Len(Fields(type)) >= 9
    BY <2>1
  <2>3. PICK n \in Nat : n = Len(Fields(type)) /\ n >= 9
    BY <2>2
  <2>4. i = n + 1 /\ DOMAIN Fields(type) = 1..n
    BY <1>1, <2>1, <2>3
  <2>5. n + 1 \notin 1..n /\ n + 1 >= 10
    <3>1. n + 1 >= 10 /\ ~(n + 1 <= n)
      BY <2>3
    <3> QED BY <3>1
  <2> QED BY <2>4, <2>5
<1>3. Between(raw, tx, ctx)
  <2>1. ~Outside(raw, tx, ctx) /\ ~Doomed(raw, ctx)
    BY <1>2 DEF Outside, Opened, Doomed
  <2>2. ~Stuck(raw, tx, ctx) /\ ~Cut(raw, tx, ctx)
    BY <1>2 DEF Stuck, Cut
  <2>3. ~Lost(raw, ctx)
    <3>1. Slack(ctx) \in {0, 1} /\ i \in Nat /\ ctx.commandLength \in Nat
      BY DEF Slack, ParserInv, Sound, Contexts
    <3> QED BY <1>2, <3>1 DEF Lost, RLP_BUFFER
  <2> QED BY <1>1, <2>1, <2>2, <2>3 DEF DecodeInv, Stands, AtItem
<1>4. ReadTo(raw, tx, i - 1) /\ i - 1 = Len(Fields(type))
  BY <1>1, <1>3, FieldsOrderly DEF Between, Upto, Orderly
<1>5. IsDecodedFrom(tx, raw)
  BY <1>1, <1>4, FieldsOrderly DEF IsDecodedFrom, ReadTo, Orderly
<1> QED BY <1>1, <1>5, GoesOnOrEnds

LEMMA OldStyleDecodes ==
    ASSUME ParserInv, DecodeInv, EndOldStyle PROVE DecodeInv'
<1> DEFINE i == ctx.currentField
<1>1. /\ tx.txType = LEGACY /\ i = 7 /\ ctx.commandLength = 0
      /\ status = "running" /\ pc = "head" /\ status' = "OK"
      /\ raw' = raw /\ tx' = [tx EXCEPT !.chainID = <<>>]
      /\ Supported(LEGACY)
  BY DEF EndOldStyle, OldStyleEnd, AtHead, LEGACY_RLP_CHAIN_ID, Supported
<1>2. raw \in Seq(Byte) /\ Len(raw) \in Nat /\ ctx.workBuffer = Len(raw)
  BY <1>1, LenProperties DEF ParserInv, Sound, Contexts
<1>3. ReadTo(raw, tx, 6) /\ ~IsField(raw, LEGACY, 7)
  <2>1. Between(raw, tx, ctx) \/ Cut(raw, tx, ctx)
    <3>1. ~Outside(raw, tx, ctx) /\ ~Doomed(raw, ctx)
      BY <1>1 DEF Outside, Opened, Doomed
    <3>2. ~Stuck(raw, tx, ctx)
      BY <1>1 DEF Stuck, ReportsFaults
    <3>3. ~Lost(raw, ctx)
      <4>1. Slack(ctx) \in {0, 1}
        BY DEF Slack
      <4> QED BY <1>1, <4>1 DEF Lost, RLP_BUFFER
    <3> QED BY <1>1, <3>1, <3>2, <3>3 DEF DecodeInv, Stands, AtItem
  <2>2. CASE Between(raw, tx, ctx)
    <3>1. ReadTo(raw, tx, 7 - 1) /\ PlacesOf(raw, LEGACY)[7] = Len(raw)
      BY <1>1, <1>2, <2>2 DEF Between, Upto
    <3>2. 7 \in DOMAIN Fields(LEGACY)
      BY <1>1, FieldsOrderly DEF Orderly
    <3>3. ~IsField(raw, LEGACY, 7)
      <4> SUFFICES ASSUME IsField(raw, LEGACY, 7) PROVE FALSE
        OBVIOUS
      <4>1. PlacesOf(raw, LEGACY)[7] < Len(raw)
        BY <1>1, <1>2, <3>2, ItemThere
      <4> QED BY <1>2, <3>1, <4>1
    <3> QED BY <3>1, <3>3
  <2>3. CASE Cut(raw, tx, ctx)
    BY <1>1, <2>3 DEF Cut, LEGACY_RLP_CHAIN_ID
  <2> QED BY <2>1, <2>2, <2>3
<1>4. ASSUME NEW j \in 1..6 PROVE IsField(raw, LEGACY, j) /\ Says(tx', raw, j)
  <2>1. IsField(raw, LEGACY, j) /\ Says(tx, raw, j)
    BY <1>1, <1>3 DEF ReadTo, Absent
  <2>2. j \in DOMAIN Fields(LEGACY)
    BY <1>1, FieldsOrderly DEF Orderly
  <2>3. Fields(LEGACY)[j] # "chainID"
    BY <1>1, <2>2, FieldsOrderly DEF LEGACY_RLP_CHAIN_ID
  <2>4. /\ tx'.txType = tx.txType /\ tx'.value = tx.value /\ tx'.ratio = tx.ratio
        /\ \A name \in {"nonce", "gasprice", "startgas", "to"} : tx'[name] = tx[name]
    BY <1>1 DEF ParserInv, Fits, Transactions
  <2> QED BY <1>1, <2>1, <2>3, <2>4 DEF Says
<1>5. tx'.txType = LEGACY /\ tx'.chainID = <<>>
  BY <1>1 DEF ParserInv, Fits, Transactions
<1>6. IsDecodedFrom(tx', raw)
  BY <1>1, <1>3, <1>4, <1>5 DEF IsDecodedFrom, LEGACY_RLP_CHAIN_ID
<1> QED BY <1>1, <1>6, GoesOnOrEnds

LEMMA EndOfDataDecodes ==
    ASSUME ParserInv, DecodeInv, EndOfData PROVE DecodeInv'
<1> DEFINE type == tx.txType
           i == ctx.currentField
<1>1. /\ ~IsDone(type, i) /\ ~OldStyleEnd /\ ctx.commandLength = 0
      /\ status = "running" /\ pc = "head" /\ status' = "PROCESSING"
      /\ raw' = raw /\ tx' = tx
  BY DEF EndOfData, AtHead
<1>2. raw \in Seq(Byte) /\ Len(raw) \in Nat /\ ctx.workBuffer = Len(raw)
  BY <1>1, LenProperties DEF ParserInv, Sound, Contexts
<1>3. ~HasHeader(raw, Len(raw))
  BY <1>2, PayloadPlace
<1>4. ~Decodable(raw)
  <2>1. CASE Outside(raw, tx, ctx)
    BY <1>2, <1>3, <2>1 DEF Outside, Opened, Decodable
  <2>2. CASE Between(raw, tx, ctx)
    <3>1. CASE ~Supported(type)
      BY <2>2, <3>1 DEF Between, Known, Decodable
    <3>2. CASE Supported(type)
      <4>1. i \in DOMAIN Fields(type)
        BY <1>1, <2>2, <3>2, FieldsOrderly DEF Between, IsDone, Orderly
      <4>2. ~(type = LEGACY /\ i = LEGACY_RLP_CHAIN_ID)
        BY <1>1 DEF OldStyleEnd
      <4> QED BY <1>2, <1>3, <2>2, <3>2, <4>1, <4>2, NoHeader
    <3> QED BY <3>1, <3>2
  <2>3. CASE Stuck(raw, tx, ctx) \/ Cut(raw, tx, ctx) \/ Lost(raw, ctx) \/ Doomed(raw, ctx)
    BY <2>3 DEF Stuck, Cut, Lost, Doomed
  <2> QED BY <1>1, <2>1, <2>2, <2>3 DEF DecodeInv, Stands, AtItem
<1> QED BY <1>1, <1>4, GoesOnOrEnds

LEMMA HeaderDecodes ==
    ASSUME ParserInv, DecodeInv, ReadHeader PROVE DecodeInv'
<1> DEFINE type == tx.txType
           i == ctx.currentField
           at == ctx.workBuffer
<1>0. PICK p, d : p = ParseRLP(ctx) /\ d = p.ctx
  OBVIOUS
<1>1. /\ raw \in Seq(Byte) /\ Sound(ctx) /\ ctx \in Contexts
      /\ status = "running" /\ pc = "head" /\ ~ctx.outerRLP
      /\ ~IsDone(type, i) /\ ctx.commandLength # 0
      /\ raw' = raw /\ tx' = tx
  BY DEF ReadHeader, GoesOn, AtHead, ParserInv, Sound
<1>2. /\ ~ctx.overrun
      /\ \/ Between(raw, tx, ctx) \/ Stuck(raw, tx, ctx)
         \/ Lost(raw, ctx) \/ Doomed(raw, ctx)
  BY <1>1 DEF DecodeInv, Stands, Outside, AtItem, Cut
<1>3. CASE ctx.processingField
  <2>1. pc' = "field" /\ ctx' = ctx /\ status' = status
    BY <1>3 DEF ReadHeader
  <2>2. InItem(raw, tx, ctx)
    BY <1>1, <1>2, <1>3 DEF InItem, Between, Doomed
  <2> QED BY <1>1, <1>2, <2>1, <2>2, GoesOnOrEnds DEF Stands
<1>4. CASE ~ctx.processingField
  <2>1. /\ ctx' = d
        /\ p.status = "CONTINUE" => pc' = "field" /\ status' = "running"
        /\ p.status # "CONTINUE" => status' \notin {"running", "OK"}
    <3>1. /\ ctx' = d
          /\ p.status = "CONTINUE" => pc' = "field" /\ status' = "running"
          /\ p.status # "CONTINUE" => status' \in {"OVERRUN", p.status}
      <4>1. p.status = "CONTINUE" => ~d.overrun
        BY <1>0, <1>1, <1>2, ParseShrinks
      <4>2. CASE p.status = "CONTINUE"
        BY <1>0, <1>1, <1>4, <4>1, <4>2 DEF ReadHeader
      <4>3. CASE p.status # "CONTINUE" /\ d.overrun
        BY <1>0, <1>1, <1>4, <4>3 DEF ReadHeader
      <4>4. CASE p.status # "CONTINUE" /\ ~d.overrun
        BY <1>0, <1>1, <1>4, <4>4 DEF ReadHeader
      <4> QED BY <4>2, <4>3, <4>4
    <3>2. p.status \in {"CONTINUE", "PROCESSING", "ERROR"}
      BY <1>0, ParseStatus
    <3> QED BY <3>1, <3>2
  <2>2. CASE p.status # "CONTINUE" /\ ~Decodable(raw)
    BY <1>1, <2>1, <2>2, GoesOnOrEnds
  <2>3. CASE Stuck(raw, tx, ctx)
    BY <1>4, <2>3 DEF Stuck
  <2>4. CASE Doomed(raw, ctx)
    BY <1>0, <1>1, <1>2, <2>2, <2>4, DoomedReads DEF Doomed
  <2>5. CASE Lost(raw, ctx)
    <3>1. ~Decodable(raw)
      BY <2>5 DEF Lost
    <3>2. CASE p.status = "CONTINUE"
      <4>1. /\ d.currentField = i /\ d.outerRLP = ctx.outerRLP
            /\ d.overrun = ctx.overrun
            /\ d.processingField = (ctx.processingField \/ ~ctx.outerRLP)
            /\ d.commandLength + Slack(d) <= ctx.commandLength
        BY <1>0, <1>1, <3>2, ParseShrinks
      <4>2. /\ d.commandLength \in Nat /\ i \in Nat /\ ctx.commandLength \in Nat
            /\ Slack(d) \in {0, 1} /\ Slack(ctx) \in {0, 1}
        BY <1>0, <1>1, ParseSound DEF Sound, Contexts, Slack
      <4>3. Lost(raw, d)
        BY <2>5, <4>1, <4>2 DEF Lost, RLP_BUFFER
      <4>4. Stands(raw, tx', ctx', pc')
        BY <1>1, <1>2, <2>1, <3>2, <4>1, <4>3 DEF Stands, InItem
      <4> QED BY <1>1, <2>1, <3>2, <4>4, GoesOnOrEnds
    <3> QED BY <2>2, <3>1, <3>2
  <2>6. CASE Between(raw, tx, ctx)
    <3>1. ReadsHeader(raw, ctx, at, d, p.status)
      <4>1. ctx.rlpBuffer = <<>>
        BY <2>6 DEF Between
      <4> QED BY <1>0, <1>1, <4>1, ParseFresh
    <3>2. Supported(type) => i \in DOMAIN Fields(type)
      BY <1>1, <2>6, FieldsOrderly DEF Between, IsDone, Orderly
    <3>3. CASE ~HasHeader(raw, at)
      <4>1. p.status # "CONTINUE"
        BY <3>1, <3>3 DEF ReadsHeader
      <4>2. at # Len(raw)
        BY <1>1 DEF Sound, Contexts
      <4>3. ~Decodable(raw)
        <5>1. CASE ~Supported(type)
          BY <2>6, <5>1 DEF Between, Known, Decodable
        <5>2. CASE Supported(type)
          BY <1>1, <2>6, <3>2, <3>3, <4>2, <5>2, NoHeader
        <5> QED BY <5>1, <5>2
      <4> QED BY <2>2, <4>1, <4>3
    <3>4. CASE HasHeader(raw, at)
      <4>1. /\ p.status = "CONTINUE" /\ d.rlpBuffer = <<>>
            /\ d.workBuffer = PayloadAt(raw, at)
            /\ d.currentFieldLength = LengthAt(raw, at)
            /\ d.currentFieldIsList = IsListAt(raw, at)
            /\ d.processingField /\ d.currentField = i
            /\ ~d.outerRLP /\ ~d.overrun
        BY <1>1, <1>2, <3>1, <3>4 DEF ReadsHeader
      <4>2. Within(raw, tx, d)
        BY <2>6, <3>2, <3>4, <4>1 DEF Between, Within
      <4>3. Stands(raw, tx', ctx', pc')
        BY <1>1, <2>1, <4>1, <4>2 DEF Stands, InItem
      <4> QED BY <1>1, <2>1, <4>1, <4>3, GoesOnOrEnds
    <3> QED BY <3>3, <3>4
  <2> QED BY <1>2, <2>3, <2>4, <2>5, <2>6
<1> QED BY <1>3, <1>4

(* An item that is not what the field asks for. *)
LEMMA FaultyItem ==
    ASSUME NEW bytes \in Seq(Byte), NEW t, NEW c, Within(bytes, t, c),
           Supported(t.txType), Unlike(c, Fields(t.txType)[c.currentField])
    PROVE  ~IsField(bytes, t.txType, c.currentField) /\ ~Decodable(bytes)
<1> DEFINE i == c.currentField
           at == PlacesOf(bytes, t.txType)[i]
<1>1. /\ i \in DOMAIN Fields(t.txType) /\ ~Absent(t.txType, i)
      /\ ReadTo(bytes, t, i - 1) /\ Known(bytes, t.txType)
      /\ HasHeader(bytes, at)
      /\ c.currentFieldLength = LengthAt(bytes, at)
      /\ c.currentFieldIsList = IsListAt(bytes, at)
  BY DEF Within, Upto
<1>2. ~IsField(bytes, t.txType, i)
  BY <1>1 DEF IsField, Unlike
<1>3. at # Len(bytes)
  <2>1. i \in 1 .. Len(Fields(t.txType)) + 1
    BY <1>1, FieldsOrderly DEF Orderly
  <2>2. at \in Nat
    BY <2>1, Places
  <2> QED BY <1>1, <2>2, PayloadPlace, LenProperties
<1> QED BY <1>1, <1>2, <1>3, NotDecodable

(* An item that is what the field asks for, as long as it is there as a whole. *)
LEMMA WholeItem ==
    ASSUME NEW bytes \in Seq(Byte), NEW t, NEW c, Within(bytes, t, c),
           Supported(t.txType), ~Unlike(c, Fields(t.txType)[c.currentField]),
           c.workBuffer + c.commandLength = Len(bytes),
           c.workBuffer \in Nat, c.commandLength \in Nat,
           NEW at, at = PlacesOf(bytes, t.txType)[c.currentField],
           NEW size, size = SizeAt(bytes, Fields(t.txType)[c.currentField], at)
    PROVE  /\ at \in Nat /\ size \in Nat
           /\ IsField(bytes, t.txType, c.currentField) <=> size <= c.commandLength
           /\ size <= c.commandLength =>
                 Behind(bytes, Fields(t.txType)[c.currentField], at)
                 = c.workBuffer + size
           /\ at # Len(bytes)
<1> DEFINE i == c.currentField
           name == Fields(t.txType)[i]
<1>1. /\ i \in DOMAIN Fields(t.txType)
      /\ HasHeader(bytes, at) /\ c.workBuffer = PayloadAt(bytes, at)
      /\ c.currentFieldLength = LengthAt(bytes, at)
      /\ c.currentFieldIsList = IsListAt(bytes, at)
  BY DEF Within
<1>2. at \in Nat
  <2>1. i \in 1 .. Len(Fields(t.txType)) + 1
    BY <1>1, FieldsOrderly DEF Orderly
  <2> QED BY <2>1, Places
<1>3. size \in Nat /\ Len(bytes) \in Nat
  BY <1>1, <1>2, HeaderParts, LenProperties DEF SizeAt
<1>4. /\ Behind(bytes, name, at) <= Len(bytes) <=> c.workBuffer + size <= Len(bytes)
      /\ Behind(bytes, name, at) <= Len(bytes) =>
            Behind(bytes, name, at) = c.workBuffer + size
  BY <1>1, <1>2, BehindPlace
<1>5. c.workBuffer + size <= Len(bytes) <=> size <= c.commandLength
  BY <1>3
<1>6. /\ IsListAt(bytes, at) <=> name = "content"
      /\ ~TooLong(name, LengthAt(bytes, at))
  BY <1>1 DEF Unlike, TooLong, Integers256
<1>7. IsField(bytes, t.txType, i) <=> Behind(bytes, name, at) <= Len(bytes)
  BY <1>6 DEF IsField
<1>8. at # Len(bytes)
  <2>1. HasHeader(bytes, at)
    BY <1>1
  <2>2. at < Len(bytes)
    BY <1>2, <2>1, PayloadPlace
  <2> QED BY <1>2, <1>3, <2>2
<1> QED BY <1>2, <1>3, <1>4, <1>5, <1>7, <1>8

(* What the parser does with the item is what the invariant says of it. *)
LEMMA FieldTerms ==
    ASSUME ParserInv, DecodeInv, ProcessField,
           NEW type, type = tx.txType, NEW i, i = ctx.currentField
    PROVE  /\ raw \in Seq(Byte) /\ Sound(ctx) /\ ctx \in Contexts /\ Fits(tx)
           /\ raw' = raw /\ status = "running" /\ pc' = "head"
           /\ ~ctx.outerRLP /\ ~ctx.overrun /\ ctx.processingField
           /\ \/ Within(raw, tx, ctx) \/ Stuck(raw, tx, ctx) \/ Lost(raw, ctx)
           /\ Supported(type) => i \in Nat /\ i >= 1
           /\ KnownField <=> Supported(type) /\ i <= Len(Fields(type))
           /\ KnownField => Supported(type) /\ i \in DOMAIN Fields(type)
           /\ Field = Fields(type)[i] /\ Skip = Skips(i, type)
           /\ Faulty(Field) <=> Unlike(ctx, Fields(type)[i])
<1>1. /\ raw \in Seq(Byte) /\ Sound(ctx) /\ ctx \in Contexts /\ Fits(tx)
      /\ raw' = raw /\ status = "running" /\ pc = "field" /\ pc' = "head"
  BY DEF ParserInv, Sound, ProcessField
<1>2. ~ctx.overrun /\ InItem(raw, tx, ctx)
  BY <1>1 DEF DecodeInv, Stands
<1>3. /\ KnownField <=> Supported(type) /\ i <= Len(Fields(type))
      /\ Field = Fields(type)[i] /\ Skip = Skips(i, type)
      /\ Faulty(Field) <=> Unlike(ctx, Fields(type)[i])
  BY DEF KnownField, Field, Skip, Faulty, Unlike
<1>4. Supported(type) => i >= 1 /\ i \in Nat
  <2> SUFFICES ASSUME Supported(type) PROVE i >= 1 /\ i \in Nat
    OBVIOUS
  <2>1. i \in Nat
    BY <1>1 DEF Contexts
  <2>2. i \in DOMAIN Fields(type) => i >= 1
    BY FieldsOrderly DEF Orderly
  <2> QED BY <1>2, <2>1, <2>2 DEF InItem, Within, Stuck, Lost
<1>5. KnownField => i \in DOMAIN Fields(type)
  BY <1>3, <1>4, FieldsOrderly DEF Orderly
<1> QED BY <1>1, <1>2, <1>3, <1>4, <1>5 DEF InItem

LEMMA UnknownDecodes ==
    ASSUME ParserInv, DecodeInv, ProcessField, UnknownField PROVE DecodeInv'
<1>1. PICK type : type = tx.txType
  OBVIOUS
<1>2. PICK i : i = ctx.currentField
  OBVIOUS
<1>3. /\ raw' = raw /\ status' = "ERROR" /\ ~KnownField
      /\ KnownField <=> Supported(type) /\ i <= Len(Fields(type))
      /\ \/ Within(raw, tx, ctx) \/ Stuck(raw, tx, ctx) \/ Lost(raw, ctx)
  BY <1>1, <1>2, FieldTerms DEF UnknownField
<1>4. ~Decodable(raw)
  <2>1. CASE Within(raw, tx, ctx)
    <3> SUFFICES ASSUME Decodable(raw) PROVE FALSE
      OBVIOUS
    <3>1. Supported(type)
      BY <1>1, <2>1 DEF Within, Known, Decodable
    <3>2. i \in DOMAIN Fields(type)
      BY <1>1, <1>2, <2>1, <3>1 DEF Within
    <3> QED BY <1>3, <3>1, <3>2, FieldsOrderly DEF Orderly
  <2>2. CASE Stuck(raw, tx, ctx) \/ Lost(raw, ctx)
    BY <2>2 DEF Stuck, Lost
  <2> QED BY <1>3, <2>1, <2>2
<1> QED BY <1>3, <1>4, GoesOnOrEnds

(* A fault is reported, or the field is tried again, or the one behind it that
   is to be skipped. *)
LEMMA FaultyDecodes ==
    ASSUME ParserInv, DecodeInv, ProcessField, FaultyField PROVE DecodeInv'
<1>1. PICK type : type = tx.txType
  OBVIOUS
<1>2. PICK i : i = ctx.currentField
  OBVIOUS
<1>3. PICK skip : skip = Skips(i, type)
  OBVIOUS
<1>4. /\ raw \in Seq(Byte) /\ ctx \in Contexts
      /\ raw' = raw /\ status = "running" /\ pc' = "head"
      /\ ~ctx.outerRLP /\ ~ctx.overrun /\ ctx.processingField
      /\ \/ Within(raw, tx, ctx) \/ Stuck(raw, tx, ctx) \/ Lost(raw, ctx)
      /\ KnownField => Supported(type) /\ i \in DOMAIN Fields(type)
      /\ Field = Fields(type)[i] /\ Skip = skip
      /\ Faulty(Field) <=> Unlike(ctx, Fields(type)[i])
  BY <1>1, <1>2, <1>3, FieldTerms
<1>5. /\ Supported(type) /\ i \in DOMAIN Fields(type)
      /\ Unlike(ctx, Fields(type)[i])
      /\ status' = IF ReportsFaults(type) THEN "ERROR" ELSE status
      /\ tx' = tx
  BY <1>1, <1>4 DEF FaultyField
<1>6. ~Decodable(raw)
  <2>1. CASE Within(raw, tx, ctx)
    BY <1>1, <1>2, <1>4, <1>5, <2>1, FaultyItem
  <2>2. CASE Stuck(raw, tx, ctx) \/ Lost(raw, ctx)
    BY <2>2 DEF Stuck, Lost
  <2> QED BY <1>4, <2>1, <2>2
<1>7. CASE ReportsFaults(type)
  BY <1>4, <1>5, <1>6, <1>7, GoesOnOrEnds
<1>8. CASE ~ReportsFaults(type)
  <2>1. /\ skip \in {0, 1} /\ i + skip \in DOMAIN Fields(type)
        /\ skip = 1 => Absent(type, i + 1) /\ Fields(type)[i] \in {"discard", "data"}
    BY <1>3, <1>5, SkipFacts
  <2>2. PICK j : j = i + skip
    OBVIOUS
  <2>3. ctx' = [ctx EXCEPT !.currentField = j]
    BY <1>2, <1>4, <2>2 DEF FaultyField, Contexts
  <2>4. /\ ctx'.currentField = j /\ ctx'.outerRLP = ctx.outerRLP
        /\ ctx'.overrun = ctx.overrun /\ ctx'.processingField = ctx.processingField
        /\ ctx'.currentFieldIsList = ctx.currentFieldIsList
        /\ ctx'.currentFieldLength = ctx.currentFieldLength
    BY <1>4, <2>3 DEF Contexts
  <2>5. Unlike(ctx', Fields(type)[j])
    <3>1. CASE skip = 0
      <4>1. i \in Nat
        BY <1>5, FieldsOrderly DEF Orderly
      <4>2. j = i
        BY <2>2, <3>1, <4>1
      <4> QED BY <1>5, <2>4, <4>2 DEF Unlike
    <3>2. CASE skip = 1
      <4>1. Fields(type)[j] = "ratio"
        BY <2>1, <2>2, <3>2 DEF Absent
      <4>2. ctx.currentFieldIsList
        BY <1>5, <2>1, <3>2 DEF Unlike, TooLong, Integers256
      <4> QED BY <2>4, <4>1, <4>2 DEF Unlike
    <3> QED BY <2>1, <3>1, <3>2
  <2>6. Stuck(raw, tx', ctx')
    BY <1>1, <1>4, <1>5, <1>6, <1>8, <2>1, <2>2, <2>4, <2>5 DEF Stuck
  <2>7. Stands(raw, tx', ctx', pc')
    BY <1>4, <2>4, <2>6 DEF Stands, AtItem
  <2>8. status' = "running"
    BY <1>4, <1>5, <1>8
  <2> QED BY <1>4, <2>7, <2>8, GoesOnOrEnds
<1> QED BY <1>7, <1>8

LEMMA CutDecodes ==
    ASSUME ParserInv, DecodeInv, ProcessField, CutField PROVE DecodeInv'
<1>1. PICK type : type = tx.txType
  OBVIOUS
<1>2. PICK i : i = ctx.currentField
  OBVIOUS
<1>3. PICK skip : skip = Skips(i, type)
  OBVIOUS
<1>4. /\ raw \in Seq(Byte) /\ ctx \in Contexts /\ Sound(ctx)
      /\ raw' = raw /\ status = "running" /\ pc' = "head"
      /\ ~ctx.outerRLP /\ ~ctx.overrun
      /\ \/ Within(raw, tx, ctx) \/ Stuck(raw, tx, ctx) \/ Lost(raw, ctx)
      /\ KnownField => Supported(type) /\ i \in DOMAIN Fields(type)
      /\ Field = Fields(type)[i] /\ Skip = skip
      /\ Faulty(Field) <=> Unlike(ctx, Fields(type)[i])
  BY <1>1, <1>2, <1>3, FieldTerms
<1>5. /\ Supported(type) /\ i \in DOMAIN Fields(type)
      /\ ~Unlike(ctx, Fields(type)[i]) /\ ctx.commandLength < FieldSize
      /\ tx' = tx /\ status' = status
  BY <1>4 DEF CutField
<1>6. ~Stuck(raw, tx, ctx)
  BY <1>1, <1>2, <1>5 DEF Stuck
<1>7. Within(raw, tx, ctx) =>
          /\ ReadTo(raw, tx, i - 1) /\ ~IsField(raw, type, i) /\ ~Decodable(raw)
  <2> SUFFICES ASSUME Within(raw, tx, ctx)
               PROVE  ReadTo(raw, tx, i - 1) /\ ~IsField(raw, type, i) /\ ~Decodable(raw)
    OBVIOUS
  <2>1. PICK at : at = PlacesOf(raw, type)[i]
    OBVIOUS
  <2>2. PICK size : size = SizeAt(raw, Fields(type)[i], at)
    OBVIOUS
  <2>3. /\ ~Absent(type, i) /\ ReadTo(raw, tx, i - 1) /\ Known(raw, type)
        /\ ctx.currentFieldLength = LengthAt(raw, at)
    BY <1>1, <1>2, <1>5, <2>1 DEF Within, Upto
  <2>4. size = FieldSize
    BY <1>2, <1>4, <2>2, <2>3 DEF SizeAt, FieldSize
  <2>5. /\ ctx.workBuffer + ctx.commandLength = Len(raw)
        /\ ctx.workBuffer \in Nat /\ ctx.commandLength \in Nat
    BY <1>4 DEF Sound, Contexts
  <2>6. /\ size \in Nat /\ at # Len(raw)
        /\ IsField(raw, type, i) <=> size <= ctx.commandLength
    BY <1>1, <1>2, <1>4, <1>5, <2>1, <2>2, <2>5, WholeItem
  <2>7. ~(size <= ctx.commandLength)
    BY <1>5, <2>4, <2>5, <2>6
  <2> QED BY <1>1, <1>4, <1>5, <2>1, <2>3, <2>6, <2>7, NotDecodable
<1>8. ~Decodable(raw)
  BY <1>4, <1>6, <1>7 DEF Lost
<1>9. /\ skip \in {0, 1} /\ i + skip \in DOMAIN Fields(type)
      /\ skip = 1 => type # LEGACY
  BY <1>3, <1>5, SkipFacts
<1>10. i \in Nat /\ i + skip \in Nat /\ (skip = 0 => i + skip = i)
  <2>1. i \in Nat
    BY <1>2, <1>4 DEF Contexts
  <2> QED BY <1>9, <2>1
<1>11. /\ ctx'.commandLength = 0 /\ ctx'.currentField = i + skip
       /\ ctx'.outerRLP = ctx.outerRLP /\ ctx'.overrun = ctx.overrun
  <2>1. PICK n \in Nat : n = i + skip
    BY <1>10
  <2>2. PICK d : d = Consume(ctx, ctx.commandLength)
    OBVIOUS
  <2>3. d \in Contexts /\ d.commandLength = 0 /\ d.currentField = i
        /\ d.outerRLP = ctx.outerRLP /\ d.overrun = ctx.overrun
    <3>1. PICK m \in Nat : m = ctx.commandLength /\ m <= ctx.commandLength
      BY <1>4 DEF Contexts
    <3>2. d = Consume(ctx, m) /\ m - m = 0
      BY <2>2, <3>1
    <3>3. d \in Contexts
      BY <1>4, <3>1, <3>2, Consumed
    <3> QED BY <1>2, <1>4, <3>1, <3>2, <3>3 DEF Consume, Contexts
  <2>4. ctx' = [d EXCEPT !.currentField = n]
    BY <1>4, <2>1, <2>2, <2>3 DEF CutField
  <2> QED BY <2>1, <2>3, <2>4 DEF Contexts
<1>12. Cut(raw, tx', ctx')
  <2>1. ASSUME type = LEGACY, i + skip = LEGACY_RLP_CHAIN_ID
        PROVE  /\ ReadTo(raw, tx, LEGACY_RLP_CHAIN_ID - 1)
               /\ ~IsField(raw, LEGACY, LEGACY_RLP_CHAIN_ID)
    <3>1. i = LEGACY_RLP_CHAIN_ID
      BY <1>9, <1>10, <2>1
    <3>2. ~Lost(raw, ctx)
      <4>1. Slack(ctx) \in {0, 1} /\ ctx.commandLength \in Nat
        BY <1>4 DEF Slack, Contexts
      <4> QED BY <1>2, <3>1, <4>1 DEF Lost, RLP_BUFFER, LEGACY_RLP_CHAIN_ID
    <3> QED BY <1>4, <1>6, <1>7, <2>1, <3>1, <3>2
  <2> QED BY <1>1, <1>5, <1>8, <1>9, <1>11, <2>1 DEF Cut
<1>13. Stands(raw, tx', ctx', pc')
  BY <1>4, <1>11, <1>12 DEF Stands, AtItem
<1> QED BY <1>4, <1>5, <1>13, GoesOnOrEnds

(* Behind a field that was read. *)
LEMMA BehindField ==
    ASSUME raw \in Seq(Byte), NEW t, NEW type, type = t.txType, Supported(type),
           NEW i \in DOMAIN Fields(type), ~Absent(type, i),
           NEW skip, skip = Skips(i, type),
           NEW c, ~c.processingField, c.rlpBuffer = <<>>, Known(raw, type),
           c.currentField = i + 1 + skip,
           c.workBuffer = Behind(raw, Fields(type)[i], PlacesOf(raw, type)[i]),
           ReadTo(raw, t, i), NoRatioYet(t, i)
    PROVE  Between(raw, t, c)
<1>1. PICK place : place = PlacesOf(raw, type)
  OBVIOUS
<1>2. /\ skip \in {0, 1} /\ i + skip \in DOMAIN Fields(type)
      /\ skip = 1 => Absent(type, i + 1)
      /\ i + 1 + skip \in DOMAIN Fields(type) => ~Absent(type, i + 1 + skip)
  BY SkipFacts
<1>3. /\ DOMAIN Fields(type) = 1..Len(Fields(type)) /\ Len(Fields(type)) \in Nat
      /\ i \in Nat /\ i >= 1 /\ i <= Len(Fields(type))
  <2>1. DOMAIN Fields(type) = 1..Len(Fields(type)) /\ Len(Fields(type)) \in Nat
    BY FieldsOrderly DEF Orderly
  <2> QED BY <2>1
<1>4. place[i + 1] = Behind(raw, Fields(type)[i], place[i])
  BY <1>1, Places
<1>5. CASE skip = 0
  <2>1. i + 1 + skip = i + 1 /\ i + 1 \in 1 .. Len(Fields(type)) + 1 /\ (i + 1) - 1 = i
    BY <1>3, <1>5
  <2>2. c.workBuffer = place[i + 1] /\ Upto(raw, t, i + 1)
    BY <1>1, <1>4, <2>1 DEF Upto
  <2> QED BY <1>1, <1>2, <2>1, <2>2 DEF Between
<1>6. CASE skip = 1
  <2>1. /\ i + 1 + skip = i + 2 /\ i + 2 \in 1 .. Len(Fields(type)) + 1
        /\ (i + 2) - 1 = i + 1 /\ (i + 1) + 1 = i + 2 /\ i + 1 \in DOMAIN Fields(type)
    BY <1>2, <1>3, <1>6
  <2>2. Absent(type, i + 1)
    BY <1>2, <1>6
  <2>3. c.workBuffer = place[i + 2]
    <3>1. PICK j \in DOMAIN Fields(type) : j = i + 1 /\ j + 1 = i + 2
      BY <2>1
    <3>2. place[j + 1] = place[j]
      BY <1>1, <2>2, <3>1, Places
    <3> QED BY <1>1, <1>4, <3>1, <3>2
  <2>4. ReadTo(raw, t, i + 1)
    <3>1. ASSUME NEW j \in 1 .. i + 1 PROVE j = i + 1 \/ j \in 1..i
      BY <1>3
    <3> QED BY <2>2, <3>1 DEF ReadTo
  <2>5. NoRatioYet(t, i + 1)
    <3>1. \A j \in 1..i : j \in 1 .. i + 1
      BY <1>3
    <3> QED BY <3>1 DEF NoRatioYet
  <2>6. c.currentField = i + 2 /\ Upto(raw, t, i + 2)
    BY <2>1, <2>4, <2>5 DEF Upto
  <2>7. i + 2 \in DOMAIN Fields(type) => ~Absent(type, i + 2)
    BY <1>2, <2>1
  <2> QED BY <1>1, <2>1, <2>3, <2>6, <2>7 DEF Between
<1> QED BY <1>2, <1>5, <1>6

LEMMA WholeDecodes ==
    ASSUME ParserInv, DecodeInv, ProcessField, WholeField PROVE DecodeInv'
<1>1. PICK type : type = tx.txType
  OBVIOUS
<1>2. PICK i : i = ctx.currentField
  OBVIOUS
<1>3. PICK skip : skip = Skips(i, type)
  OBVIOUS
<1>4. /\ raw \in Seq(Byte) /\ ctx \in Contexts /\ Sound(ctx) /\ Fits(tx)
      /\ raw' = raw /\ status = "running" /\ pc' = "head"
      /\ ~ctx.outerRLP /\ ~ctx.overrun /\ ctx.processingField
      /\ \/ Within(raw, tx, ctx) \/ Stuck(raw, tx, ctx) \/ Lost(raw, ctx)
      /\ KnownField => Supported(type) /\ i \in DOMAIN Fields(type)
      /\ Field = Fields(type)[i] /\ Skip = skip
      /\ Faulty(Field) <=> Unlike(ctx, Fields(type)[i])
  BY <1>1, <1>2, <1>3, FieldTerms
<1>5. /\ Supported(type) /\ i \in DOMAIN Fields(type)
      /\ ~Unlike(ctx, Fields(type)[i]) /\ ctx.commandLength >= FieldSize
      /\ status' = "running"
  BY <1>4 DEF WholeField
<1>6. /\ skip \in {0, 1} /\ (skip = 1 => i >= 6)
  BY <1>3, <1>5, SkipFacts
<1>7. PICK size \in Nat : size = FieldSize
  BY <1>4 DEF FieldSize, Contexts
<1>8. /\ i \in Nat /\ ctx.workBuffer \in Nat /\ ctx.commandLength \in Nat
      /\ ctx.workBuffer + ctx.commandLength = Len(raw) /\ size <= ctx.commandLength
  BY <1>2, <1>4, <1>5, <1>7 DEF Sound, Contexts
<1>9. /\ ctx'.currentField = i + 1 + skip /\ ~ctx'.processingField
      /\ ctx'.outerRLP = ctx.outerRLP /\ ctx'.overrun = ctx.overrun
      /\ ctx'.rlpBuffer = ctx.rlpBuffer
      /\ ctx'.workBuffer = ctx.workBuffer + size
      /\ ctx'.commandLength = ctx.commandLength - size
  <2>1. PICK n \in Nat : n = i + 1 + skip
    BY <1>6, <1>8
  <2>2. PICK d : d = Consume(ctx, size)
    OBVIOUS
  <2>3. /\ d \in Contexts /\ d.currentField = i /\ d.outerRLP = ctx.outerRLP
        /\ d.overrun = ctx.overrun /\ d.rlpBuffer = ctx.rlpBuffer
        /\ d.workBuffer = ctx.workBuffer + size
        /\ d.commandLength = ctx.commandLength - size
    <3>1. d \in Contexts
      BY <1>4, <1>8, <2>2, Consumed
    <3> QED BY <1>2, <1>4, <2>2, <3>1 DEF Consume, Contexts
  <2>4. ctx' = [d EXCEPT !.currentField = n, !.processingField = FALSE]
    BY <1>4, <1>7, <2>1, <2>2, <2>3 DEF WholeField
  <2> QED BY <2>1, <2>3, <2>4 DEF Contexts
<1>10. PICK bytes : bytes = SubSeq(raw, ctx.workBuffer + 1, ctx.workBuffer + size)
  OBVIOUS
<1>11. tx' \in Store(Fields(type)[i], bytes)
  BY <1>4, <1>7, <1>10 DEF WholeField
<1>12. CASE Within(raw, tx, ctx)
  <2>1. PICK at : at = PlacesOf(raw, type)[i]
    OBVIOUS
  <2>2. PICK name : name = Fields(type)[i]
    OBVIOUS
  <2>3. /\ ~Absent(type, i) /\ Upto(raw, tx, i) /\ Known(raw, type)
        /\ ctx.currentFieldLength = LengthAt(raw, at)
        /\ ctx.workBuffer = PayloadAt(raw, at) /\ ctx.rlpBuffer = <<>>
    BY <1>1, <1>2, <1>5, <1>12, <2>1 DEF Within
  <2>4. size = SizeAt(raw, name, at)
    BY <1>2, <1>4, <1>7, <2>2, <2>3 DEF SizeAt, FieldSize
  <2>5. /\ IsField(raw, type, i)
        /\ Behind(raw, name, at) = ctx.workBuffer + size
    BY <1>1, <1>2, <1>4, <1>5, <1>8, <1>12, <2>1, <2>2, <2>4, WholeItem
  <2>6. bytes \in ByteStrings /\ Len(bytes) = size
    <3>1. PICK m \in Nat : m = ctx.workBuffer /\ m + size <= Len(raw)
      BY <1>8, LenProperties
    <3>2. bytes = SubSeq(raw, m + 1, m + size)
      BY <1>10, <3>1
    <3> QED BY <1>4, <3>1, <3>2, BytesPart DEF ByteStrings
  <2>7. PICK payload : payload = PayloadOf(raw, at)
    OBVIOUS
  <2>8. name # "content" => bytes = payload /\ size = LengthAt(raw, at)
    BY <1>10, <2>3, <2>4, <2>7 DEF PayloadOf, SizeAt
  <2>9. tx'.txType = type /\ ReadTo(raw, tx', i) /\ NoRatioYet(tx', i)
    BY <1>1, <1>4, <1>5, <1>11, <2>1, <2>2, <2>3, <2>5, <2>6, <2>7, <2>8, FieldStored
  <2>10. Between(raw, tx', ctx')
    BY <1>3, <1>4, <1>5, <1>9, <2>1, <2>2, <2>3, <2>5, <2>9, BehindField
  <2>11. Stands(raw, tx', ctx', pc')
    BY <1>4, <1>9, <2>10 DEF Stands, AtItem
  <2> QED BY <1>4, <1>5, <2>11, GoesOnOrEnds
<1>13. CASE Stuck(raw, tx, ctx)
  BY <1>1, <1>2, <1>5, <1>13 DEF Stuck
<1>14. CASE Lost(raw, ctx)
  <2>1. /\ ~Decodable(raw) /\ i >= 1 /\ Slack(ctx) \in {0, 1}
        /\ i + ctx.commandLength + Slack(ctx) <= 5
    BY <1>2, <1>14 DEF Lost, Slack, RLP_BUFFER
  <2>2. skip = 0
    BY <1>6, <1>8, <2>1
  <2>3. size >= 1 \/ Slack(ctx) = 1
    <3>1. CASE Field = "content"
      BY <1>2, <1>4, <1>5, <3>1 DEF Unlike, Slack
    <3>2. CASE Field # "content"
      <4>1. size = ctx.currentFieldLength
        BY <1>7, <3>2 DEF FieldSize
      <4> QED BY <1>4, <4>1 DEF Slack
    <3> QED BY <3>1, <3>2
  <2>4. Slack(ctx') = 0
    BY <1>9 DEF Slack
  <2>5. /\ (i + 1) + (ctx.commandLength - size) + 0 <= 5 /\ i + 1 >= 1
        /\ i + 1 + skip = i + 1
    BY <1>8, <2>1, <2>2, <2>3
  <2>6. Lost(raw, ctx')
    BY <1>9, <2>1, <2>4, <2>5 DEF Lost, RLP_BUFFER
  <2>7. Stands(raw, tx', ctx', pc')
    BY <1>4, <1>9, <2>6 DEF Stands, AtItem
  <2> QED BY <1>4, <1>5, <2>7, GoesOnOrEnds
<1> QED BY <1>4, <1>12, <1>13, <1>14

------------------------------------------------------------------------------
(* Every step. *)

LEMMA NextDecodeInv == ParserInv /\ DecodeInv /\ [Next]_vars => DecodeInv'
<1> SUFFICES ASSUME ParserInv, DecodeInv, [Next]_vars PROVE DecodeInv'
  OBVIOUS
<1>1. CASE Done
  BY <1>1, DoneDecodes
<1>2. CASE EndOldStyle
  BY <1>2, OldStyleDecodes
<1>3. CASE EndOfData
  BY <1>3, EndOfDataDecodes
<1>4. CASE ReadOuterHeader
  BY <1>4, OuterDecodes
<1>5. CASE ReadNestedHeader
  BY <1>5, NestedDecodes
<1>6. CASE DetectType
  BY <1>6, TypeDecodes
<1>7. CASE ReadHeader
  BY <1>7, HeaderDecodes
<1>8. CASE ProcessField
  <2>1. UnknownField \/ FaultyField \/ CutField \/ WholeField
    BY <1>8 DEF ProcessField
  <2> QED
    BY <1>8, <2>1, UnknownDecodes, FaultyDecodes, CutDecodes, WholeDecodes
<1>9. CASE UNCHANGED vars
  BY <1>9 DEF vars, DecodeInv, Understood, DecodableIsAccepted
<1> QED
  BY <1>1, <1>2, <1>3, <1>4, <1>5, <1>6, <1>7, <1>8, <1>9 DEF Next

LEMMA AlwaysStands == Spec => []DecodeInv
<1> QED
  BY Invariance, InitDecodeInv, NextDecodeInv, PTL DEF Spec

(* Whatever bytes the host sends, a transaction that transaction_deserialize
   accepts holds, field by field, what the items that follow each other in the
   bytes say: nothing of it comes from bytes behind them, from another field's
   item or from a field that was tried before.  Only an amount is exempt that a
   ratio of more than a byte runs over. *)
THEOREM Decodes == Spec => []Understood
<1>1. DecodeInv => Understood
  BY DEF DecodeInv
<1> QED
  BY <1>1, AlwaysStands, PTL

(* transaction_deserialize refuses no bytes in which the item of every field of
   their type is there, of the right kind and not too long, however the items
   are encoded; nor does one of their headers overrun the header buffer. *)
THEOREM RefusesNothingWhole == Spec => []DecodableIsAccepted
<1>1. DecodeInv => DecodableIsAccepted
  BY DEF DecodeInv
<1> QED
  BY <1>1, AlwaysStands, PTL

------------------------------------------------------------------------------
(* Progress. *)

(* Where the parser may stand for its steps to be counted. *)
CountedInv ==
    /\ ctx.currentField \in 1..LAST_FIELD
    /\ pc \in {"head", "nested", "type", "field"}
    /\ pc \in {"type", "field"} => ~ctx.outerRLP

LEMMA ParseKeeps ==
    ASSUME NEW c \in Contexts, NEW d, d = ParseRLP(c).ctx
    PROVE  d.currentField = c.currentField /\ d.outerRLP = c.outerRLP
<1> DEFINE Kept(e) == /\ e.currentField = c.currentField /\ e.outerRLP = c.outerRLP
<1>1. ASSUME NEW n PROVE Kept(Buffer(c, n))
  BY DEF Buffer, Consume, Contexts
<1>2. Kept([c EXCEPT !.overrun = TRUE])
  BY DEF Contexts
<1>3. ASSUME NEW h, NEW n PROVE Kept(BeginField(ConsumeHeader(c, h, n), h))
  BY DEF BeginField, ConsumeHeader, Consume, Contexts
<1>4. \/ d = c \/ d = [c EXCEPT !.overrun = TRUE]
      \/ \E n : d = Buffer(c, n)
      \/ \E h, n : d = BeginField(ConsumeHeader(c, h, n), h)
  BY DEF ParseRLP, Parsed
<1>5. Kept(c)
  OBVIOUS
<1> HIDE DEF Kept
<1>6. Kept(d)
  BY <1>1, <1>2, <1>3, <1>4, <1>5
<1> QED BY <1>6 DEF Kept

LEMMA FieldCount ==
    ASSUME NEW m \in 9..15 PROVE m \in Nat /\ m <= 15
OBVIOUS

(* The field behind, whether or not the ratio is skipped. *)
LEMMA NextField ==
    ASSUME KnownField, ctx.currentField \in 1..LAST_FIELD
    PROVE  /\ ctx.currentField + Skip \in 1..LAST_FIELD
           /\ ctx.currentField + 1 + Skip \in 1..LAST_FIELD
           /\ Skip \in Nat
<1>1. PICK type : type = tx.txType
  OBVIOUS
<1>2. PICK i \in 1..LAST_FIELD : i = ctx.currentField
  OBVIOUS
<1>3. PICK m \in 9..15 : m = Len(Fields(type)) /\ DOMAIN Fields(type) = 1..m
  BY <1>1, FieldsOrderly DEF KnownField, Orderly
<1>4. i \in Nat /\ m \in Nat /\ m <= 15 /\ 1 <= i /\ i <= m
  <2>1. i <= m
    BY <1>1, <1>2, <1>3 DEF KnownField
  <2>2. i \in Nat /\ 1 <= i
    BY <1>2 DEF LAST_FIELD
  <2>3. m \in Nat /\ m <= 15
    BY <1>3, FieldCount
  <2> QED BY <2>1, <2>2, <2>3
<1>5. PICK skip : skip = Skip
  OBVIOUS
<1>6. skip \in {0, 1} /\ i + skip \in 1..m
  <2>1. i \in DOMAIN Fields(type) /\ skip = Skips(i, type) /\ Supported(type)
    BY <1>1, <1>2, <1>3, <1>4, <1>5 DEF Skip, KnownField
  <2>2. skip \in {0, 1} /\ i + skip \in DOMAIN Fields(type)
    BY <2>1, SkipFacts
  <2> QED BY <1>3, <2>2
<1>7. i + skip \in 1..LAST_FIELD /\ i + 1 + skip \in 1..LAST_FIELD /\ skip \in Nat
  BY <1>4, <1>6 DEF LAST_FIELD
<1> QED BY <1>2, <1>5, <1>7

LEMMA InitCounted == Init => CountedInv
BY DEF Init, CountedInv, FreshContext, LAST_FIELD

(* What is left of the steps at each place. *)
LEMMA StepsAt ==
    ASSUME NEW s, NEW at, NEW c, NEW i \in 1..LAST_FIELD, i = c.currentField
    PROVE  /\ s # "running" => StepsFrom(s, at, c) = 0
           /\ s = "running" /\ at = "head" /\ c.commandLength = 0 =>
                 StepsFrom(s, at, c) = 1
           /\ s = "running" /\ at = "head" /\ c.commandLength # 0 /\ c.outerRLP =>
                 StepsFrom(s, at, c) = 36
           /\ s = "running" /\ at = "nested" => StepsFrom(s, at, c) = 35
           /\ s = "running" /\ at = "type" => StepsFrom(s, at, c) = 34
           /\ s = "running" /\ at = "head" /\ c.commandLength # 0 /\ ~c.outerRLP =>
                 StepsFrom(s, at, c) = 35 - 2 * i
           /\ s = "running" /\ at = "field" => StepsFrom(s, at, c) = 34 - 2 * i
<1>1. 2 * LAST_FIELD = 32 /\ 2 * (LAST_FIELD - i) = 32 - 2 * i /\ i \in Nat
  BY DEF LAST_FIELD
<1> QED BY <1>1 DEF StepsFrom

(* In front of the fields there are as many steps left as at the first of them, or
   more; so whatever place a step leads to it is nearer. *)
LEMMA HeadSteps ==
    ASSUME NEW s, NEW c, NEW i \in 1..LAST_FIELD, i = c.currentField, ~c.outerRLP
    PROVE  StepsFrom(s, "head", c) \in 0 .. 35 - 2 * i
<1>1. /\ s # "running" => StepsFrom(s, "head", c) = 0
      /\ s = "running" /\ c.commandLength = 0 => StepsFrom(s, "head", c) = 1
      /\ s = "running" /\ c.commandLength # 0 => StepsFrom(s, "head", c) = 35 - 2 * i
  BY StepsAt
<1>2. i \in Nat /\ i <= 16
  BY DEF LAST_FIELD
<1> QED BY <1>1, <1>2

(* A step that returns. *)
LEMMA Returned ==
    ASSUME status = "running", CountedInv, status' # "running",
           ctx'.currentField \in 1..LAST_FIELD
    PROVE  StepsLeft' \in 0 .. StepsLeft - 1
<1>1. PICK i \in 1..LAST_FIELD : i = ctx.currentField
  BY DEF CountedInv
<1>2. StepsLeft' = 0
  BY StepsAt DEF StepsLeft
<1>3. i \in Nat /\ i <= 16
  BY DEF LAST_FIELD
<1>4. StepsLeft \in {1, 34, 35, 36} \cup {35 - 2 * i, 34 - 2 * i}
  BY <1>1, StepsAt DEF StepsLeft, CountedInv
<1> QED BY <1>2, <1>3, <1>4

(* A step to the head of the loop. *)
LEMMA BackToHead ==
    ASSUME pc' = "head", NEW i \in 1..LAST_FIELD, i = ctx'.currentField, ~ctx'.outerRLP
    PROVE  CountedInv' /\ StepsLeft' \in 0 .. 35 - 2 * i
<1>1. StepsFrom(status', pc', ctx') \in 0 .. 35 - 2 * i
  BY HeadSteps
<1> QED BY <1>1 DEF StepsLeft, CountedInv

Nearer == CountedInv' /\ (FaultDropped \/ StepsLeft' \in 0 .. StepsLeft - 1)

LEMMA ReturnNearer ==
    ASSUME CountedInv, Done \/ EndOldStyle \/ EndOfData
    PROVE  Nearer
<1>1. status = "running" /\ status' # "running" /\ ctx' = ctx /\ pc' = pc
  BY DEF Done, EndOldStyle, EndOfData, AtHead
<1>2. CountedInv' /\ ctx'.currentField \in 1..LAST_FIELD
  BY <1>1 DEF CountedInv
<1> QED BY <1>1, <1>2, Returned DEF Nearer

LEMMA OuterNearer ==
    ASSUME ParserInv, CountedInv, ReadOuterHeader PROVE Nearer
<1>1. PICK i \in 1..LAST_FIELD : i = ctx.currentField
  BY DEF CountedInv
<1>2. ctx'.currentField = i
  BY <1>1, ParseKeeps DEF ReadOuterHeader, ParserInv, Sound
<1>3. /\ status = "running" /\ pc = "head" /\ ctx.commandLength # 0 /\ ctx.outerRLP
      /\ pc' = "nested"
  BY DEF ReadOuterHeader, GoesOn, AtHead
<1>4. CountedInv'
  BY <1>2, <1>3 DEF CountedInv
<1>5. StepsLeft = 36
  BY <1>1, <1>3, StepsAt DEF StepsLeft
<1>6. StepsLeft' \in {0, 35}
  <2>1. StepsFrom(status', pc', ctx') \in {0, 35}
    BY <1>2, <1>3, StepsAt
  <2> QED BY <2>1 DEF StepsLeft
<1> QED BY <1>4, <1>5, <1>6 DEF Nearer

LEMMA NestedNearer ==
    ASSUME ParserInv, CountedInv, ReadNestedHeader PROVE Nearer
<1>1. PICK i \in 1..LAST_FIELD : i = ctx.currentField
  BY DEF CountedInv
<1>2. PICK d : d = ParseRLP(ctx).ctx
  OBVIOUS
<1>3. d \in Contexts /\ d.currentField = i
  BY <1>1, <1>2, ParseKeeps, ParseSound DEF ParserInv, Sound
<1>4. ctx'.currentField = i /\ ~ctx'.outerRLP
  BY <1>2, <1>3 DEF ReadNestedHeader, Contexts
<1>5. status = "running" /\ pc = "nested" /\ pc' \in {"head", "type"}
  BY DEF ReadNestedHeader
<1>6. StepsLeft = 35
  BY <1>1, <1>5, StepsAt DEF StepsLeft
<1>7. CASE pc' = "head"
  <2>1. CountedInv' /\ StepsLeft' \in 0 .. 35 - 2 * i
    BY <1>4, <1>7, BackToHead
  <2>2. i \in Nat /\ 1 <= i
    BY DEF LAST_FIELD
  <2> QED BY <1>6, <2>1, <2>2 DEF Nearer
<1>8. CASE pc' = "type"
  <2>1. CountedInv'
    BY <1>4, <1>8 DEF CountedInv
  <2>2. StepsFrom(status', pc', ctx') \in {0, 34}
    BY <1>4, <1>8, StepsAt
  <2>3. StepsLeft' \in {0, 34}
    BY <2>2 DEF StepsLeft
  <2> QED BY <1>6, <2>1, <2>3 DEF Nearer
<1> QED BY <1>5, <1>7, <1>8

LEMMA TypeNearer ==
    ASSUME ParserInv, CountedInv, DetectType PROVE Nearer
<1>1. PICK i \in 1..LAST_FIELD : i = ctx.currentField
  BY DEF CountedInv
<1>2. PICK d : d = ParseRLP(ctx).ctx
  OBVIOUS
<1>3. status = "running" /\ pc = "type" /\ pc' = "head" /\ ~ctx.outerRLP
  BY DEF DetectType, CountedInv
<1>4. d \in Contexts /\ d.currentField = i /\ ~d.outerRLP
  BY <1>1, <1>2, <1>3, ParseKeeps, ParseSound DEF ParserInv, Sound
<1>5. ctx'.currentField = i /\ ~ctx'.outerRLP
  BY <1>2, <1>4 DEF DetectType, GoBack, Contexts
<1>6. StepsLeft = 34
  BY <1>1, <1>3, StepsAt DEF StepsLeft
<1>7. CountedInv' /\ StepsLeft' \in 0 .. 35 - 2 * i
  BY <1>3, <1>5, BackToHead
<1>8. i \in Nat /\ 1 <= i
  BY DEF LAST_FIELD
<1> QED BY <1>6, <1>7, <1>8 DEF Nearer

LEMMA HeaderNearer ==
    ASSUME ParserInv, CountedInv, ReadHeader PROVE Nearer
<1>1. PICK i \in 1..LAST_FIELD : i = ctx.currentField
  BY DEF CountedInv
<1>2. /\ status = "running" /\ pc = "head" /\ ctx.commandLength # 0 /\ ~ctx.outerRLP
  BY DEF ReadHeader, GoesOn, AtHead
<1>3. ctx'.currentField = i /\ ~ctx'.outerRLP
  BY <1>1, <1>2, ParseKeeps DEF ReadHeader, ParserInv, Sound
<1>4. pc' = "field" \/ (pc' = pc /\ status' # "running")
  BY ParseStatus DEF ReadHeader
<1>5. CountedInv'
  BY <1>2, <1>3, <1>4 DEF CountedInv
<1>6. CASE status' # "running"
  BY <1>2, <1>3, <1>5, <1>6, Returned DEF Nearer
<1>7. CASE status' = "running"
  <2>1. StepsFrom(status', pc', ctx') = 34 - 2 * i
    BY <1>3, <1>4, <1>7, StepsAt
  <2>2. StepsLeft = 35 - 2 * i
    BY <1>1, <1>2, StepsAt DEF StepsLeft
  <2>3. i \in Nat /\ i <= 16
    BY DEF LAST_FIELD
  <2>4. StepsLeft' \in 0 .. StepsLeft - 1
    BY <2>1, <2>2, <2>3 DEF StepsLeft
  <2> QED BY <1>5, <2>4 DEF Nearer
<1> QED BY <1>6, <1>7

LEMMA FieldNearer ==
    ASSUME ParserInv, CountedInv, ProcessField PROVE Nearer
<1>1. PICK i \in 1..LAST_FIELD : i = ctx.currentField
  BY DEF CountedInv
<1>2. /\ status = "running" /\ pc = "field" /\ pc' = "head" /\ ~ctx.outerRLP
      /\ ctx \in Contexts
  BY DEF ProcessField, CountedInv, ParserInv, Sound
<1>3. i \in Nat /\ 1 <= i /\ i <= 16
  BY DEF LAST_FIELD
<1>4. StepsLeft = 34 - 2 * i
  BY <1>1, <1>2, StepsAt DEF StepsLeft
<1>5. CASE UnknownField
  <2>1. ctx' = ctx /\ status' # "running"
    BY <1>5 DEF UnknownField
  <2>2. CountedInv'
    BY <1>1, <1>2, <2>1, BackToHead
  <2> QED BY <1>1, <1>2, <2>1, <2>2, Returned DEF Nearer
<1>6. CASE FaultyField
  <2>1. PICK j : j = ctx.currentField + Skip
    OBVIOUS
  <2>2. j \in 1..LAST_FIELD
    BY <1>6, <2>1, NextField DEF FaultyField, CountedInv
  <2>3. ctx'.currentField = j /\ ~ctx'.outerRLP
    BY <1>2, <1>6, <2>1 DEF FaultyField, Contexts
  <2>4. CountedInv'
    BY <1>2, <2>2, <2>3, BackToHead
  <2>5. CASE ReportsFaults(tx.txType)
    <3>1. status' # "running"
      BY <1>6, <2>5 DEF FaultyField
    <3> QED BY <1>2, <2>2, <2>3, <2>4, <3>1, Returned DEF Nearer
  <2>6. CASE ~ReportsFaults(tx.txType)
    BY <1>2, <1>6, <2>4, <2>6 DEF Nearer, FaultDropped
  <2> QED BY <2>5, <2>6
<1>7. CASE CutField
  <2>1. PICK j : j = ctx.currentField + Skip
    OBVIOUS
  <2>2. j \in 1..LAST_FIELD
    BY <1>7, <2>1, NextField DEF CutField, CountedInv
  <2>3. ctx'.currentField = j /\ ~ctx'.outerRLP /\ ctx'.commandLength = 0
    BY <1>2, <1>7, <2>1 DEF CutField, Consume, Contexts
  <2>4. CountedInv'
    BY <1>2, <2>2, <2>3, BackToHead
  <2>5. StepsFrom(status', pc', ctx') \in {0, 1}
    BY <1>2, <2>2, <2>3, StepsAt
  <2>6. StepsLeft' \in {0, 1}
    BY <2>5 DEF StepsLeft
  <2> QED BY <1>3, <1>4, <2>4, <2>6 DEF Nearer
<1>8. CASE WholeField
  <2>1. PICK skip : skip = Skip
    OBVIOUS
  <2>2. skip \in Nat /\ i + 1 + skip \in 1..LAST_FIELD
    BY <1>1, <1>8, <2>1, NextField DEF WholeField, CountedInv
  <2>3. ctx'.currentField = i + 1 + skip /\ ~ctx'.outerRLP
    BY <1>1, <1>2, <1>8, <2>1 DEF WholeField, Consume, Contexts
  <2>4. CountedInv' /\ StepsLeft' \in 0 .. 35 - 2 * (i + 1 + skip)
    <3>1. PICK j \in 1..LAST_FIELD : j = i + 1 + skip
      BY <2>2
    <3>2. CountedInv' /\ StepsLeft' \in 0 .. 35 - 2 * j
      BY <1>2, <2>3, <3>1, BackToHead
    <3> QED BY <3>1, <3>2
  <2> QED BY <1>3, <1>4, <2>2, <2>4 DEF Nearer
<1> QED BY <1>5, <1>6, <1>7, <1>8 DEF ProcessField

LEMMA NextNearer == ParserInv /\ CountedInv /\ Next => Nearer
<1> SUFFICES ASSUME ParserInv, CountedInv, Next PROVE Nearer
  OBVIOUS
<1>1. CASE Done \/ EndOldStyle \/ EndOfData
  BY <1>1, ReturnNearer
<1>2. CASE ReadOuterHeader \/ ReadNestedHeader \/ DetectType
  BY <1>2, OuterNearer, NestedNearer, TypeNearer
<1>3. CASE ReadHeader \/ ProcessField
  BY <1>3, HeaderNearer, FieldNearer
<1> QED BY <1>1, <1>2, <1>3 DEF Next

LEMMA AlwaysCounted == Spec => []CountedInv
<1>1. ParserInv /\ CountedInv /\ [Next]_vars => CountedInv'
  <2>1. ASSUME CountedInv, UNCHANGED vars PROVE CountedInv'
    BY <2>1 DEF CountedInv, vars
  <2>2. Nearer => CountedInv'
    BY DEF Nearer
  <2> QED BY <2>1, <2>2, NextNearer
<1> QED
  BY <1>1, InitCounted, Invariance, PTL DEF Spec

(* transaction_deserialize needs at most two steps for each field and four before
   the first, whatever the bytes are and however many: none of its steps is taken
   twice, neither those that look at a header again nor those that go on from a
   header that was not there, but a field's whose fault is dropped. *)
THEOREM ParserMovesOn == Spec => MovesOn
<1>1. ParserInv /\ CountedInv /\ [Next]_vars =>
         [FaultDropped \/ StepsLeft' \in 0 .. StepsLeft - 1]_vars
  <2>1. Nearer => FaultDropped \/ StepsLeft' \in 0 .. StepsLeft - 1
    BY DEF Nearer
  <2> QED BY <2>1, NextNearer
<1> QED
  BY <1>1, AlwaysCounted, Invariance, PTL DEF Spec, MovesOn

------------------------------------------------------------------------------
(* Fields that are not read yet are empty. *)

Copied == {"nonce", "gasprice", "startgas", "to", "value", "ratio", "chainID"}

Blank(t) == \A name \in Copied : t[name] = <<>>

BlankFrom(t, k) ==
    \A i \in DOMAIN Fields(t.txType) :
        i >= k /\ Fields(t.txType)[i] \in Copied => t[Fields(t.txType)[i]] = <<>>

(* In front of field k: the type may still change until it has been read. *)
Unread(t, k) ==
    /\ k = 1 \/ (k = 2 /\ t.txType # LEGACY) => Blank(t)
    /\ Supported(t.txType) => BlankFrom(t, k)

UnreadInv ==
    /\ pc \in {"nested", "type"} \/ ctx.outerRLP => ctx.currentField = 1
    /\ Unread(tx, ctx.currentField)

LEMMA BlankUnread == ASSUME NEW t, NEW k, Blank(t) PROVE Unread(t, k)
BY DEF Unread, Blank, BlankFrom

(* A field that is passed over. *)
LEMMA PassedOver ==
    ASSUME NEW t, Supported(t.txType), NEW i \in Nat, i >= 1, Unread(t, i),
           NEW skip \in {0, 1}, skip = 1 => i >= 6,
           NEW k, k = i + skip
    PROVE  Unread(t, k)
<1>1. CASE skip = 0
  <2>1. k = i
    BY <1>1
  <2> QED BY <2>1
<1>2. CASE skip = 1
  <2>1. k \in Nat /\ k > 2 /\ k >= i
    BY <1>2
  <2>2. ASSUME NEW j \in DOMAIN Fields(t.txType), j >= k PROVE j >= i
    <3>1. j \in Nat
      BY FieldsOrderly DEF Orderly
    <3> QED BY <2>1, <2>2, <3>1
  <2>3. BlankFrom(t, k)
    BY <2>2 DEF Unread, BlankFrom
  <2> QED BY <2>1, <2>3 DEF Unread
<1> QED BY <1>1, <1>2

(* A field that is stored was empty, and those behind it stay so. *)
LEMMA StoredOnce ==
    ASSUME Fits(tx), NEW type, type = tx.txType, Supported(type),
           NEW i \in DOMAIN Fields(type), Unread(tx, i),
           NEW name, name = Fields(type)[i],
           NEW bytes \in ByteStrings, ~TooLong(name, Len(bytes)),
           NEW u \in Store(name, bytes),
           NEW k \in Nat, k > i
    PROVE  /\ Unread(u, k)
           /\ \A other \in Copied : u[other] # tx[other] =>
                 \/ other = name /\ tx[other] = <<>>
                 \/ other = "value" /\ name = "ratio" /\ Len(bytes) > 1
<1>1. /\ i \in Nat /\ i >= 1
      /\ \A j \in DOMAIN Fields(type) :
            /\ j \in Nat
            /\ Fields(type)[j] = name /\ name \in Stored => j = i
      /\ name = "type" => i = 2 /\ Fields(type)[1] = "content"
      /\ name = "content" => i = 1
  BY FieldsOrderly DEF Orderly
<1>2. /\ name # "type" => u.txType = type
      /\ \A other \in {"nonce", "gasprice", "startgas", "to", "chainID"} :
            u[other] = IF other = name THEN bytes ELSE tx[other]
      /\ name \notin {"value", "ratio"} => u.value = tx.value
      /\ name = "ratio" /\ Len(bytes) <= 1 => u.value = tx.value
      /\ name = "ratio" /\ tx.value = <<>> => u.value = <<>>
      /\ name # "ratio" => u.ratio = tx.ratio
  <2>1. name = "to" => Len(bytes) <= ADDRESS_LEN
    BY LimitsAssumption, LenProperties DEF TooLong, ByteStrings
  <2>2. Keeps(name, bytes, u)
    BY <2>1, StoreKeeps
  <2> QED BY <2>2 DEF Keeps
<1>3. name \in Copied => tx[name] = <<>>
  BY <1>1 DEF Unread, BlankFrom
<1>4. Len(bytes) \in Nat
  BY LenProperties DEF ByteStrings
<1>5. ASSUME NEW other \in Copied, u[other] # tx[other]
      PROVE  \/ other = name /\ tx[other] = <<>>
             \/ other = "value" /\ name = "ratio" /\ Len(bytes) > 1
  <2>1. CASE other \in {"nonce", "gasprice", "startgas", "to", "chainID"}
    BY <1>2, <1>3, <1>5, <2>1
  <2>2. CASE other = "value"
    <3>1. name = "value" \/ (name = "ratio" /\ ~(Len(bytes) <= 1))
      BY <1>2, <1>5, <2>2
    <3> QED BY <1>3, <1>4, <1>5, <2>2, <3>1
  <2>3. CASE other = "ratio"
    BY <1>2, <1>3, <1>5, <2>3
  <2> QED BY <2>1, <2>2, <2>3 DEF Copied
<1>6. ASSUME NEW other \in Copied, other # name, tx[other] = <<>> PROVE u[other] = <<>>
  BY <1>2, <1>6 DEF Copied
<1>7. CASE name \in {"type", "content"}
  <2>1. Blank(tx)
    <3>1. i = 1 \/ (i = 2 /\ type # LEGACY)
      BY <1>1, <1>7, FirstNames
    <3> QED BY <3>1 DEF Unread
  <2>2. name \notin Copied
    BY <1>7 DEF Copied
  <2>3. Blank(u)
    BY <1>6, <2>1, <2>2 DEF Blank
  <2>4. Unread(u, k)
    BY <2>3, BlankUnread
  <2> QED BY <1>5, <2>4
<1>8. CASE name \notin {"type", "content"}
  <2>1. u.txType = type
    BY <1>2, <1>8
  <2>2. ~(k = 1 \/ (k = 2 /\ u.txType # LEGACY))
    <3>1. k = 2 => i = 1
      BY <1>1
    <3>2. i = 1 => type = LEGACY
      BY <1>8, FirstNames
    <3> QED BY <1>1, <2>1, <3>1, <3>2
  <2>3. ASSUME NEW j \in DOMAIN Fields(type), j >= k, Fields(type)[j] \in Copied
        PROVE  u[Fields(type)[j]] = <<>>
    <3>1. j \in Nat /\ j > i /\ j >= i /\ j # i
      BY <1>1, <2>3
    <3>2. tx[Fields(type)[j]] = <<>>
      BY <2>3, <3>1 DEF Unread, BlankFrom
    <3>3. Fields(type)[j] # name
      BY <1>1, <2>3, <3>1 DEF Copied, Stored
    <3> QED BY <1>6, <2>3, <3>2, <3>3
  <2>4. Unread(u, k)
    BY <2>1, <2>2, <2>3 DEF Unread, BlankFrom
  <2> QED BY <1>5, <2>4
<1> QED BY <1>7, <1>8

(* What a step may change of the transaction. *)
StepKeeps ==
    \A name \in DOMAIN tx \ {"txType"} :
        tx'[name] # tx[name] =>
            /\ pc = "field" /\ KnownField
            /\ \/ Field = name /\ tx[name] = <<>>
               \/ name = "value" /\ Field = "ratio" /\ ctx.currentFieldLength > 1

LEMMA CopiedFields == ASSUME Fits(tx) PROVE DOMAIN tx \ {"txType"} = Copied
BY DEF Fits, Transactions, Copied

LEMMA InitUnread == Init => UnreadInv
<1> SUFFICES ASSUME Init PROVE UnreadInv
  OBVIOUS
<1>1. Blank(tx) /\ ctx.currentField = 1
  BY DEF Init, Blank, Copied, NoTx, FreshContext
<1> QED BY <1>1, BlankUnread DEF UnreadInv

(* A step that leaves the transaction, but for its type, as it was. *)
LEMMA OnlyTypeChanges ==
    ASSUME Fits(tx), NEW type, tx' = [tx EXCEPT !.txType = type], Blank(tx)
    PROVE  StepKeeps /\ Unread(tx', ctx'.currentField)
<1>1. \A name \in Copied : tx'[name] = tx[name]
  BY DEF Fits, Transactions, Copied
<1>2. Blank(tx')
  BY <1>1 DEF Blank
<1> QED BY <1>1, <1>2, BlankUnread, CopiedFields DEF StepKeeps

LEMMA EndUnread ==
    ASSUME ParserInv, UnreadInv, Done \/ EndOldStyle \/ EndOfData
    PROVE  StepKeeps /\ UnreadInv'
<1>1. ctx' = ctx /\ pc' = pc
  BY DEF Done, EndOldStyle, EndOfData
<1>2. tx' = tx
  <2>1. CASE EndOldStyle
    <3>1. tx.txType = LEGACY /\ ctx.currentField = LEGACY_RLP_CHAIN_ID
          /\ tx' = [tx EXCEPT !.chainID = <<>>]
      BY <2>1 DEF EndOldStyle, OldStyleEnd
    <3>2. Supported(LEGACY)
      BY DEF Supported
    <3>3. LEGACY_RLP_CHAIN_ID \in DOMAIN Fields(LEGACY)
          /\ Fields(LEGACY)[LEGACY_RLP_CHAIN_ID] = "chainID"
      BY <3>2, FieldsOrderly DEF Orderly, LEGACY_RLP_CHAIN_ID
    <3>4. tx.chainID = <<>>
      <4>1. LEGACY_RLP_CHAIN_ID >= LEGACY_RLP_CHAIN_ID
        BY DEF LEGACY_RLP_CHAIN_ID
      <4> QED BY <3>1, <3>2, <3>3, <4>1 DEF UnreadInv, Unread, BlankFrom, Copied
    <3> QED BY <3>1, <3>4 DEF ParserInv, Fits, Transactions
  <2>2. CASE Done \/ EndOfData
    BY <2>2 DEF Done, EndOfData
  <2> QED BY <2>1, <2>2
<1> QED BY <1>1, <1>2 DEF StepKeeps, UnreadInv, Unread, Blank, BlankFrom

LEMMA HeadersUnread ==
    ASSUME ParserInv, CountedInv, UnreadInv,
           ReadOuterHeader \/ ReadNestedHeader \/ DetectType
    PROVE  StepKeeps /\ UnreadInv'
<1>1. ctx \in Contexts /\ Fits(tx)
  BY DEF ParserInv, Sound
<1>2. ctx.currentField = 1
  BY DEF UnreadInv, ReadOuterHeader, ReadNestedHeader, DetectType
<1>3. Blank(tx)
  BY <1>2 DEF UnreadInv, Unread
<1>4. PICK d : d = ParseRLP(ctx).ctx
  OBVIOUS
<1>5. d \in Contexts /\ d.currentField = 1 /\ d.outerRLP = ctx.outerRLP
  BY <1>1, <1>2, <1>4, ParseKeeps, ParseSound DEF ParserInv, Sound
<1>6. ctx'.currentField = 1
  BY <1>4, <1>5 DEF ReadOuterHeader, ReadNestedHeader, DetectType, GoBack, Contexts
<1>7. tx' = tx \/ \E type : tx' = [tx EXCEPT !.txType = type]
  BY DEF ReadOuterHeader, ReadNestedHeader, DetectType
<1>8. CASE tx' = tx
  <2>1. Unread(tx', ctx'.currentField)
    BY <1>3, <1>8, BlankUnread
  <2> QED BY <1>6, <1>8, <2>1 DEF StepKeeps, UnreadInv, Unread, Blank, BlankFrom
<1>9. CASE \E type : tx' = [tx EXCEPT !.txType = type]
  <2>1. StepKeeps /\ Unread(tx', ctx'.currentField)
    BY <1>1, <1>3, <1>9, OnlyTypeChanges
  <2> QED BY <1>6, <2>1 DEF UnreadInv, Unread, Blank, BlankFrom
<1> QED BY <1>7, <1>8, <1>9

LEMMA HeaderUnread ==
    ASSUME ParserInv, CountedInv, UnreadInv, ReadHeader PROVE StepKeeps /\ UnreadInv'
<1>1. /\ tx' = tx /\ pc' \in {pc, "field"} /\ pc = "head" /\ ~ctx.outerRLP
  BY DEF ReadHeader, GoesOn, AtHead
<1>2. ctx'.currentField = ctx.currentField /\ ~ctx'.outerRLP
  BY <1>1, ParseKeeps DEF ReadHeader, ParserInv, Sound
<1> QED BY <1>1, <1>2 DEF StepKeeps, UnreadInv, Unread, Blank, BlankFrom

LEMMA FieldUnread ==
    ASSUME ParserInv, CountedInv, UnreadInv, ProcessField PROVE StepKeeps /\ UnreadInv'
<1>1. PICK type : type = tx.txType
  OBVIOUS
<1>2. PICK i \in 1..LAST_FIELD : i = ctx.currentField
  BY DEF CountedInv
<1>3. i \in Nat /\ i >= 1
  BY <1>2 DEF LAST_FIELD
<1>4. /\ raw \in Seq(Byte) /\ ctx \in Contexts /\ Sound(ctx) /\ Fits(tx)
      /\ pc = "field" /\ pc' = "head" /\ ~ctx.outerRLP /\ Unread(tx, i)
  BY <1>2 DEF ParserInv, Sound, ProcessField, CountedInv, UnreadInv
<1>5. PICK skip : skip = Skip
  OBVIOUS
<1>6. KnownField => /\ Supported(type) /\ i \in DOMAIN Fields(type)
                    /\ Field = Fields(type)[i] /\ skip \in {0, 1} /\ (skip = 1 => i >= 6)
  <2> SUFFICES ASSUME KnownField
               PROVE  /\ Supported(type) /\ i \in DOMAIN Fields(type)
                      /\ Field = Fields(type)[i] /\ skip \in {0, 1} /\ (skip = 1 => i >= 6)
    OBVIOUS
  <2>1. Supported(type) /\ i <= Len(Fields(type)) /\ Field = Fields(type)[i]
    BY <1>1, <1>2 DEF KnownField, Field
  <2>2. i \in DOMAIN Fields(type)
    BY <1>3, <2>1, FieldsOrderly DEF Orderly
  <2>3. skip = Skips(i, type)
    BY <1>1, <1>2, <1>5 DEF Skip
  <2> QED BY <2>1, <2>2, <2>3, SkipFacts
<1>7. CASE UnknownField
  BY <1>4, <1>7 DEF UnknownField, StepKeeps, UnreadInv, Unread, Blank, BlankFrom
<1>8. CASE FaultyField \/ CutField
  <2>1. PICK k : k = i + skip
    OBVIOUS
  <2>2. KnownField /\ tx' = tx
    BY <1>8 DEF FaultyField, CutField
  <2>3. ctx'.currentField = k /\ ~ctx'.outerRLP
    BY <1>2, <1>4, <1>5, <1>8, <2>1 DEF FaultyField, CutField, Consume, Contexts
  <2>4. Unread(tx, k)
    BY <1>1, <1>3, <1>4, <1>6, <2>1, <2>2, PassedOver
  <2> QED BY <1>4, <2>2, <2>3, <2>4 DEF StepKeeps, UnreadInv, Unread, Blank, BlankFrom
<1>9. CASE WholeField
  <2>1. PICK k : k = i + 1 + skip
    OBVIOUS
  <2>2. KnownField /\ k \in Nat /\ k > i
    BY <1>3, <1>6, <1>9, <2>1 DEF WholeField
  <2>3. ctx'.currentField = k /\ ~ctx'.outerRLP
    BY <1>2, <1>4, <1>5, <1>9, <2>1 DEF WholeField, Consume, Contexts
  <2>4. PICK bytes \in ByteStrings :
            /\ Len(bytes) = FieldSize /\ ~TooLong(Field, Len(bytes))
            /\ tx' \in Store(Field, bytes)
    BY <1>4, <1>9, WholeBytes
  <2>5. PICK name : name = Fields(type)[i]
    OBVIOUS
  <2>6. Field = name
    BY <1>6, <2>2, <2>5
  <2>7. /\ Unread(tx', k)
        /\ \A other \in Copied : tx'[other] # tx[other] =>
              \/ other = name /\ tx[other] = <<>>
              \/ other = "value" /\ name = "ratio" /\ Len(bytes) > 1
    BY <1>1, <1>4, <1>6, <2>2, <2>4, <2>5, <2>6, StoredOnce
  <2>8. name = "ratio" => Len(bytes) = ctx.currentFieldLength
    BY <2>4, <2>6 DEF FieldSize
  <2>9. StepKeeps
    BY <1>4, <2>2, <2>6, <2>7, <2>8, CopiedFields DEF StepKeeps
  <2>10. UnreadInv'
    BY <1>4, <2>3, <2>7 DEF UnreadInv, Unread, Blank, BlankFrom
  <2> QED BY <2>9, <2>10
<1> QED BY <1>7, <1>8, <1>9 DEF ProcessField

LEMMA NextUnread ==
    ParserInv /\ CountedInv /\ UnreadInv /\ [Next]_vars => UnreadInv' /\ [StepKeeps]_vars
<1> SUFFICES ASSUME ParserInv, CountedInv, UnreadInv, [Next]_vars
             PROVE  UnreadInv' /\ [StepKeeps]_vars
  OBVIOUS
<1>1. CASE Done \/ EndOldStyle \/ EndOfData
  BY <1>1, EndUnread
<1>2. CASE ReadOuterHeader \/ ReadNestedHeader \/ DetectType
  BY <1>2, HeadersUnread
<1>3. CASE ReadHeader
  BY <1>3, HeaderUnread
<1>4. CASE ProcessField
  BY <1>4, FieldUnread
<1>5. CASE UNCHANGED vars
  BY <1>5 DEF vars, UnreadInv, Unread, Blank, BlankFrom
<1> QED BY <1>1, <1>2, <1>3, <1>4, <1>5 DEF Next

(* Whatever bytes the host sends, and however often a field is tried again, what
   transaction_deserialize copies stays in the field it is copied to, and a field
   other than the type is copied to once.  Only a ratio of more than a byte reaches
   another field, the amount. *)
THEOREM FieldsStay == Spec => FieldsKept
<1> QED
  BY InitUnread, NextUnread, AlwaysCounted, Invariance, PTL
     DEF Spec, FieldsKept, StepKeeps
==============================================================================
