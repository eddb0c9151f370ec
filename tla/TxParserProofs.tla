---------------------------- MODULE TxParserProofs ----------------------------
(***************************************************************************)
(* What holds of the parser whatever the bytes, their number and the size  *)
(* of the fields: it stays within its data.                                *)
(***************************************************************************)
EXTENDS TxParser, SequenceTheorems, TLAPS

(* The steps about records need not know what a byte string is. *)
ByteStrings == Seq(Byte)

Contexts ==
    [currentField : Nat, currentFieldLength : Nat, currentFieldIsList : BOOLEAN,
     processingField : BOOLEAN, fieldSingleByte : BOOLEAN, outerRLP : BOOLEAN,
     commandLength : Nat, workBuffer : Nat, rlpBuffer : ByteStrings,
     overrun : BOOLEAN]

(* The header buffer is empty, full, or holds a header that is not complete. *)
HeaderOpen(h) ==
    \/ Len(h) = 0
    \/ Len(h) = RLP_BUFFER
    \/ 0 < Len(h) /\ Len(h) < RLP_BUFFER /\ Len(h) < HeaderLen(h[1])

(* A context that has not left its data. *)
Sound(c) ==
    /\ c \in Contexts
    /\ c.workBuffer + c.commandLength = Len(raw)
    /\ HeaderOpen(c.rlpBuffer)

Transactions ==
    [txType : Nat, nonce : ByteStrings, gasprice : ByteStrings,
     startgas : ByteStrings, to : ByteStrings, value : ByteStrings,
     ratio : ByteStrings, chainID : ByteStrings]

(* A transaction whose fields are as long as they may be, or shorter. *)
Fits(t) ==
    /\ t \in Transactions
    /\ \A name \in {"nonce", "gasprice", "startgas", "value", "chainID"} :
          Len(t[name]) <= MAX_INT256
    /\ Len(t.to) <= ADDRESS_LEN

ParserInv ==
    /\ raw \in Seq(Byte)
    /\ Sound(ctx)
    /\ Fits(tx)

------------------------------------------------------------------------------
(* Headers. *)

LEMMA ByteIsNat == \A b \in Byte : b \in Nat
BY DEF Byte

LEMMA HeaderLenBounds ==
    ASSUME NEW first \in Byte
    PROVE  HeaderLen(first) \in 1..9 /\ LengthBytes(first) \in 0..8
BY DEF HeaderLen, LengthBytes, Byte

LEMMA ShortLengthNat ==
    ASSUME NEW first \in Byte, LengthBytes(first) = 0
    PROVE  ShortLength(first) \in Nat
BY DEF ShortLength, IsSingle, IsListHeader, LengthBytes, Byte

LEMMA LongLengthNat ==
    ASSUME NEW h \in Seq(Byte), Len(h) \in 2..5
    PROVE  LongLength(h) \in Nat
<1>1. \A i \in 1..Len(h) : h[i] \in Byte
  BY ElementOfSeq
<1>2. \A i \in 1..Len(h) : h[i] \in Nat
  BY <1>1, ByteIsNat
<1>3. CASE Len(h) = 2
  BY <1>2, <1>3 DEF LongLength
<1>4. CASE Len(h) = 3
  BY <1>2, <1>4 DEF LongLength
<1>5. CASE Len(h) = 4
  BY <1>2, <1>5 DEF LongLength
<1>6. CASE Len(h) = 5
  <2>1. PICK a \in Nat, b \in Nat, c \in Nat, d \in Nat :
            a = h[2] /\ b = h[3] /\ c = h[4] /\ d = h[5]
    BY <1>2, <1>6
  <2>2. LongLength(h) = ((a * 256 + b) * 256 + c) * 256 + d
    BY <1>6, <2>1 DEF LongLength
  <2>3. ((a * 256 + b) * 256 + c) * 256 + d \in Nat
    OBVIOUS
  <2> QED
    BY <2>2, <2>3
<1> QED
  BY <1>3, <1>4, <1>5, <1>6

(* A complete header tells a length. *)
LEMMA FieldLengthNat ==
    ASSUME NEW h \in Seq(Byte), Len(h) # 0, Len(h) <= 5, Len(h) = HeaderLen(h[1])
    PROVE  FieldLength(h) \in Nat
<1>1. Len(h) \in 1..5
  BY LenProperties
<1>2. \A i \in 1..Len(h) : h[i] \in Byte
  BY ElementOfSeq
<1>3. h[1] \in Byte
  BY <1>1, <1>2
<1>4. CASE LengthBytes(h[1]) = 0
  <2> QED
    BY <1>3, <1>4, ShortLengthNat DEF FieldLength
<1>5. CASE LengthBytes(h[1]) # 0
  <2>1. Len(h) \in 2..5
    BY <1>1, <1>3, <1>5, HeaderLenBounds DEF HeaderLen
  <2> QED
    BY <1>5, <2>1, LongLengthNat DEF FieldLength
<1> QED
  BY <1>4, <1>5

(* Bytes that are there: the parts of a sequence that the parser takes. *)
LEMMA Part ==
    ASSUME NEW S, NEW s \in Seq(S), NEW m \in Nat, NEW n \in Nat, m + n <= Len(s),
           NEW part, part = SubSeq(s, m + 1, m + n)
    PROVE  part \in Seq(S) /\ Len(part) = n /\ (n # 0 => part[1] = s[m + 1])
<1>1. Len(s) \in Nat
  BY LenProperties
<1>2. PICK a \in Int, b \in Int : a = m + 1 /\ b = m + n
  OBVIOUS
<1>3. \A i \in a..b : s[i] \in S
  BY <1>1, <1>2, ElementOfSeq
<1>4. /\ SubSeq(s, a, b) \in Seq(S)
      /\ Len(SubSeq(s, a, b)) = IF a <= b THEN b - a + 1 ELSE 0
      /\ \A i \in 1..(b - a + 1) : SubSeq(s, a, b)[i] = s[a + i - 1]
  BY <1>3, SubSeqProperties
<1>5. part = SubSeq(s, a, b)
  BY <1>2
<1>6. Len(part) = n
  <2>1. CASE n = 0
    BY <1>2, <1>4, <1>5, <2>1
  <2>2. CASE n # 0
    BY <1>2, <1>4, <1>5, <2>2
  <2> QED
    BY <2>1, <2>2
<1>7. n # 0 => part[1] = s[a]
  <2> SUFFICES ASSUME n # 0 PROVE part[1] = s[a]
    OBVIOUS
  <2>1. 1 \in 1..(b - a + 1) /\ a + 1 - 1 = a
    BY <1>2
  <2> QED
    BY <1>4, <1>5, <2>1
<1> QED
  BY <1>2, <1>4, <1>5, <1>6, <1>7

(* The same of bytes, with the start and the size it is used with. *)
LEMMA BytesPart ==
    ASSUME NEW s \in Seq(Byte), NEW m \in Nat, NEW n \in Nat, m + n <= Len(s)
    PROVE  /\ SubSeq(s, m + 1, m + n) \in Seq(Byte)
           /\ Len(SubSeq(s, m + 1, m + n)) = n
<1>1. PICK part : part = SubSeq(s, m + 1, m + n)
  OBVIOUS
<1>2. part \in Seq(Byte) /\ Len(part) = n
  BY <1>1, Part
<1> QED
  BY <1>1, <1>2

LEMMA Joined ==
    ASSUME NEW s \in Seq(Byte), NEW t \in Seq(Byte), NEW whole, whole = s \o t
    PROVE  /\ whole \in Seq(Byte)
           /\ Len(whole) = Len(s) + Len(t)
           /\ Len(s) # 0 => whole[1] = s[1]
           /\ Len(s) = 0 /\ Len(t) # 0 => whole[1] = t[1]
<1>1. Len(s) \in Nat /\ Len(t) \in Nat
  BY LenProperties
<1>2. /\ whole \in Seq(Byte)
      /\ Len(whole) = Len(s) + Len(t)
      /\ \A i \in 1..Len(s) + Len(t) :
            whole[i] = IF i <= Len(s) THEN s[i] ELSE t[i - Len(s)]
  BY ConcatProperties
<1>3. Len(s) + Len(t) # 0 => whole[1] = IF 1 <= Len(s) THEN s[1] ELSE t[1 - Len(s)]
  BY <1>1, <1>2
<1> QED
  BY <1>1, <1>2, <1>3

(* Some bytes are consumed. *)
LEMMA Consumed ==
    ASSUME NEW c \in Contexts, NEW n \in Nat, n <= c.commandLength,
           NEW d, d = Consume(c, n)
    PROVE  /\ d \in Contexts
           /\ d.workBuffer + d.commandLength = c.workBuffer + c.commandLength
           /\ d.rlpBuffer = c.rlpBuffer
<1>1. PICK p, q : p = c.workBuffer + n /\ q = c.commandLength - n
  OBVIOUS
<1>2. p \in Nat /\ q \in Nat /\ p + q = c.workBuffer + c.commandLength
  BY <1>1 DEF Contexts
<1>3. d = [c EXCEPT !.workBuffer = p, !.commandLength = q]
  BY <1>1 DEF Consume
<1> QED
  BY <1>2, <1>3 DEF Contexts

LEMMA ConsumedSound ==
    ASSUME NEW c, Sound(c), NEW n \in Nat, n <= c.commandLength,
           NEW d, d = Consume(c, n)
    PROVE  Sound(d) /\ d.currentField = c.currentField
<1>1. d.currentField = c.currentField
  BY DEF Consume, Sound, Contexts
<1> QED
  BY <1>1, Consumed DEF Sound

(* n bytes that are there can be moved to the header buffer. *)
LEMMA BufferSound ==
    ASSUME raw \in Seq(Byte),
           NEW c \in Contexts, c.workBuffer + c.commandLength = Len(raw),
           NEW n \in Nat, n <= c.commandLength,
           NEW d, d = Buffer(c, n)
    PROVE  /\ d \in Contexts
           /\ d.workBuffer + d.commandLength = Len(raw)
           /\ Len(d.rlpBuffer) = Len(c.rlpBuffer) + n
           /\ Len(c.rlpBuffer) # 0 => d.rlpBuffer[1] = c.rlpBuffer[1]
           /\ Len(c.rlpBuffer) = 0 /\ n # 0 => d.rlpBuffer[1] = raw[c.workBuffer + 1]
<1>1. PICK s, m : s = c.rlpBuffer /\ m = c.workBuffer
  OBVIOUS
<1>2. s \in Seq(Byte) /\ m \in Nat /\ m + n <= Len(raw)
  BY <1>1, LenProperties DEF Contexts, ByteStrings
<1>3. PICK part : part = SubSeq(raw, m + 1, m + n)
  OBVIOUS
<1>4. part \in Seq(Byte) /\ Len(part) = n /\ (n # 0 => part[1] = raw[m + 1])
  BY <1>2, <1>3, Part
<1>5. PICK h : h = s \o part
  OBVIOUS
<1>6. /\ h \in Seq(Byte)
      /\ Len(h) = Len(s) + n
      /\ Len(s) # 0 => h[1] = s[1]
      /\ Len(s) = 0 /\ n # 0 => h[1] = raw[m + 1]
  <2>1. /\ h \in Seq(Byte) /\ Len(h) = Len(s) + Len(part)
        /\ Len(s) # 0 => h[1] = s[1]
        /\ Len(s) = 0 /\ Len(part) # 0 => h[1] = part[1]
    BY <1>2, <1>4, <1>5, Joined, ZenonT(30)
  <2> QED
    BY <1>4, <2>1
<1>7. PICK e : e = Consume(c, n)
  OBVIOUS
<1>8. /\ e \in Contexts
      /\ e.workBuffer + e.commandLength = Len(raw)
      /\ e.rlpBuffer = s
  BY <1>1, <1>7, Consumed
<1>9. d = [e EXCEPT !.rlpBuffer = h]
  BY <1>1, <1>3, <1>5, <1>7, <1>8 DEF Buffer
<1>10. h \in ByteStrings
  BY <1>6 DEF ByteStrings
<1>11. /\ d \in Contexts /\ d.workBuffer = e.workBuffer
       /\ d.commandLength = e.commandLength /\ d.rlpBuffer = h
  BY <1>8, <1>9, <1>10 DEF Contexts
<1> QED
  BY <1>1, <1>6, <1>8, <1>11

(* The item behind a complete header begins. *)
LEMMA BeginFieldSound ==
    ASSUME NEW c \in Contexts,
           NEW h \in Seq(Byte), Len(h) # 0, Len(h) <= 5, Len(h) = HeaderLen(h[1]),
           NEW d, d = BeginField(c, h)
    PROVE  /\ d \in Contexts
           /\ d.workBuffer = c.workBuffer /\ d.commandLength = c.commandLength
           /\ Len(d.rlpBuffer) = 0
<1>1. FieldLength(h) \in Nat
  BY FieldLengthNat
<1>2. PICK length \in Nat, list \in BOOLEAN, single \in BOOLEAN, busy \in BOOLEAN,
          empty \in ByteStrings :
        /\ length = FieldLength(h) /\ list = IsListHeader(h[1])
        /\ single = IsSingle(h[1]) /\ busy = (c.processingField \/ ~c.outerRLP)
        /\ empty = <<>>
  <2>1. <<>> \in ByteStrings
    BY EmptySeq DEF ByteStrings
  <2>2. /\ IsListHeader(h[1]) \in BOOLEAN /\ IsSingle(h[1]) \in BOOLEAN
        /\ (c.processingField \/ ~c.outerRLP) \in BOOLEAN
    BY DEF IsListHeader, IsSingle
  <2> QED
    BY <1>1, <2>1, <2>2
<1>3. d = [c EXCEPT !.currentFieldLength = length, !.currentFieldIsList = list,
                    !.fieldSingleByte = single, !.rlpBuffer = empty,
                    !.processingField = busy]
  BY <1>2 DEF BeginField
<1>4. /\ d \in Contexts
      /\ d.workBuffer = c.workBuffer /\ d.commandLength = c.commandLength
      /\ d.rlpBuffer = empty
  BY <1>3 DEF Contexts
<1> QED
  BY <1>2, <1>4, EmptySeq

(* parseRLP, whether it finds a header, a part of one or an error, leaves a
   sound context sound. *)
LEMMA ParseSound ==
    ASSUME raw \in Seq(Byte), NEW c, Sound(c), NEW p, p = ParseRLP(c)
    PROVE  Sound(p.ctx)
<1> DEFINE len == Len(c.rlpBuffer)
           first == FirstByte(c)
           size == HeaderLen(first)
<1>1. /\ c \in Contexts /\ c.workBuffer + c.commandLength = Len(raw)
      /\ HeaderOpen(c.rlpBuffer) /\ c.rlpBuffer \in Seq(Byte) /\ len \in Nat
      /\ c.workBuffer \in Nat /\ c.commandLength \in Nat
  BY LenProperties DEF Sound, Contexts, ByteStrings
<1>2. CASE c.commandLength = 0
  BY <1>2 DEF ParseRLP, Parsed
<1>3. CASE c.commandLength # 0 /\ len = RLP_BUFFER
  <2>1. p.ctx = [c EXCEPT !.overrun = TRUE]
    BY <1>3 DEF ParseRLP, Parsed
  <2>2. PICK d : d = p.ctx
    OBVIOUS
  <2>3. /\ d \in Contexts /\ d.workBuffer = c.workBuffer
        /\ d.commandLength = c.commandLength /\ d.rlpBuffer = c.rlpBuffer
    BY <1>1, <2>1, <2>2 DEF Contexts
  <2> QED
    BY <1>1, <2>2, <2>3 DEF Sound
<1>4. ASSUME c.commandLength # 0, len # RLP_BUFFER
      PROVE  Sound(p.ctx)
  <2>1. first \in Byte
    <3>1. CASE len = 0
      BY <1>1, <1>4, <3>1, ElementOfSeq, LenProperties DEF FirstByte
    <3>2. CASE len # 0
      BY <1>1, <3>2, ElementOfSeq DEF FirstByte
    <3> QED
      BY <3>1, <3>2
  <2>2. size \in 1..9
    BY <2>1, HeaderLenBounds
  <2>3. /\ Wanted(c) \in Nat /\ Wanted(c) # 0
        /\ len + Wanted(c) = IF size > 5 THEN 5 ELSE size
    <3>1. len = 0 \/ (len < 5 /\ len < size)
      BY <1>1, <1>4 DEF HeaderOpen, FirstByte, RLP_BUFFER
    <3> QED
      BY <1>1, <2>2, <3>1 DEF Wanted, RLP_BUFFER
  <2>4. CASE c.commandLength < Wanted(c)
    <3>1. PICK d : d = Buffer(c, c.commandLength)
      OBVIOUS
    <3>2. p.ctx = d
      BY <1>4, <2>4, <3>1 DEF ParseRLP, Parsed
    <3>3. /\ d \in Contexts /\ d.workBuffer + d.commandLength = Len(raw)
          /\ Len(d.rlpBuffer) = len + c.commandLength
          /\ d.rlpBuffer[1] = first
      <4>1. PICK n \in Nat : n = c.commandLength /\ n <= c.commandLength /\ n # 0
        BY <1>1, <1>4
      <4>2. d = Buffer(c, n)
        BY <3>1, <4>1
      <4>3. /\ d \in Contexts /\ d.workBuffer + d.commandLength = Len(raw)
            /\ Len(d.rlpBuffer) = len + n
            /\ len # 0 => d.rlpBuffer[1] = c.rlpBuffer[1]
            /\ len = 0 /\ n # 0 => d.rlpBuffer[1] = raw[c.workBuffer + 1]
        <5>1. n \in Nat /\ n <= c.commandLength
          BY <4>1
        <5> QED
          BY <1>1, <4>2, <5>1, BufferSound
      <4> QED
        BY <4>1, <4>3 DEF FirstByte
    <3>4. HeaderOpen(d.rlpBuffer)
      <4>1. PICK total \in Nat : total = Len(d.rlpBuffer)
        BY <1>1, <3>3
      <4>2. total < 5 /\ total < size /\ 0 < total
        <5>1. PICK w \in Nat, sz \in Nat, k \in Nat, n \in Nat :
                  w = Wanted(c) /\ sz = size /\ k = len /\ n = c.commandLength
          BY <1>1, <2>2, <2>3
        <5>2. total = k + n /\ n < w /\ n # 0 /\ k + w = IF sz > 5 THEN 5 ELSE sz
          BY <1>4, <2>3, <2>4, <3>3, <4>1, <5>1
        <5>3. total < 5 /\ total < sz /\ 0 < total
          BY <5>2
        <5> QED
          BY <5>1, <5>3
      <4>3. HeaderLen(d.rlpBuffer[1]) = size
        BY <3>3
      <4> QED
        BY <4>1, <4>2, <4>3 DEF HeaderOpen, RLP_BUFFER
    <3> QED
      BY <3>2, <3>3, <3>4 DEF Sound
  <2>5. CASE c.commandLength >= Wanted(c)
    <3>1. PICK d : d = Buffer(c, Wanted(c))
      OBVIOUS
    <3>2. /\ d \in Contexts /\ d.workBuffer + d.commandLength = Len(raw)
          /\ Len(d.rlpBuffer) = len + Wanted(c)
          /\ d.rlpBuffer[1] = first
      BY <1>1, <2>3, <2>5, <3>1, BufferSound DEF FirstByte
    <3>3. CASE size > RLP_BUFFER
      <4>1. p.ctx = d
        BY <1>1, <1>4, <2>3, <2>5, <3>1, <3>3 DEF ParseRLP, Parsed
      <4>2. HeaderOpen(d.rlpBuffer)
        BY <2>3, <3>2, <3>3 DEF HeaderOpen, RLP_BUFFER
      <4> QED
        BY <3>2, <4>1, <4>2 DEF Sound
    <3>4. CASE ~(size > RLP_BUFFER)
      <4>1. PICK h : h = d.rlpBuffer
        OBVIOUS
      <4>2. /\ h \in Seq(Byte) /\ Len(h) # 0 /\ Len(h) <= 5
            /\ Len(h) = HeaderLen(h[1])
        BY <2>2, <2>3, <3>2, <3>4, <4>1 DEF Contexts, ByteStrings, RLP_BUFFER
      <4>3. PICK e : e = ConsumeHeader(c, h, Wanted(c))
        OBVIOUS
      <4>4. e \in Contexts /\ e.workBuffer + e.commandLength = Len(raw)
        <5>1. CASE IsSingle(h[1])
          BY <1>1, <4>3, <5>1 DEF ConsumeHeader
        <5>2. CASE ~IsSingle(h[1])
          BY <1>1, <2>3, <2>5, <4>3, <5>2, Consumed DEF ConsumeHeader
        <5> QED
          BY <5>1, <5>2
      <4>5. PICK f : f = BeginField(e, h)
        OBVIOUS
      <4>6. /\ f \in Contexts /\ f.workBuffer + f.commandLength = Len(raw)
            /\ Len(f.rlpBuffer) = 0
        BY <4>2, <4>4, <4>5, BeginFieldSound
      <4>7. p.ctx = f
        BY <1>1, <1>4, <2>3, <2>5, <3>1, <3>4, <4>1, <4>3, <4>5 DEF ParseRLP, Parsed
      <4> QED
        BY <4>6, <4>7 DEF Sound, HeaderOpen
    <3> QED
      BY <3>3, <3>4
  <2> QED
    BY <1>1, <2>3, <2>4, <2>5
<1> QED
  BY <1>2, <1>3, <1>4

------------------------------------------------------------------------------
(* Fields. *)

(* A ratio that runs over the value changes bytes of it, not their number. *)
LEMMA RatioOverValue ==
    ASSUME NEW v \in Seq(Byte), NEW b \in Seq(Byte),
           NEW w, w = [i \in 1..Len(v) |-> IF i < Len(b) THEN b[i + 1] ELSE v[i]]
    PROVE  w \in Seq(Byte) /\ Len(w) = Len(v)
<1>1. Len(v) \in Nat /\ Len(b) \in Nat
  BY LenProperties
<1>2. w \in [1..Len(v) -> Byte]
  <2>1. ASSUME NEW i \in 1..Len(v)
        PROVE  (IF i < Len(b) THEN b[i + 1] ELSE v[i]) \in Byte
    BY <1>1, ElementOfSeq
  <2> QED
    BY <2>1
<1>3. w \in Seq(Byte)
  BY <1>1, <1>2, SeqDef
<1>4. DOMAIN w = 1..Len(w) /\ DOMAIN w = 1..Len(v) /\ Len(w) \in Nat
  BY <1>2, <1>3, LenProperties
<1> QED
  BY <1>1, <1>3, <1>4

(* What is stored of a field that is not too long fits. *)
LEMMA StoreFits ==
    ASSUME Fits(tx), NEW name, NEW bytes \in ByteStrings,
           ~TooLong(name, Len(bytes)), NEW t \in Store(name, bytes)
    PROVE  Fits(t)
<1>1. CASE name = "type"
  <2>1. CASE Len(bytes) = 0
    BY <1>1, <2>1 DEF Store, StoreType
  <2>2. CASE Len(bytes) # 0
    <3>1. PICK type : type \in {bytes[1], OTHER_TYPE} /\ t = [tx EXCEPT !.txType = type]
      BY <1>1, <2>2 DEF Store, StoreType
    <3>2. type \in Nat
      BY <2>2, <3>1, ElementOfSeq, LenProperties, ByteIsNat DEF ByteStrings, OTHER_TYPE
    <3> QED
      BY <3>1, <3>2 DEF Fits, Transactions
  <2> QED
    BY <2>1, <2>2
<1>2. CASE name = "ratio"
  <2>1. t = StoreRatio(bytes)
    BY <1>2 DEF Store
  <2>2. PICK v : v = [i \in 1..Len(tx.value) |->
                        IF i < Len(bytes) THEN bytes[i + 1] ELSE tx.value[i]]
    OBVIOUS
  <2>3. v \in ByteStrings /\ Len(v) = Len(tx.value)
    BY <2>2, RatioOverValue DEF Fits, Transactions, ByteStrings
  <2>4. PICK r : r = IF bytes = <<>> THEN tx.ratio ELSE <<bytes[1]>>
    OBVIOUS
  <2>5. r \in ByteStrings
    <3>1. CASE bytes = <<>>
      BY <2>4, <3>1 DEF Fits, Transactions
    <3>2. CASE bytes # <<>>
      <4>1. bytes[1] \in Byte
        BY <3>2, EmptySeq, ElementOfSeq DEF ByteStrings
      <4>2. <<bytes[1]>> \in Seq(Byte)
        BY <4>1
      <4> QED
        BY <2>4, <3>2, <4>2 DEF ByteStrings
    <3> QED
      BY <3>1, <3>2
  <2>6. t = [tx EXCEPT !.ratio = r, !.value = v]
    BY <2>1, <2>2, <2>4 DEF StoreRatio, Fits, Transactions
  <2> QED
    BY <2>3, <2>5, <2>6 DEF Fits, Transactions
<1>3. CASE name \in {"nonce", "gasprice", "startgas", "to", "value", "chainID"}
  <2>1. /\ name # "to" => Len(bytes) <= MAX_INT256
        /\ name = "to" => Len(bytes) <= ADDRESS_LEN
    BY <1>3, LimitsAssumption, LenProperties DEF TooLong, Integers256, ByteStrings
  <2>2. t = [tx EXCEPT ![name] = bytes]
    BY <1>3, <2>1 DEF Store, StoreTo
  <2> QED
    BY <1>3, <2>1, <2>2 DEF Fits, Transactions
<1>4. CASE name \notin {"type", "ratio", "nonce", "gasprice", "startgas", "to", "value",
                        "chainID"}
  BY <1>4 DEF Store
<1> QED
  BY <1>1, <1>2, <1>3, <1>4

------------------------------------------------------------------------------
(* Steps. *)

LEMMA InitParserInv == Init => ParserInv
<1> SUFFICES ASSUME Init PROVE ParserInv
  OBVIOUS
<1>1. raw \in Seq(Byte) /\ Len(raw) \in Nat
  BY InputsAssumption, LenProperties DEF Init
<1>2. <<>> \in ByteStrings /\ Len(<<>>) = 0
  BY EmptySeq DEF ByteStrings
<1>3. Sound(ctx)
  BY <1>1, <1>2 DEF Init, FreshContext, Sound, Contexts, HeaderOpen
<1>4. Fits(tx)
  BY <1>2, LimitsAssumption DEF Init, NoTx, Fits, Transactions
<1> QED
  BY <1>1, <1>3, <1>4 DEF ParserInv

(* Sound and Fits say nothing of pc and status, and of raw only its length. *)
LEMMA UnchangedSound ==
    ASSUME raw' = raw
    PROVE  /\ Sound(ctx') => Sound(ctx)'
           /\ Fits(tx') => Fits(tx)'
BY DEF Sound, Fits

LEMMA OuterStep == ASSUME ParserInv, ReadOuterHeader PROVE ParserInv'
<1>1. Sound(ctx')
  BY ParseSound DEF ReadOuterHeader, ParserInv
<1> QED
  BY <1>1, UnchangedSound DEF ReadOuterHeader, ParserInv

LEMMA NestedStep == ASSUME ParserInv, ReadNestedHeader PROVE ParserInv'
<1>1. PICK d : d = ParseRLP(ctx).ctx
  OBVIOUS
<1>2. Sound(d)
  BY <1>1, ParseSound DEF ParserInv
<1>3. ctx' = [d EXCEPT !.outerRLP = FALSE]
  BY <1>1 DEF ReadNestedHeader
<1>4. Sound(ctx')
  BY <1>2, <1>3 DEF Sound, Contexts
<1>5. Fits(tx')
  <2>1. tx' = tx \/ tx' = [tx EXCEPT !.txType = LEGACY]
    BY DEF ReadNestedHeader
  <2> QED
    BY <2>1 DEF ParserInv, Fits, Transactions, LEGACY
<1> QED
  BY <1>4, <1>5, UnchangedSound DEF ReadNestedHeader, ParserInv

LEMMA TypeStep == ASSUME ParserInv, DetectType PROVE ParserInv'
<1>1. PICK d : d = ParseRLP(ctx).ctx
  OBVIOUS
<1>2. Sound(d)
  BY <1>1, ParseSound DEF ParserInv
<1>3. PICK e : e = GoBack(d, ctx.commandLength)
  OBVIOUS
<1>4. e \in Contexts /\ e.workBuffer + e.commandLength = Len(raw)
      /\ e.rlpBuffer = d.rlpBuffer
  <2>1. PICK p, q : p = d.workBuffer - (ctx.commandLength - d.commandLength)
                    /\ q = ctx.commandLength
    OBVIOUS
  <2>2. p \in Nat /\ q \in Nat /\ p + q = Len(raw)
    BY <1>2, <2>1 DEF ParserInv, Sound, Contexts
  <2>3. e = [d EXCEPT !.workBuffer = p, !.commandLength = q]
    BY <1>3, <2>1 DEF GoBack
  <2> QED
    BY <1>2, <2>2, <2>3 DEF Sound, Contexts
<1>5. ctx' = [e EXCEPT !.processingField = FALSE]
  BY <1>1, <1>3 DEF DetectType
<1>6. Sound(ctx')
  BY <1>2, <1>4, <1>5 DEF Sound, Contexts
<1>7. PICK byte \in Peeked(d) : tx' = [tx EXCEPT !.txType = byte]
  BY <1>1 DEF DetectType
<1>8. byte \in Nat
  <2>1. CASE d.workBuffer < Len(raw)
    <3>1. d.workBuffer + 1 \in 1..Len(raw)
      BY <1>2, <2>1, LenProperties DEF ParserInv, Sound, Contexts
    <3> QED
      BY <1>7, <2>1, <3>1, ElementOfSeq, ByteIsNat DEF ParserInv, Peeked
  <2>2. CASE ~(d.workBuffer < Len(raw))
    BY <1>7, <2>2, InputsAssumption, ByteIsNat DEF Peeked
  <2> QED
    BY <2>1, <2>2
<1>9. Fits(tx')
  BY <1>7, <1>8 DEF ParserInv, Fits, Transactions
<1> QED
  BY <1>6, <1>9, UnchangedSound DEF DetectType, ParserInv

LEMMA HeaderStep == ASSUME ParserInv, ReadHeader PROVE ParserInv'
<1>1. Sound(ctx')
  <2>1. ctx' = ctx \/ ctx' = ParseRLP(ctx).ctx
    BY DEF ReadHeader
  <2> QED
    BY <2>1, ParseSound DEF ParserInv
<1> QED
  BY <1>1, UnchangedSound DEF ReadHeader, ParserInv

LEMMA SkipBounds == Skip \in {0, 1}
BY DEF Skip, Skips

(* The field pointer moves. *)
LEMMA MovedSound ==
    ASSUME NEW c, Sound(c), NEW n \in Nat, NEW busy \in BOOLEAN,
           NEW d, d = [c EXCEPT !.currentField = n, !.processingField = busy]
    PROVE  Sound(d)
BY DEF Sound, Contexts

(* The bytes of a field that is stored: as many as its item has, which is not
   too long. *)
LEMMA WholeBytes ==
    ASSUME raw \in Seq(Byte), Sound(ctx), WholeField
    PROVE  \E bytes \in ByteStrings :
              /\ Len(bytes) = FieldSize /\ ~TooLong(Field, Len(bytes))
              /\ tx' \in Store(Field, bytes)
<1>1. PICK size \in Nat : size = FieldSize
  BY DEF FieldSize, Sound, Contexts
<1>2. size <= ctx.commandLength
  BY <1>1 DEF WholeField
<1>3. PICK bytes : bytes = SubSeq(raw, ctx.workBuffer + 1, ctx.workBuffer + size)
  OBVIOUS
<1>4. bytes \in ByteStrings /\ Len(bytes) = size
  <2>1. PICK m \in Nat : m = ctx.workBuffer /\ m + size <= Len(raw)
    BY <1>1, <1>2, LenProperties DEF Sound, Contexts
  <2>2. bytes = SubSeq(raw, m + 1, m + size)
    BY <1>3, <2>1
  <2>3. m + size <= Len(raw)
    BY <2>1
  <2>4. bytes \in Seq(Byte) /\ Len(bytes) = size
    BY <1>1, <2>1, <2>2, <2>3, BytesPart
  <2> QED BY <2>4 DEF ByteStrings
<1>5. ~TooLong(Field, size)
  <2>1. CASE Field = "content"
    BY <2>1 DEF TooLong, Integers256
  <2>2. CASE Field # "content"
    BY <1>1, <2>2 DEF WholeField, Faulty, FieldSize
  <2> QED BY <2>1, <2>2
<1>6. tx' \in Store(Field, bytes)
  BY <1>1, <1>3 DEF WholeField
<1> QED BY <1>1, <1>4, <1>5, <1>6

LEMMA FieldStep == ASSUME ParserInv, ProcessField PROVE ParserInv'
<1>1. CASE UnknownField
  BY <1>1, UnchangedSound DEF UnknownField, ProcessField, ParserInv
<1>2. CASE FaultyField
  <2>1. PICK n \in Nat : n = ctx.currentField + Skip
    BY SkipBounds DEF ParserInv, Sound, Contexts
  <2>2. ctx' = [ctx EXCEPT !.currentField = n]
    BY <1>2, <2>1 DEF FaultyField
  <2>3. Sound(ctx')
    BY <2>2 DEF ParserInv, Sound, Contexts
  <2> QED
    BY <1>2, <2>3, UnchangedSound DEF FaultyField, ProcessField, ParserInv
<1>3. CASE CutField
  <2>1. PICK d : d = Consume(ctx, ctx.commandLength)
    OBVIOUS
  <2>2. Sound(d) /\ d.currentField = ctx.currentField
    <3>1. PICK n \in Nat : n = ctx.commandLength /\ n <= ctx.commandLength
      BY DEF ParserInv, Sound, Contexts
    <3>2. d = Consume(ctx, n)
      BY <2>1, <3>1
    <3> QED
      BY <3>1, <3>2, ConsumedSound DEF ParserInv
  <2>3. PICK n \in Nat : n = ctx.currentField + Skip
    BY SkipBounds DEF ParserInv, Sound, Contexts
  <2>4. ctx' = [d EXCEPT !.currentField = n]
    BY <1>3, <2>1, <2>2, <2>3 DEF CutField
  <2>5. Sound(ctx')
    BY <2>2, <2>3, <2>4 DEF Sound, Contexts
  <2> QED
    BY <1>3, <2>5, UnchangedSound DEF CutField, ProcessField, ParserInv
<1>4. CASE WholeField
  <2>1. PICK size \in Nat : size = FieldSize
    BY DEF FieldSize, ParserInv, Sound, Contexts
  <2>2. size <= ctx.commandLength
    BY <1>4, <2>1 DEF WholeField
  <2>3. PICK d : d = Consume(ctx, size)
    OBVIOUS
  <2>4. Sound(d) /\ d.currentField = ctx.currentField
    BY <2>2, <2>3, ConsumedSound DEF ParserInv
  <2>5. PICK n \in Nat : n = ctx.currentField + 1 + Skip
    BY SkipBounds DEF ParserInv, Sound, Contexts
  <2>6. ctx' = [d EXCEPT !.currentField = n, !.processingField = FALSE]
    BY <1>4, <2>1, <2>3, <2>4, <2>5 DEF WholeField
  <2>7. Sound(ctx')
    BY <2>4, <2>5, <2>6, MovedSound
  <2>8. PICK bytes \in ByteStrings :
            ~TooLong(Field, Len(bytes)) /\ tx' \in Store(Field, bytes)
    BY <1>4, WholeBytes DEF ParserInv
  <2>9. Fits(tx')
    BY <2>8, StoreFits DEF ParserInv
  <2> QED
    BY <2>7, <2>9, UnchangedSound DEF ProcessField, ParserInv
<1> QED
  BY <1>1, <1>2, <1>3, <1>4 DEF ProcessField

LEMMA NextParserInv == ParserInv /\ [Next]_vars => ParserInv'
<1> SUFFICES ASSUME ParserInv, [Next]_vars PROVE ParserInv'
  OBVIOUS
<1>1. CASE Done
  BY <1>1, UnchangedSound DEF Done, ParserInv
<1>2. CASE EndOldStyle
  <2>1. PICK empty \in ByteStrings : empty = <<>> /\ Len(empty) = 0
    BY EmptySeq DEF ByteStrings
  <2>2. tx' = [tx EXCEPT !.chainID = empty]
    BY <1>2, <2>1 DEF EndOldStyle
  <2>3. Fits(tx')
    BY <2>1, <2>2, LimitsAssumption DEF ParserInv, Fits, Transactions
  <2> QED
    BY <1>2, <2>3, UnchangedSound DEF EndOldStyle, ParserInv
<1>3. CASE EndOfData
  BY <1>3, UnchangedSound DEF EndOfData, ParserInv
<1>4. CASE ReadOuterHeader
  BY <1>4, OuterStep
<1>5. CASE ReadNestedHeader
  BY <1>5, NestedStep
<1>6. CASE DetectType
  BY <1>6, TypeStep
<1>7. CASE ReadHeader
  BY <1>7, HeaderStep
<1>8. CASE ProcessField
  BY <1>8, FieldStep
<1>9. CASE UNCHANGED vars
  BY <1>9, UnchangedSound DEF vars, ParserInv
<1> QED
  BY <1>1, <1>2, <1>3, <1>4, <1>5, <1>6, <1>7, <1>8, <1>9 DEF Next

------------------------------------------------------------------------------
(* The theorems. *)

LEMMA Invariance == Spec => []ParserInv
<1> QED
  BY InitParserInv, NextParserInv, PTL DEF Spec

(* transaction_deserialize stays within the bytes it was given, whatever they
   are: workBuffer and commandLength always add up to them. *)
THEOREM StaysWithinInput == Spec => []WithinInput
<1>1. ParserInv => WithinInput
  <2> SUFFICES ASSUME ParserInv PROVE WithinInput
    OBVIOUS
  <2>1. Len(raw) \in Nat
    BY LenProperties DEF ParserInv
  <2> QED
    BY <2>1 DEF ParserInv, Sound, Contexts, WithinInput
<1> QED
  BY <1>1, Invariance, PTL
==============================================================================
