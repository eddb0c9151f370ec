---------------------------- MODULE EncodingProofs ----------------------------
(***************************************************************************)
(* The round trip: what a transaction was encoded to is decoded to the     *)
(* transaction, for every transaction the parser is meant for.             *)
(***************************************************************************)
EXTENDS DecodeProofs, Encoding

------------------------------------------------------------------------------
(* Byte strings that lie in others. *)

(* r lies in bytes at position p. *)
Carries(bytes, p, r) ==
    p + Len(r) <= Len(bytes) /\ \A k \in 1..Len(r) : bytes[p + k] = r[k]

LEMMA CarriesJoin ==
    ASSUME NEW bytes \in Seq(Byte), NEW p \in Nat, NEW a \in Seq(Byte),
           NEW b \in Seq(Byte), NEW c, c = a \o b, Carries(bytes, p, c)
    PROVE  /\ Carries(bytes, p, a) /\ Carries(bytes, p + Len(a), b)
           /\ p + Len(c) = (p + Len(a)) + Len(b)
<1>1. /\ Len(c) = Len(a) + Len(b) /\ Len(a) \in Nat /\ Len(b) \in Nat
      /\ Len(bytes) \in Nat
      /\ \A k \in 1..Len(a) + Len(b) : c[k] = IF k <= Len(a) THEN a[k] ELSE b[k - Len(a)]
  BY ConcatProperties, LenProperties
<1>2. p + Len(c) <= Len(bytes) /\ \A k \in 1..Len(c) : bytes[p + k] = c[k]
  BY DEF Carries
<1>3. Carries(bytes, p, a)
  BY <1>1, <1>2 DEF Carries
<1>4. ASSUME NEW k \in 1..Len(b) PROVE bytes[(p + Len(a)) + k] = b[k]
  <2>1. Len(a) + k \in 1..Len(c) /\ ~(Len(a) + k <= Len(a)) /\ (Len(a) + k) - Len(a) = k
        /\ p + (Len(a) + k) = (p + Len(a)) + k
    BY <1>1
  <2> QED BY <1>1, <1>2, <2>1
<1>5. Carries(bytes, p + Len(a), b)
  BY <1>1, <1>2, <1>4 DEF Carries
<1> QED BY <1>1, <1>3, <1>5

(* A part of the bytes is what lies there. *)
LEMMA CarriedPart ==
    ASSUME NEW bytes \in Seq(Byte), NEW p \in Nat, NEW r \in Seq(Byte),
           Carries(bytes, p, r), NEW n, n = Len(r)
    PROVE  SubSeq(bytes, p + 1, p + n) = r
<1>1. Len(r) \in Nat /\ Len(bytes) \in Nat /\ p + Len(r) <= Len(bytes)
  BY LenProperties DEF Carries
<1>2. PICK m \in Nat : m = n
  BY <1>1
<1>3. PICK part : part = SubSeq(bytes, p + 1, p + m)
  OBVIOUS
<1>4. part \in Seq(Byte) /\ Len(part) = m
  BY <1>1, <1>2, <1>3, BytesPart
<1>5. \A k \in 1..m : part[k] = bytes[p + k]
  BY <1>1, <1>2, <1>3, SubSeqProperties
<1>6. \A k \in 1..Len(part) : part[k] = r[k]
  BY <1>2, <1>4, <1>5 DEF Carries
<1>7. part = r
  BY <1>2, <1>4, <1>6, SeqEqual
<1> QED BY <1>2, <1>3, <1>7

LEMMA CarriesWhole ==
    ASSUME NEW bytes \in Seq(Byte), NEW e \in Seq(Byte)
    PROVE  IsPrefix(e, bytes) <=> Carries(bytes, 0, e)
<1>1. Len(e) \in Nat /\ Len(bytes) \in Nat
  BY LenProperties
<1>2. SubSeq(e, 1, Len(e)) = e
  BY SubSeqFull
<1>3. ASSUME IsPrefix(e, bytes) PROVE Carries(bytes, 0, e)
  <2>1. Len(e) <= Len(bytes) /\ e = SubSeq(bytes, 1, Len(e))
    BY <1>2, <1>3 DEF IsPrefix
  <2>2. \A k \in 1..Len(e) : e[k] = bytes[k]
    BY <1>1, <2>1
  <2> QED BY <1>1, <2>1, <2>2 DEF Carries
<1>4. ASSUME Carries(bytes, 0, e) PROVE IsPrefix(e, bytes)
  <2>1. Len(e) <= Len(bytes)
    BY <1>1, <1>4 DEF Carries
  <2>2. SubSeq(bytes, 0 + 1, 0 + Len(e)) = e
    BY <1>4, CarriedPart
  <2>3. SubSeq(bytes, 1, Len(e)) = e
    BY <1>1, <2>2
  <2> QED BY <1>2, <2>1, <2>3 DEF IsPrefix
<1> QED BY <1>3, <1>4

LEMMA CarriesItself ==
    ASSUME NEW bytes \in Seq(Byte)
    PROVE  Carries(bytes, 0, bytes)
<1>1. Len(bytes) \in Nat
  BY LenProperties
<1>2. \A k \in 1..Len(bytes) : bytes[0 + k] = bytes[k]
  <2>1. \A k \in 1..Len(bytes) : 0 + k = k
    BY <1>1
  <2> QED BY <2>1
<1> QED BY <1>1, <1>2 DEF Carries

------------------------------------------------------------------------------
(* Encoded items. *)

LEMMA HeaderBytes ==
    ASSUME NEW base \in {128, 192}, NEW n \in Nat, n <= MAX_ENCODED,
           NEW h, h = Header(base, n)
    PROVE  /\ h \in Seq(Byte) /\ Len(h) \in 1..3 /\ ~IsSingle(h[1])
           /\ IsListHeader(h[1]) <=> base = 192
           /\ HeaderLen(h[1]) = Len(h) /\ FieldLength(h) = n
<1>1. CASE n <= 55
  <2>1. PICK b \in Nat : b = base + n /\ b >= 128 /\ b <= 247 /\ ~(b \in 184..191)
    BY <1>1
  <2>2. h = <<b>>
    BY <1>1, <2>1 DEF Header
  <2>3. h \in Seq(Byte) /\ Len(h) = 1 /\ h[1] = b
    BY <2>1, <2>2 DEF Byte
  <2>4. LengthBytes(b) = 0 /\ ~IsSingle(b) /\ (IsListHeader(b) <=> base = 192)
    <3>1. base = 192 <=> b >= 192
      BY <1>1, <2>1
    <3> QED BY <2>1, <3>1 DEF LengthBytes, IsSingle, IsListHeader
  <2>5. ShortLength(b) = n
    BY <1>1, <2>1 DEF ShortLength, IsSingle, IsListHeader
  <2> QED BY <2>3, <2>4, <2>5 DEF HeaderLen, FieldLength
<1>2. CASE n > 55 /\ n <= 255
  <2>1. PICK b \in Nat : b = base + 56 /\ (b = 184 \/ b = 248)
    BY <1>2
  <2>2. h = <<b, n>>
    BY <1>2, <2>1 DEF Header
  <2>3. h \in Seq(Byte) /\ Len(h) = 2 /\ h[1] = b /\ h[2] = n
    BY <1>2, <2>1, <2>2 DEF Byte
  <2>4. LengthBytes(b) = 1 /\ ~IsSingle(b)
    BY <2>1 DEF LengthBytes, IsSingle
  <2>5. IsListHeader(b) <=> base = 192
    BY <2>1 DEF IsListHeader
  <2> QED BY <2>3, <2>4, <2>5 DEF HeaderLen, FieldLength, LongLength
<1>3. CASE n > 255
  <2>1. PICK b \in Nat : b = base + 57 /\ (b = 185 \/ b = 249)
    BY <1>3
  <2>2. PICK d \in Nat, r \in Nat : d = n \div 256 /\ r = n % 256 /\ d <= 255 /\ r <= 255
                                    /\ d * 256 + r = n
    BY <1>3 DEF MAX_ENCODED
  <2>3. h = <<b, d, r>>
    <3>1. d % 256 = d
      BY <2>2
    <3> QED BY <1>3, <2>1, <2>2, <3>1 DEF Header
  <2>4. h \in Seq(Byte) /\ Len(h) = 3 /\ h[1] = b /\ h[2] = d /\ h[3] = r
    BY <2>1, <2>2, <2>3 DEF Byte
  <2>5. LengthBytes(b) = 2 /\ ~IsSingle(b)
    BY <2>1 DEF LengthBytes, IsSingle
  <2>6. IsListHeader(b) <=> base = 192
    BY <2>1 DEF IsListHeader
  <2> QED BY <2>2, <2>4, <2>5, <2>6 DEF HeaderLen, FieldLength, LongLength
<1> QED BY <1>1, <1>2, <1>3

(* The header of an item that lies in the bytes. *)
LEMMA CarriedHeader ==
    ASSUME NEW bytes \in Seq(Byte), NEW p \in Nat, NEW base \in {128, 192},
           NEW n \in Nat, n <= MAX_ENCODED, NEW h, h = Header(base, n),
           Carries(bytes, p, h)
    PROVE  /\ HasHeader(bytes, p) /\ PayloadAt(bytes, p) = p + Len(h)
           /\ LengthAt(bytes, p) = n /\ (IsListAt(bytes, p) <=> base = 192)
           /\ ~IsSingle(ByteAt(bytes, p))
<1>1. /\ h \in Seq(Byte) /\ Len(h) \in 1..3 /\ ~IsSingle(h[1])
      /\ IsListHeader(h[1]) <=> base = 192
      /\ HeaderLen(h[1]) = Len(h) /\ FieldLength(h) = n
  BY HeaderBytes
<1>2. PICK m \in 1..3 : m = Len(h)
  BY <1>1
<1>3. p + m <= Len(bytes) /\ bytes[p + 1] = h[1] /\ Len(bytes) \in Nat
  <2>1. 1 \in 1..Len(h)
    BY <1>2
  <2> QED BY <1>2, <2>1, LenProperties DEF Carries
<1>4. ByteAt(bytes, p) = h[1]
  <2>1. PICK l \in Nat : l = Len(bytes) /\ p + m <= l
    BY <1>3
  <2>2. p < Len(bytes)
    BY <1>2, <2>1
  <2> QED BY <1>3, <2>2 DEF ByteAt
<1>5. HasHeader(bytes, p)
  BY <1>1, <1>2, <1>3, <1>4 DEF HasHeader, RLP_BUFFER
<1>6. HeaderAt(bytes, p) = h
  BY <1>1, <1>4, CarriedPart DEF HeaderAt
<1> QED BY <1>1, <1>4, <1>5, <1>6 DEF PayloadAt, LengthAt, IsListAt

(* A byte string that was encoded is decoded. *)
LEMMA CarriedString ==
    ASSUME NEW bytes \in Seq(Byte), NEW p \in Nat, NEW x \in Seq(Byte),
           Len(x) <= MAX_ENCODED, NEW r, r = RlpString(x), Carries(bytes, p, r)
    PROVE  /\ r \in Seq(Byte) /\ HasHeader(bytes, p) /\ ~IsListAt(bytes, p)
           /\ LengthAt(bytes, p) = Len(x) /\ PayloadOf(bytes, p) = x
           /\ PayloadAt(bytes, p) + Len(x) = p + Len(r)
           /\ p + Len(r) <= Len(bytes)
<1>1. Len(x) \in Nat /\ Len(bytes) \in Nat /\ p + Len(r) <= Len(bytes)
  BY LenProperties DEF Carries
<1>2. CASE Len(x) = 1 /\ x[1] <= 127
  <2>1. r = x
    BY <1>2 DEF RlpString
  <2>2. 1 \in 1..Len(x)
    BY <1>2
  <2>11. x[1] \in Byte
    BY <2>2, ElementOfSeq
  <2>3. bytes[p + 1] = x[1] /\ p < Len(bytes)
    <3>1. /\ p + 1 <= Len(bytes) /\ \A k \in 1..Len(x) : bytes[p + k] = x[k]
      BY <1>1, <1>2, <2>1 DEF Carries
    <3> QED BY <1>1, <2>2, <3>1
  <2>10. ByteAt(bytes, p) = x[1]
    BY <2>3 DEF ByteAt
  <2>4. IsSingle(ByteAt(bytes, p))
    BY <1>2, <2>10 DEF IsSingle
  <2>5. HasHeader(bytes, p)
    <3>1. HeaderLen(ByteAt(bytes, p)) = 1
      BY <2>10, <2>11, <2>4, SingleByte DEF HeaderLen
    <3>2. p + 1 <= Len(bytes)
      BY <1>1, <2>3
    <3> QED BY <3>1, <3>2 DEF HasHeader, RLP_BUFFER
  <2>6. LengthAt(bytes, p) = 1 /\ ~IsListAt(bytes, p) /\ PayloadAt(bytes, p) = p
    BY <2>4, <2>5, SingleItem DEF PayloadAt
  <2>7. PayloadOf(bytes, p) = x
    <3>1. Carries(bytes, p, x) /\ LengthAt(bytes, p) = Len(x)
      BY <1>2, <2>1, <2>6
    <3>2. SubSeq(bytes, p + 1, p + LengthAt(bytes, p)) = x
      BY <3>1, CarriedPart
    <3> QED BY <2>6, <3>2 DEF PayloadOf
  <2> QED BY <1>1, <1>2, <2>1, <2>5, <2>6, <2>7
<1>3. CASE ~(Len(x) = 1 /\ x[1] <= 127)
  <2>1. PICK n \in Nat : n = Len(x) /\ n <= MAX_ENCODED
    BY <1>1
  <2>2. PICK h : h = Header(128, n)
    OBVIOUS
  <2>3. r = h \o x
    BY <1>3, <2>1, <2>2 DEF RlpString
  <2>4. h \in Seq(Byte)
    BY <2>1, <2>2, HeaderBytes
  <2>10. Len(h) \in Nat
    BY <2>4, LenProperties
  <2>5. PICK at \in Nat : at = p + Len(h)
    BY <2>10
  <2>6. /\ Carries(bytes, p, h) /\ Carries(bytes, at, x)
        /\ p + Len(r) = at + Len(x)
    <3>1. /\ Carries(bytes, p, h) /\ Carries(bytes, p + Len(h), x)
          /\ p + Len(r) = (p + Len(h)) + Len(x)
      <4>1. bytes \in Seq(Byte) /\ x \in Seq(Byte)
        OBVIOUS
      <4>2. Carries(bytes, p, r)
        OBVIOUS
      <4>3. /\ Carries(bytes, p, h) /\ Carries(bytes, p + Len(h), x)
        BY <2>3, <2>4, <4>1, <4>2, CarriesJoin
      <4>4. p + Len(r) = (p + Len(h)) + Len(x)
        BY <2>3, <2>4, <4>1, <4>2, CarriesJoin
      <4> QED BY <4>3, <4>4
    <3> QED BY <2>5, <3>1
  <2>7. /\ HasHeader(bytes, p) /\ PayloadAt(bytes, p) = at
        /\ LengthAt(bytes, p) = n /\ ~IsListAt(bytes, p)
    <3>1. 128 \in {128, 192} /\ 128 # 192
      OBVIOUS
    <3> QED BY <2>1, <2>2, <2>5, <2>6, <3>1, CarriedHeader
  <2>8. PayloadOf(bytes, p) = x
    <3>1. SubSeq(bytes, at + 1, at + n) = x
      <4>1. bytes \in Seq(Byte) /\ x \in Seq(Byte) /\ Carries(bytes, at, x)
        BY <2>6
      <4>2. SubSeq(bytes, at + 1, at + Len(x)) = x
        BY <4>1, CarriedPart
      <4> QED BY <2>1, <4>2
    <3> QED BY <2>7, <3>1 DEF PayloadOf
  <2>9. r \in Seq(Byte)
    BY <2>3, <2>4, ConcatProperties
  <2> QED BY <1>1, <2>1, <2>6, <2>7, <2>8, <2>9
<1> QED BY <1>2, <1>3

(* The bytes of a header, of strings or of lists. *)
Headed(h, base) == h \in Seq(Byte) /\ Len(h) \in 1..3 /\ h[1] >= base

LEMMA AnyHeader ==
    ASSUME NEW base \in {128, 192}, NEW n \in Nat, NEW h, h = Header(base, n)
    PROVE  Headed(h, base)
<1>1. CASE n <= 55
  <2>1. PICK b \in Byte : b = base + n
    BY <1>1 DEF Byte
  <2>2. h = <<b>>
    BY <1>1, <2>1 DEF Header
  <2> QED BY <2>1, <2>2 DEF Headed
<1>2. CASE n > 55 /\ n <= 255
  <2>1. PICK b \in Byte : b = base + 56
    BY DEF Byte
  <2>3. PICK d \in Byte : d = n
    BY <1>2 DEF Byte
  <2>2. h = <<b, d>>
    BY <1>2, <2>1, <2>3 DEF Header
  <2> QED BY <2>1, <2>2 DEF Headed
<1>3. CASE n > 255
  <2>1. PICK b \in Byte : b = base + 57
    BY DEF Byte
  <2>2. PICK q \in Nat : q = n \div 256
    OBVIOUS
  <2>3. PICK d \in Byte : d = q % 256
    BY DEF Byte
  <2>4. PICK r \in Byte : r = n % 256
    BY DEF Byte
  <2>5. h = <<b, d, r>>
    BY <1>3, <2>1, <2>2, <2>3, <2>4 DEF Header
  <2> QED BY <2>1, <2>5 DEF Headed
<1> QED BY <1>1, <1>2, <1>3

LEMMA StringBytes ==
    ASSUME NEW x \in Seq(Byte), NEW r, r = RlpString(x)
    PROVE  r \in Seq(Byte) /\ Len(x) <= Len(r)
<1>1. PICK n \in Nat : n = Len(x)
  BY LenProperties
<1>2. PICK h : h = Header(128, n)
  OBVIOUS
<1>3. h \in Seq(Byte)
  BY <1>2, AnyHeader DEF Headed
<1>4. r = x \/ r = h \o x
  BY <1>1, <1>2 DEF RlpString
<1>5. CASE r = x
  BY <1>5, LenProperties
<1>6. CASE r = h \o x
  <2>1. r \in Seq(Byte) /\ Len(r) = Len(h) + Len(x)
    BY <1>3, <1>6, ConcatProperties
  <2> QED BY <1>3, <2>1, LenProperties
<1> QED BY <1>4, <1>5, <1>6

------------------------------------------------------------------------------
(* Items that follow each other. *)

(* The first items as one byte string, for every number of them. *)
Heaped(f, items) ==
    /\ f \in [0..Len(items) -> Seq(Byte)] /\ f[0] = <<>>
    /\ \A i \in 1..Len(items) : f[i] = f[i - 1] \o items[i]
    /\ f[Len(items)] = FlattenSeq(items)

LEMMA Flattened ==
    ASSUME NEW items \in Seq(Seq(Byte)), Len(items) # 0
    PROVE  \E f : Heaped(f, items)
<1> DEFINE m == Len(items)
           Is(f) == f = [i \in 1..m |-> IF i = 1 THEN items[i] ELSE f[i - 1] \o items[i]]
           step == [i \in 1..m |-> [s \in Seq(Byte) |-> s \o items[i]]]
<1>1. m \in Nat /\ m # 0
  BY LenProperties
<1>2. \A i \in 1..m : items[i] \in Seq(Byte)
  BY ElementOfSeq
<1>3. step \in [1..m -> [Seq(Byte) -> Seq(Byte)]]
  BY <1>2, ConcatProperties
<1>4. <<>> \in Seq(Byte)
  OBVIOUS
<1>5. PICK g : Stepwise(g, m, Seq(Byte), <<>>, step)
  <2> HIDE DEF step, m
  <2> QED BY <1>1, <1>3, <1>4, StepwiseExists
<1>6. /\ g \in [0..m -> Seq(Byte)] /\ g[0] = <<>>
      /\ \A i \in 1..m : g[i] = g[i - 1] \o items[i]
  <2>1. /\ g \in [0..m -> Seq(Byte)] /\ g[0] = <<>>
        /\ \A i \in 1..m : g[i] = step[i][g[i - 1]]
    BY <1>5 DEF Stepwise
  <2>2. ASSUME NEW i \in 1..m PROVE g[i] = g[i - 1] \o items[i]
    <3>1. i - 1 \in 0..m
      BY <1>1
    <3>2. g[i - 1] \in Seq(Byte)
      BY <2>1, <3>1
    <3> QED BY <2>1, <3>2
  <2> QED BY <2>1, <2>2
<1> HIDE DEF step
<1> DEFINE h == [i \in 1..m |-> g[i]]
<1>7. Is(h)
  <2>1. ASSUME NEW i \in 1..m
        PROVE  h[i] = IF i = 1 THEN items[i] ELSE h[i - 1] \o items[i]
    <3>1. CASE i = 1
      <4>1. i - 1 = 0 /\ h[i] = g[i]
        BY <3>1
      <4>2. g[i] = g[i - 1] \o items[i] /\ items[i] \in Seq(Byte)
        BY <1>2, <1>6
      <4>3. g[i] = <<>> \o items[i]
        BY <1>6, <4>1, <4>2
      <4>4. g[i] = items[i]
        BY <4>2, <4>3, ConcatEmptySeq
      <4> QED BY <3>1, <4>1, <4>4
    <3>2. CASE i # 1
      <4>1. i - 1 \in 1..m
        BY <1>1, <3>2
      <4> QED BY <1>6, <3>2, <4>1
    <3> QED BY <3>1, <3>2
  <2> HIDE DEF m
  <2>2. h = [i \in 1..m |-> h[i]]
    OBVIOUS
  <2> HIDE DEF h
  <2> QED BY <2>1, <2>2
<1>8. PICK f : f = CHOOSE u : Is(u)
  OBVIOUS
<1>9. Is(f)
  <2> HIDE DEF Is, h
  <2> QED BY <1>7, <1>8
<1>10. FlattenSeq(items) = f[m]
  BY <1>1, <1>8 DEF FlattenSeq
<1>11. \A n \in 0 .. m - 1 : f[n + 1] = g[n + 1]
  <2> DEFINE S == {n \in Nat : f[n + 1] = g[n + 1]}
  <2>1. 0 \in S
    <3>1. 1 \in 1..m
      BY <1>1
    <3>2. f[1] = items[1] /\ h[1] = items[1] /\ h[1] = g[1]
      <4> HIDE DEF m
      <4> QED BY <1>7, <1>9, <3>1
    <3> QED BY <3>2
  <2>2. ASSUME NEW n \in 0 .. (m - 1) - 1, n \in S PROVE n + 1 \in S
    <3>1. /\ (n + 1) + 1 \in 1..m /\ (n + 1) + 1 # 1 /\ ((n + 1) + 1) - 1 = n + 1
          /\ n + 1 \in Nat
      BY <1>1
    <3>2. f[(n + 1) + 1] = f[n + 1] \o items[(n + 1) + 1]
      <4> HIDE DEF m
      <4> QED BY <1>9, <3>1
    <3>3. g[(n + 1) + 1] = g[n + 1] \o items[(n + 1) + 1]
      BY <1>6, <3>1
    <3> QED BY <2>2, <3>1, <3>2, <3>3
  <2>3. m - 1 \in Nat
    BY <1>1
  <2>4. \A n \in 0 .. m - 1 : n \in S
    <3> HIDE DEF S, m
    <3> QED BY <2>1, <2>2, <2>3, BoundedInduction
  <2> QED BY <2>4
<1>12. f[m] = g[m]
  <2>1. m - 1 \in 0 .. m - 1 /\ (m - 1) + 1 = m
    BY <1>1
  <2> QED BY <1>11, <2>1
<1>13. Heaped(g, items)
  BY <1>6, <1>10, <1>12 DEF Heaped
<1> QED BY <1>13

(* The items of a list lie one behind the other. *)
Laid(bytes, at, items) ==
    /\ at \in [1 .. Len(items) + 1 -> Nat]
    /\ \A k \in 1..Len(items) :
          Carries(bytes, at[k], items[k]) /\ at[k + 1] = at[k] + Len(items[k])

Spans(bytes, items, p, q) ==
    \E at : Laid(bytes, at, items) /\ at[1] = p /\ at[Len(items) + 1] = q

LEMMA CarriesItems ==
    ASSUME NEW bytes \in Seq(Byte), NEW p \in Nat,
           NEW items \in Seq(Seq(Byte)), Len(items) # 0,
           NEW e, e = FlattenSeq(items)
    PROVE  /\ e \in Seq(Byte)
           /\ Carries(bytes, p, e) => Spans(bytes, items, p, p + Len(e))
<1> DEFINE m == Len(items)
<1>1. m \in Nat /\ m # 0
  BY LenProperties
<1>2. \A i \in 1..m : items[i] \in Seq(Byte)
  BY ElementOfSeq
<1>3. PICK f : Heaped(f, items)
  BY Flattened
<1>4. /\ f \in [0..m -> Seq(Byte)] /\ f[0] = <<>> /\ f[m] = e
      /\ \A i \in 1..m : f[i] = f[i - 1] \o items[i]
  BY <1>3 DEF Heaped
<1>5. e \in Seq(Byte)
  <2>1. m \in 0..m
    BY <1>1
  <2> HIDE DEF m
  <2> QED BY <1>4, <2>1
<1>6. ASSUME Carries(bytes, p, e)
      PROVE  \E at : /\ Laid(bytes, at, items) /\ at[1] = p
                     /\ at[m + 1] = p + Len(e)
  <2> DEFINE S == {n \in Nat : Carries(bytes, p, f[m - n])}
  <2>1. ASSUME NEW i \in 1..m, Carries(bytes, p, f[i])
        PROVE  /\ Carries(bytes, p, f[i - 1])
               /\ Carries(bytes, p + Len(f[i - 1]), items[i])
               /\ p + Len(f[i]) = (p + Len(f[i - 1])) + Len(items[i])
    <3>1. i - 1 \in 0..m
      BY <1>1
    <3>2. f[i - 1] \in Seq(Byte) /\ items[i] \in Seq(Byte)
      <4> HIDE DEF m
      <4> QED BY <1>2, <1>4, <3>1
    <3>3. f[i] = f[i - 1] \o items[i]
      BY <1>4
    <3>4. PICK a \in Seq(Byte) : a = f[i - 1]
      BY <3>2
    <3>5. PICK b \in Seq(Byte) : b = items[i]
      BY <3>2
    <3>6. PICK c : c = f[i]
      OBVIOUS
    <3>7. Carries(bytes, p, c) /\ c = a \o b
      BY <2>1, <3>3, <3>4, <3>5, <3>6
    <3> HIDE DEF m, S
    <3>8. Carries(bytes, p, a) /\ Carries(bytes, p + Len(a), b)
      BY <3>7, CarriesJoin
    <3>9. p + Len(c) = (p + Len(a)) + Len(b)
      BY <3>7, CarriesJoin
    <3> QED BY <3>4, <3>5, <3>6, <3>8, <3>9
  <2>2. 0 \in S
    <3>1. m - 0 = m
      BY <1>1
    <3> QED BY <1>4, <1>6, <3>1
  <2>3. ASSUME NEW n \in 0 .. m - 1, n \in S PROVE n + 1 \in S
    <3>1. m - n \in 1..m /\ (m - n) - 1 = m - (n + 1) /\ n + 1 \in Nat
      BY <1>1
    <3>2. Carries(bytes, p, f[m - n])
      BY <2>3
    <3>3. Carries(bytes, p, f[(m - n) - 1])
      <4> HIDE DEF S, m
      <4> QED BY <2>1, <3>1, <3>2
    <3> QED BY <3>1, <3>3
  <2>4. \A n \in 0..m : n \in S
    <3> HIDE DEF S, m
    <3> QED BY <1>1, <2>2, <2>3, BoundedInduction
  <2>5. ASSUME NEW i \in 1..m PROVE Carries(bytes, p, f[i])
    <3>1. m - i \in 0..m /\ m - (m - i) = i
      BY <1>1
    <3>2. Carries(bytes, p, f[m - (m - i)])
      BY <2>4, <3>1
    <3> QED BY <3>1, <3>2
  <2> DEFINE at == [k \in 1 .. m + 1 |-> p + Len(f[k - 1])]
  <2>6. at \in [1 .. m + 1 -> Nat]
    <3>1. ASSUME NEW k \in 1 .. m + 1 PROVE p + Len(f[k - 1]) \in Nat
      <4>1. k - 1 \in 0..m
        BY <1>1
      <4>2. f[k - 1] \in Seq(Byte)
        <5> HIDE DEF m
        <5> QED BY <1>4, <4>1
      <4>3. Len(f[k - 1]) \in Nat
        BY <4>2, LenProperties
      <4> QED BY <4>3
    <3> QED BY <3>1
  <2>7. ASSUME NEW k \in 1..m
        PROVE  Carries(bytes, at[k], items[k]) /\ at[k + 1] = at[k] + Len(items[k])
    <3>1. k \in 1 .. m + 1 /\ k + 1 \in 1 .. m + 1 /\ (k + 1) - 1 = k
      BY <1>1
    <3>2. at[k] = p + Len(f[k - 1]) /\ at[k + 1] = p + Len(f[k])
      <4> HIDE DEF m
      <4> QED BY <3>1
    <3> HIDE DEF at
    <3> QED BY <2>1, <2>5, <3>2
  <2>8. at[1] = p
    <3>1. 1 \in 1 .. m + 1 /\ 1 - 1 = 0
      BY <1>1
    <3>2. at[1] = p + Len(f[0])
      <4> HIDE DEF m
      <4> QED BY <3>1
    <3>3. Len(f[0]) = 0
      BY <1>4, EmptySeq
    <3> HIDE DEF at
    <3> QED BY <3>2, <3>3
  <2>9. at[m + 1] = p + Len(e)
    <3>1. m + 1 \in 1 .. m + 1 /\ (m + 1) - 1 = m
      BY <1>1
    <3> HIDE DEF m
    <3> QED BY <1>4, <3>1
  <2>10. Laid(bytes, at, items)
    <3> HIDE DEF at
    <3> QED BY <2>6, <2>7 DEF Laid
  <2> HIDE DEF at
  <2> QED BY <2>8, <2>9, <2>10
<1>7. Carries(bytes, p, e) => Spans(bytes, items, p, p + Len(e))
  BY <1>6 DEF Spans
<1> QED BY <1>5, <1>7

LEMMA ItemsWithin ==
    ASSUME NEW items \in Seq(Seq(Byte)), Len(items) # 0,
           NEW e, e = FlattenSeq(items)
    PROVE  \A k \in 1..Len(items) : Len(items[k]) <= Len(e)
<1>1. e \in Seq(Byte)
  BY CarriesItems
<1>2. Carries(e, 0, e)
  BY <1>1, LenProperties DEF Carries
<1>3. Spans(e, items, 0, 0 + Len(e))
  BY <1>1, <1>2, CarriesItems
<1>4. PICK at : Laid(e, at, items)
  BY <1>3 DEF Spans
<1>5. ASSUME NEW k \in 1..Len(items) PROVE Len(items[k]) <= Len(e)
  <2>1. items[k] \in Seq(Byte)
    BY ElementOfSeq
  <2>2. k \in 1 .. Len(items) + 1
    BY LenProperties
  <2>3. at[k] \in Nat /\ Carries(e, at[k], items[k])
    BY <1>4, <2>2 DEF Laid
  <2>4. at[k] + Len(items[k]) <= Len(e)
    BY <2>3 DEF Carries
  <2> QED BY <1>1, <2>1, <2>3, <2>4, LenProperties
<1> QED BY <1>5

(* The items of a list that was encoded. *)
LEMMA CarriesList ==
    ASSUME NEW bytes \in Seq(Byte), NEW p \in Nat,
           NEW items \in Seq(Seq(Byte)), Len(items) # 0,
           NEW r, r = RlpList(items), Len(r) <= MAX_ENCODED
    PROVE  /\ r \in Seq(Byte) /\ Len(r) # 0 /\ r[1] > 127
           /\ \A k \in 1..Len(items) : Len(items[k]) <= MAX_ENCODED
           /\ Carries(bytes, p, r) =>
                 /\ HasHeader(bytes, p) /\ IsListAt(bytes, p)
                 /\ ~IsSingle(ByteAt(bytes, p))
                 /\ Spans(bytes, items, PayloadAt(bytes, p), p + Len(r))
<1>1. PICK body : body = FlattenSeq(items)
  OBVIOUS
<1>2. body \in Seq(Byte)
  BY <1>1, CarriesItems
<1>3. PICK n \in Nat : n = Len(body)
  BY <1>2, LenProperties
<1>4. PICK h : h = Header(192, n)
  OBVIOUS
<1>5. h \in Seq(Byte) /\ Len(h) \in 1..3 /\ h[1] >= 192
  <2>1. PICK b \in {128, 192} : b = 192
    OBVIOUS
  <2>2. h \in Seq(Byte) /\ Len(h) \in 1..3 /\ h[1] >= b
    <3>1. h = Header(b, n)
      BY <1>4, <2>1
    <3>2. Headed(h, b)
      BY <1>3, <2>1, <3>1, AnyHeader
    <3> QED BY <3>2 DEF Headed
  <2> QED BY <2>1, <2>2
<1>6. PICK m \in 1..3 : m = Len(h)
  BY <1>5
<1>7. r = h \o body
  BY <1>1, <1>3, <1>4 DEF RlpList
<1>8. r \in Seq(Byte) /\ Len(r) = m + n
  <2>1. r \in Seq(Byte) /\ Len(r) = Len(h) + Len(body)
    BY <1>2, <1>5, <1>7, ConcatProperties
  <2> QED BY <1>3, <1>6, <2>1
<1>9. r[1] = h[1] /\ h[1] \in Nat
  <2>1. Len(h) # 0 /\ 1 \in 1..Len(h)
    BY <1>6
  <2>2. r[1] = h[1]
    BY <1>2, <1>5, <1>7, <2>1, Joined
  <2>3. h[1] \in Byte
    BY <1>5, <2>1, ElementOfSeq
  <2>4. h[1] \in Nat
    BY <2>3, ByteIsNat
  <2> QED BY <2>2, <2>4
<1>10. n <= MAX_ENCODED
  BY <1>8 DEF MAX_ENCODED
<1>11. ASSUME NEW k \in 1..Len(items) PROVE Len(items[k]) <= MAX_ENCODED
  <2>1. Len(items[k]) <= n
    BY <1>1, <1>3, ItemsWithin
  <2>2. items[k] \in Seq(Byte)
    BY ElementOfSeq
  <2>3. PICK l \in Nat : l = Len(items[k])
    BY <2>2, LenProperties
  <2> QED BY <1>10, <2>1, <2>3 DEF MAX_ENCODED
<1>12. ASSUME Carries(bytes, p, r)
       PROVE  /\ HasHeader(bytes, p) /\ IsListAt(bytes, p)
              /\ ~IsSingle(ByteAt(bytes, p))
              /\ Spans(bytes, items, PayloadAt(bytes, p), p + Len(r))
  <2>1. Carries(bytes, p, h) /\ Carries(bytes, p + Len(h), body)
    BY <1>2, <1>5, <1>7, <1>12, CarriesJoin
  <2>2. /\ HasHeader(bytes, p) /\ PayloadAt(bytes, p) = p + Len(h)
        /\ IsListAt(bytes, p) /\ ~IsSingle(ByteAt(bytes, p))
    BY <1>4, <1>10, <2>1, CarriedHeader
  <2>3. PICK q \in Nat : q = p + m
    OBVIOUS
  <2>4. Carries(bytes, q, body)
    BY <1>6, <2>1, <2>3
  <2>5. Spans(bytes, items, q, q + Len(body))
    BY <1>1, <2>3, <2>4, CarriesItems
  <2>6. q + Len(body) = p + Len(r) /\ q = PayloadAt(bytes, p)
    BY <1>3, <1>6, <1>8, <2>2, <2>3
  <2> QED BY <2>2, <2>5, <2>6
<1>13. Len(r) # 0 /\ r[1] > 127
  BY <1>5, <1>8, <1>9
<1> QED BY <1>8, <1>11, <1>12, <1>13

LEMMA SpansJoin ==
    ASSUME NEW bytes, NEW a \in Seq(Seq(Byte)), NEW b \in Seq(Seq(Byte)),
           NEW c, c = a \o b, NEW p, NEW q, NEW r,
           Spans(bytes, a, p, q), Spans(bytes, b, q, r)
    PROVE  Spans(bytes, c, p, r)
<1>1. PICK m \in Nat : m = Len(a)
  BY LenProperties
<1>2. PICK n \in Nat : n = Len(b)
  BY LenProperties
<1>3. /\ Len(c) = m + n
      /\ \A k \in 1 .. m + n : c[k] = IF k <= m THEN a[k] ELSE b[k - m]
  BY <1>1, <1>2, ConcatProperties
<1>4. PICK f : /\ f \in [1 .. m + 1 -> Nat] /\ f[1] = p /\ f[m + 1] = q
              /\ \A k \in 1..m : Carries(bytes, f[k], a[k]) /\ f[k + 1] = f[k] + Len(a[k])
  BY <1>1 DEF Spans, Laid
<1>5. PICK g : /\ g \in [1 .. n + 1 -> Nat] /\ g[1] = q /\ g[n + 1] = r
              /\ \A k \in 1..n : Carries(bytes, g[k], b[k]) /\ g[k + 1] = g[k] + Len(b[k])
  BY <1>2 DEF Spans, Laid
<1> DEFINE at == [k \in 1 .. (m + n) + 1 |-> IF k <= m THEN f[k] ELSE g[k - m]]
<1>6. at \in [1 .. (m + n) + 1 -> Nat]
  <2>1. ASSUME NEW k \in 1 .. (m + n) + 1 PROVE at[k] \in Nat
    <3>1. CASE k <= m
      <4>1. k \in 1 .. m + 1 /\ at[k] = f[k]
        BY <3>1
      <4> HIDE DEF at
      <4> QED BY <1>4, <4>1
    <3>2. CASE ~(k <= m)
      <4>1. k - m \in 1 .. n + 1 /\ at[k] = g[k - m]
        BY <3>2
      <4> HIDE DEF at
      <4> QED BY <1>5, <4>1
    <3> QED BY <3>1, <3>2
  <2> QED BY <2>1
<1>7. \A k \in 1 .. m + 1 : at[k] = f[k]
  <2>1. ASSUME NEW k \in 1 .. m + 1 PROVE at[k] = f[k]
    <3>1. CASE k <= m
      BY <3>1
    <3>2. CASE ~(k <= m)
      <4>1. k = m + 1 /\ k - m = 1 /\ k \in 1 .. (m + n) + 1
        BY <3>2
      <4> QED BY <1>4, <1>5, <3>2, <4>1
    <3> QED BY <3>1, <3>2
  <2> QED BY <2>1
<1>8. \A k \in 1 .. n + 1 : at[m + k] = g[k]
  <2>1. ASSUME NEW k \in 1 .. n + 1 PROVE at[m + k] = g[k]
    <3>1. m + k \in 1 .. (m + n) + 1 /\ ~(m + k <= m) /\ (m + k) - m = k
      OBVIOUS
    <3> QED BY <3>1
  <2> QED BY <2>1
<1> HIDE DEF at
<1>9. ASSUME NEW k \in 1 .. m + n
      PROVE  Carries(bytes, at[k], c[k]) /\ at[k + 1] = at[k] + Len(c[k])
  <2>1. CASE k <= m
    <3>1. k \in 1..m /\ k \in 1 .. m + 1 /\ k + 1 \in 1 .. m + 1
      BY <2>1
    <3>2. c[k] = a[k] /\ at[k] = f[k] /\ at[k + 1] = f[k + 1]
      BY <1>3, <1>7, <2>1, <3>1
    <3> QED BY <1>4, <3>1, <3>2
  <2>2. CASE ~(k <= m)
    <3>1. PICK j \in 1..n : j = k - m
      BY <2>2
    <3>2. j \in 1 .. n + 1 /\ j + 1 \in 1 .. n + 1 /\ m + j = k /\ m + (j + 1) = k + 1
      BY <3>1
    <3>3. at[k] = g[j] /\ at[k + 1] = g[j + 1]
      BY <1>8, <3>2
    <3>4. c[k] = b[j]
      BY <1>3, <2>2, <3>1
    <3> QED BY <1>5, <3>1, <3>3, <3>4
  <2> QED BY <2>1, <2>2
<1>10. Laid(bytes, at, c)
  BY <1>3, <1>6, <1>9 DEF Laid
<1>11. at[1] = p
  <2>1. 1 \in 1 .. m + 1
    OBVIOUS
  <2> QED BY <1>4, <1>7, <2>1
<1>12. at[Len(c) + 1] = r
  <2>1. n + 1 \in 1 .. n + 1 /\ m + (n + 1) = Len(c) + 1
    BY <1>3
  <2> QED BY <1>5, <1>8, <2>1
<1> QED BY <1>10, <1>11, <1>12 DEF Spans

(* The first item, and the others. *)
LEMMA SpansSplit ==
    ASSUME NEW bytes, NEW x \in Seq(Byte), NEW b \in Seq(Seq(Byte)),
           NEW c, c = <<x>> \o b, NEW p, NEW r, Spans(bytes, c, p, r)
    PROVE  /\ Carries(bytes, p, x)
           /\ Spans(bytes, b, p + Len(x), r)
<1>1. PICK n \in Nat : n = Len(b)
  BY LenProperties
<1>2. PICK one : one = <<x>>
  OBVIOUS
<1>3. one \in Seq(Seq(Byte)) /\ Len(one) = 1 /\ one[1] = x
  BY <1>2
<1>4. /\ Len(c) = 1 + n
      /\ \A k \in 1 .. 1 + n : c[k] = IF k <= 1 THEN one[k] ELSE b[k - 1]
  BY <1>1, <1>2, <1>3, ConcatProperties
<1>5. c[1] = x /\ \A k \in 1..n : c[k + 1] = b[k]
  <2>1. c[1] = x
    <3>1. 1 \in 1 .. 1 + n
      OBVIOUS
    <3> QED BY <1>3, <1>4, <3>1
  <2>2. ASSUME NEW k \in 1..n PROVE c[k + 1] = b[k]
    <3>1. k + 1 \in 1 .. 1 + n /\ ~(k + 1 <= 1) /\ (k + 1) - 1 = k
      OBVIOUS
    <3> QED BY <1>4, <3>1
  <2> QED BY <2>1, <2>2
<1>6. PICK f : /\ f \in [1 .. (1 + n) + 1 -> Nat] /\ f[1] = p /\ f[(1 + n) + 1] = r
              /\ \A k \in 1 .. 1 + n :
                    Carries(bytes, f[k], c[k]) /\ f[k + 1] = f[k] + Len(c[k])
  BY <1>4 DEF Spans, Laid
<1>7. Carries(bytes, p, x) /\ f[2] = p + Len(x)
  <2>1. 1 \in 1 .. 1 + n /\ 1 + 1 = 2
    OBVIOUS
  <2> QED BY <1>5, <1>6, <2>1
<1> DEFINE at == [k \in 1 .. n + 1 |-> f[k + 1]]
<1>8. at \in [1 .. n + 1 -> Nat]
  <2>1. ASSUME NEW k \in 1 .. n + 1 PROVE f[k + 1] \in Nat
    <3>1. k + 1 \in 1 .. (1 + n) + 1
      OBVIOUS
    <3> QED BY <1>6, <3>1
  <2> QED BY <2>1
<1>9. ASSUME NEW k \in 1..n
      PROVE  Carries(bytes, at[k], b[k]) /\ at[k + 1] = at[k] + Len(b[k])
  <2>1. k \in 1 .. n + 1 /\ k + 1 \in 1 .. n + 1 /\ k + 1 \in 1 .. 1 + n
    OBVIOUS
  <2>2. at[k] = f[k + 1] /\ at[k + 1] = f[(k + 1) + 1] /\ c[k + 1] = b[k]
    BY <1>5, <2>1
  <2> HIDE DEF at
  <2> QED BY <1>6, <2>1, <2>2
<1>10. at[1] = f[2] /\ at[n + 1] = r
  <2>1. 1 \in 1 .. n + 1 /\ 1 + 1 = 2 /\ n + 1 \in 1 .. n + 1 /\ (n + 1) + 1 = (1 + n) + 1
    OBVIOUS
  <2> QED BY <1>6, <2>1
<1> HIDE DEF at
<1>11. Laid(bytes, at, b)
  BY <1>1, <1>8, <1>9 DEF Laid
<1>12. Spans(bytes, b, p + Len(x), r)
  BY <1>1, <1>7, <1>10, <1>11 DEF Spans
<1> QED BY <1>7, <1>12

(* The first items, and the others. *)
LEMMA SpansDivide ==
    ASSUME NEW bytes, NEW a \in Seq(Seq(Byte)), NEW b \in Seq(Seq(Byte)),
           NEW c, c = a \o b, NEW p, NEW r, Spans(bytes, c, p, r)
    PROVE  \E q \in Nat : Spans(bytes, a, p, q) /\ Spans(bytes, b, q, r)
<1>1. PICK m \in Nat : m = Len(a)
  BY LenProperties
<1>2. PICK n \in Nat : n = Len(b)
  BY LenProperties
<1>3. /\ Len(c) = m + n
      /\ \A k \in 1 .. m + n : c[k] = IF k <= m THEN a[k] ELSE b[k - m]
  BY <1>1, <1>2, ConcatProperties
<1>4. PICK f : /\ f \in [1 .. (m + n) + 1 -> Nat] /\ f[1] = p /\ f[(m + n) + 1] = r
              /\ \A k \in 1 .. m + n :
                    Carries(bytes, f[k], c[k]) /\ f[k + 1] = f[k] + Len(c[k])
  BY <1>3 DEF Spans, Laid
<1>5. PICK q : q = f[m + 1]
  OBVIOUS
<1>6. q \in Nat
  <2>1. m + 1 \in 1 .. (m + n) + 1
    OBVIOUS
  <2> QED BY <1>4, <1>5, <2>1
<1>7. Spans(bytes, a, p, q)
  <2> DEFINE at == [k \in 1 .. m + 1 |-> f[k]]
  <2>1. at \in [1 .. m + 1 -> Nat]
    <3>1. \A k \in 1 .. m + 1 : k \in 1 .. (m + n) + 1
      OBVIOUS
    <3> QED BY <1>4, <3>1
  <2>2. ASSUME NEW k \in 1..m
        PROVE  Carries(bytes, at[k], a[k]) /\ at[k + 1] = at[k] + Len(a[k])
    <3>1. k \in 1 .. m + 1 /\ k + 1 \in 1 .. m + 1 /\ k \in 1 .. m + n /\ k <= m
      OBVIOUS
    <3>2. c[k] = a[k] /\ at[k] = f[k] /\ at[k + 1] = f[k + 1]
      BY <1>3, <3>1
    <3> HIDE DEF at
    <3> QED BY <1>4, <3>1, <3>2
  <2>3. at[1] = p /\ at[m + 1] = q
    <3>1. 1 \in 1 .. m + 1 /\ m + 1 \in 1 .. m + 1
      OBVIOUS
    <3> QED BY <1>4, <1>5, <3>1
  <2> HIDE DEF at
  <2>4. Laid(bytes, at, a)
    BY <1>1, <2>1, <2>2 DEF Laid
  <2> QED BY <1>1, <2>3, <2>4 DEF Spans
<1>8. Spans(bytes, b, q, r)
  <2> DEFINE at == [k \in 1 .. n + 1 |-> f[m + k]]
  <2>1. at \in [1 .. n + 1 -> Nat]
    <3>1. \A k \in 1 .. n + 1 : m + k \in 1 .. (m + n) + 1
      OBVIOUS
    <3> QED BY <1>4, <3>1
  <2>2. ASSUME NEW k \in 1..n
        PROVE  Carries(bytes, at[k], b[k]) /\ at[k + 1] = at[k] + Len(b[k])
    <3>1. /\ k \in 1 .. n + 1 /\ k + 1 \in 1 .. n + 1 /\ m + k \in 1 .. m + n
          /\ ~(m + k <= m) /\ (m + k) - m = k /\ m + (k + 1) = (m + k) + 1
      OBVIOUS
    <3>2. c[m + k] = b[k] /\ at[k] = f[m + k] /\ at[k + 1] = f[(m + k) + 1]
      BY <1>3, <3>1
    <3> HIDE DEF at
    <3> QED BY <1>4, <3>1, <3>2
  <2>3. at[1] = q /\ at[n + 1] = r
    <3>1. 1 \in 1 .. n + 1 /\ n + 1 \in 1 .. n + 1 /\ m + (n + 1) = (m + n) + 1
      OBVIOUS
    <3> QED BY <1>4, <1>5, <3>1
  <2> HIDE DEF at
  <2>4. Laid(bytes, at, b)
    BY <1>2, <2>1, <2>2 DEF Laid
  <2> QED BY <1>2, <2>3, <2>4 DEF Spans
<1> QED BY <1>6, <1>7, <1>8

LEMMA StringsOf ==
    ASSUME NEW fields \in Seq(Seq(Byte)), NEW s, s = Strings(fields)
    PROVE  /\ s \in Seq(Seq(Byte)) /\ Len(s) = Len(fields)
           /\ \A k \in 1..Len(fields) : s[k] = RlpString(fields[k])
<1>1. PICK n \in Nat : n = Len(fields)
  BY LenProperties
<1>2. \A k \in 1..n : RlpString(fields[k]) \in Seq(Byte)
  BY <1>1, ElementOfSeq, StringBytes
<1>3. s = [k \in 1..n |-> RlpString(fields[k])]
  BY <1>1 DEF Strings
<1>4. s \in [1..n -> Seq(Byte)]
  BY <1>2, <1>3
<1>5. s \in Seq(Seq(Byte)) /\ Len(s) = n
  BY <1>4
<1> QED BY <1>1, <1>3, <1>5

LEMMA StringsJoined ==
    ASSUME NEW a \in Seq(Seq(Byte)), NEW b \in Seq(Seq(Byte))
    PROVE  Strings(a) \o Strings(b) = Strings(a \o b)
<1>1. PICK c : c = a \o b
  OBVIOUS
<1>2. PICK m \in Nat, n \in Nat : m = Len(a) /\ n = Len(b)
  BY LenProperties
<1>3. /\ c \in Seq(Seq(Byte)) /\ Len(c) = m + n
      /\ \A k \in 1 .. m + n : c[k] = IF k <= m THEN a[k] ELSE b[k - m]
  BY <1>1, <1>2, ConcatProperties
<1>4. PICK sa : sa = Strings(a)
  OBVIOUS
<1>5. PICK sb : sb = Strings(b)
  OBVIOUS
<1>6. PICK sc : sc = Strings(c)
  OBVIOUS
<1>7. /\ sa \in Seq(Seq(Byte)) /\ Len(sa) = m
      /\ \A k \in 1..m : sa[k] = RlpString(a[k])
  BY <1>2, <1>4, StringsOf
<1>8. /\ sb \in Seq(Seq(Byte)) /\ Len(sb) = n
      /\ \A k \in 1..n : sb[k] = RlpString(b[k])
  BY <1>2, <1>5, StringsOf
<1>9. /\ sc \in Seq(Seq(Byte)) /\ Len(sc) = m + n
      /\ \A k \in 1 .. m + n : sc[k] = RlpString(c[k])
  BY <1>3, <1>6, StringsOf
<1>10. PICK both : both = sa \o sb
  OBVIOUS
<1>11. /\ both \in Seq(Seq(Byte)) /\ Len(both) = m + n
       /\ \A k \in 1 .. m + n : both[k] = IF k <= m THEN sa[k] ELSE sb[k - m]
  BY <1>7, <1>8, <1>10, ConcatProperties
<1>12. ASSUME NEW k \in 1 .. m + n PROVE both[k] = sc[k]
  <2>1. CASE k <= m
    <3>1. k \in 1..m
      BY <2>1
    <3> QED BY <1>3, <1>7, <1>9, <1>11, <2>1, <3>1
  <2>2. CASE ~(k <= m)
    <3>1. k - m \in 1..n
      BY <2>2
    <3> QED BY <1>3, <1>8, <1>9, <1>11, <2>2, <3>1
  <2> QED BY <2>1, <2>2
<1>13. both = sc
  BY <1>9, <1>11, <1>12, SeqEqual
<1> QED BY <1>1, <1>4, <1>5, <1>6, <1>10, <1>13

------------------------------------------------------------------------------
(* The fields of a transaction. *)

(* What the transaction has for a field of the parser's. *)
Content(t, name) == IF name = "type" THEN <<t.type>> ELSE t[name]

Means(t, name, x) == name \in Stored => x = Content(t, name)

(* What is encoded behind the fee ratio. *)
Trailing(t) == Format(t) \o <<t.chainID, <<>>, <<>>>>

(* Strings of it, one for each of the fields behind the first ones. *)
Lined(t, s, first) ==
    LET names == Fields(t.type) IN
    /\ s \in Seq(ByteStrings)
    /\ \A i \in 1..Len(s) :
          /\ names[i + first] \notin {"ratio", "content"}
          /\ Means(t, names[i + first], s[i])

LEMMA Parts ==
    ASSUME NEW t, WellFormed(t)
    PROVE  /\ t.nonce \in ByteStrings /\ t.gasprice \in ByteStrings
           /\ t.startgas \in ByteStrings /\ t.value \in ByteStrings
           /\ t.ratio \in ByteStrings /\ t.chainID \in ByteStrings
           /\ t.to \in ByteStrings /\ t.sender \in ByteStrings /\ t.data \in ByteStrings
           /\ <<>> \in ByteStrings
           /\ t.type \in Nat /\ t.type <= 192 /\ <<t.type>> \in ByteStrings
<1>1. \A name \in {"nonce", "gasprice", "startgas", "value", "ratio", "chainID"} :
         t[name] \in ByteStrings
  BY DEF WellFormed, ByteStrings
<1>2. /\ t.to \in ByteStrings /\ t.sender \in ByteStrings /\ t.data \in ByteStrings
      /\ <<>> \in ByteStrings
  BY DEF WellFormed, ByteStrings
<1>3. t.type \in Nat /\ t.type <= 192
  BY SmallTypes DEF WellFormed, LEGACY
<1>4. <<t.type>> \in ByteStrings
  <2>1. PICK b \in Byte : b = t.type
    BY <1>3 DEF Byte
  <2>2. <<b>> \in Seq(Byte)
    OBVIOUS
  <2> QED BY <2>1, <2>2 DEF ByteStrings
<1> QED BY <1>1, <1>2, <1>3, <1>4

LEMMA Types ==
    /\ TypesOf("value_transfer") = {8, 9, 10} /\ TypesOf("memo") = {16, 17, 18}
    /\ TypesOf("deploy") = {40, 41, 42} /\ TypesOf("execution") = {48, 49, 50}
    /\ TypesOf("cancel") = {56, 57, 58}
<1>1. /\ FirstType("value_transfer") = 8 /\ FirstType("memo") = 16
      /\ FirstType("deploy") = 40 /\ FirstType("execution") = 48
      /\ FirstType("cancel") = 56
  BY DEF FirstType
<1>2. TypesOf("value_transfer") = {8, 9, 10}
  BY <1>1 DEF TypesOf
<1>3. TypesOf("memo") = {16, 17, 18}
  BY <1>1 DEF TypesOf
<1>4. TypesOf("deploy") = {40, 41, 42}
  BY <1>1 DEF TypesOf
<1>5. TypesOf("execution") = {48, 49, 50}
  BY <1>1 DEF TypesOf
<1>6. TypesOf("cancel") = {56, 57, 58}
  BY <1>1 DEF TypesOf
<1> QED BY <1>2, <1>3, <1>4, <1>5, <1>6

LEMMA Leads ==
    ASSUME NEW t
    PROVE  /\ t.type = LEGACY =>
                 Leading(t) = <<t.nonce, t.gasprice, t.startgas, t.to, t.value, t.data>>
           /\ t.type \in {8, 9, 10} =>
                 Leading(t) = <<<<t.type>>, t.nonce, t.gasprice, t.startgas,
                                t.to, t.value, t.sender>>
           /\ t.type \in {16, 17, 18, 48, 49, 50} =>
                 Leading(t) = <<<<t.type>>, t.nonce, t.gasprice, t.startgas,
                                t.to, t.value, t.sender, t.data>>
           /\ t.type \in {40, 41, 42} =>
                 Leading(t) = <<<<t.type>>, t.nonce, t.gasprice, t.startgas,
                                <<>>, t.value, t.sender, t.data, <<>>>>
           /\ t.type \in {56, 57, 58} =>
                 Leading(t) = <<<<t.type>>, t.nonce, t.gasprice, t.startgas, t.sender>>
<1>1. PICK a : a = <<t.nonce, t.gasprice, t.startgas, t.to, t.value, t.data>>
  OBVIOUS
<1>2. PICK b : b = <<<<t.type>>, t.nonce, t.gasprice, t.startgas, t.to, t.value, t.sender>>
  OBVIOUS
<1>3. PICK c : c = <<<<t.type>>, t.nonce, t.gasprice, t.startgas, t.to, t.value, t.sender,
                     t.data>>
  OBVIOUS
<1>4. PICK d : d = <<<<t.type>>, t.nonce, t.gasprice, t.startgas, <<>>, t.value, t.sender,
                     t.data, <<>>>>
  OBVIOUS
<1>5. PICK e : e = <<<<t.type>>, t.nonce, t.gasprice, t.startgas, t.sender>>
  OBVIOUS
<1>6. Leading(t) = CASE t.type = LEGACY -> a
                     [] t.type \in TypesOf("value_transfer") -> b
                     [] t.type \in TypesOf("memo") \cup TypesOf("execution") -> c
                     [] t.type \in TypesOf("deploy") -> d
                     [] t.type \in TypesOf("cancel") -> e
  BY <1>1, <1>2, <1>3, <1>4, <1>5, Zenon DEF Leading
<1>7. ASSUME t.type = LEGACY PROVE Leading(t) = a
  <2>1. /\ t.type = LEGACY
        /\ t.type \notin TypesOf("value_transfer")
        /\ t.type \notin TypesOf("memo") \cup TypesOf("execution")
        /\ t.type \notin TypesOf("deploy")
        /\ t.type \notin TypesOf("cancel")
    BY <1>7, Types DEF LEGACY
  <2> QED BY <1>6, <2>1, Zenon
<1>8. ASSUME t.type \in {8, 9, 10} PROVE Leading(t) = b
  <2>1. /\ t.type # LEGACY
        /\ t.type \in TypesOf("value_transfer")
        /\ t.type \notin TypesOf("memo") \cup TypesOf("execution")
        /\ t.type \notin TypesOf("deploy")
        /\ t.type \notin TypesOf("cancel")
    BY <1>8, Types DEF LEGACY
  <2> QED BY <1>6, <2>1, Zenon
<1>9. ASSUME t.type \in {16, 17, 18, 48, 49, 50} PROVE Leading(t) = c
  <2>1. /\ t.type # LEGACY
        /\ t.type \notin TypesOf("value_transfer")
        /\ t.type \in TypesOf("memo") \cup TypesOf("execution")
        /\ t.type \notin TypesOf("deploy")
        /\ t.type \notin TypesOf("cancel")
    BY <1>9, Types DEF LEGACY
  <2> QED BY <1>6, <2>1, Zenon
<1>10. ASSUME t.type \in {40, 41, 42} PROVE Leading(t) = d
  <2>1. /\ t.type # LEGACY
        /\ t.type \notin TypesOf("value_transfer")
        /\ t.type \notin TypesOf("memo") \cup TypesOf("execution")
        /\ t.type \in TypesOf("deploy")
        /\ t.type \notin TypesOf("cancel")
    BY <1>10, Types DEF LEGACY
  <2> QED BY <1>6, <2>1, Zenon
<1>11. ASSUME t.type \in {56, 57, 58} PROVE Leading(t) = e
  <2>1. /\ t.type # LEGACY
        /\ t.type \notin TypesOf("value_transfer")
        /\ t.type \notin TypesOf("memo") \cup TypesOf("execution")
        /\ t.type \notin TypesOf("deploy")
        /\ t.type \in TypesOf("cancel")
    BY <1>11, Types DEF LEGACY
  <2> QED BY <1>6, <2>1, Zenon
<1> QED
  BY <1>1, <1>2, <1>3, <1>4, <1>5, <1>7, <1>8, <1>9, <1>10, <1>11, Zenon

LEMMA Appended ==
    ASSUME NEW s \in Seq(ByteStrings), NEW t \in Seq(ByteStrings),
           NEW u \in Seq(ByteStrings),
           Len(u) = Len(s) + Len(t),
           \A i \in 1..Len(s) : u[i] = s[i],
           \A i \in 1..Len(t) : u[Len(s) + i] = t[i]
    PROVE  s \o t = u
<1>1. PICK w : w = s \o t
  OBVIOUS
<1>2. /\ w \in Seq(ByteStrings) /\ Len(w) = Len(s) + Len(t)
      /\ \A i \in 1..Len(s) + Len(t) : w[i] = IF i <= Len(s) THEN s[i] ELSE t[i - Len(s)]
  BY <1>1, ConcatProperties
<1>3. Len(s) \in Nat /\ Len(t) \in Nat
  BY LenProperties
<1>4. ASSUME NEW i \in 1..Len(w) PROVE w[i] = u[i]
  <2>1. CASE i <= Len(s)
    BY <1>2, <1>3, <2>1
  <2>2. CASE ~(i <= Len(s))
    <3>1. i - Len(s) \in 1..Len(t) /\ Len(s) + (i - Len(s)) = i
      BY <1>2, <1>3, <2>2
    <3> QED BY <1>2, <2>2, <3>1
  <2> QED BY <2>1, <2>2
<1> QED BY <1>1, <1>2, <1>4, SeqEqual

LEMMA Trails ==
    ASSUME NEW t, WellFormed(t)
    PROVE  /\ t.type \notin {40, 41, 42} => Trailing(t) = <<t.chainID, <<>>, <<>>>>
           /\ t.type \in {40, 41, 42} => Trailing(t) = <<<<>>, t.chainID, <<>>, <<>>>>
<1>1. PICK j \in ByteStrings : j = t.chainID
  BY Parts
<1>2. PICK n \in ByteStrings : n = <<>>
  BY Parts
<1> DEFINE front == <<n>>
           back == <<j, n, n>>
           all == <<n, j, n, n>>
<1>3. front \in Seq(ByteStrings) /\ Len(front) = 1
  BY <1>1, <1>2
<1>4. back \in Seq(ByteStrings) /\ Len(back) = 3
  BY <1>1, <1>2
<1>5. all \in Seq(ByteStrings) /\ Len(all) = 4
  BY <1>1, <1>2
<1>6. \A k \in 1..1 : all[k] = front[k]
  OBVIOUS
<1>7. \A k \in 1..3 : all[1 + k] = back[k]
  OBVIOUS
<1>8. Trailing(t) = Format(t) \o back
  BY <1>1, <1>2 DEF Trailing
<1>9. Format(t) = IF t.type \in {40, 41, 42} THEN front ELSE <<>>
  BY <1>2, Types DEF Format
<1> HIDE DEF front, back, all
<1>10. /\ Len(all) = Len(front) + Len(back)
       /\ \A k \in 1..Len(front) : all[k] = front[k]
       /\ \A k \in 1..Len(back) : all[Len(front) + k] = back[k]
  BY <1>3, <1>4, <1>5, <1>6, <1>7
<1>11. front \o back = all
  BY <1>3, <1>4, <1>5, <1>10, Appended
<1>12. <<>> \o back = back
  BY <1>4, ConcatEmptySeq
<1>13. CASE t.type \in {40, 41, 42}
  <2>1. Trailing(t) = all
    BY <1>8, <1>9, <1>11, <1>13
  <2> QED BY <1>1, <1>2, <1>13, <2>1 DEF all
<1>14. CASE t.type \notin {40, 41, 42}
  <2>1. Trailing(t) = back
    BY <1>8, <1>9, <1>12, <1>14
  <2> QED BY <1>1, <1>2, <1>14, <2>1 DEF back
<1> QED BY <1>13, <1>14

(* Where the strings are among the fields. *)
LEMMA Ordered ==
    ASSUME NEW t, WellFormed(t), t.type # LEGACY, NEW names, names = Fields(t.type)
    PROVE  /\ Lined(t, Leading(t), 1)
           /\ Lined(t, Trailing(t), Len(Leading(t)) + 2)
           /\ Len(names) = Len(Leading(t)) + 2 + Len(Trailing(t))
           /\ names[1] = "content" /\ names[Len(Leading(t)) + 2] = "ratio"
<1>1. CASE t.type \in {8, 9, 10} /\ names = ValueTransferFields
  <2>1. PICK s : s = <<<<t.type>>, t.nonce, t.gasprice, t.startgas, t.to, t.value, t.sender>>
    OBVIOUS
  <2>2. PICK u : u = <<t.chainID, <<>>, <<>>>>
    OBVIOUS
  <2>3. Leading(t) = s /\ Trailing(t) = u
    BY <1>1, <2>1, <2>2, Leads, Trails
  <2>4. s \in Seq(ByteStrings) /\ Len(s) = 7
    BY <2>1, Parts
  <2>5. u \in Seq(ByteStrings) /\ Len(u) = 3
    <3>1. PICK j \in ByteStrings : j = t.chainID
      BY Parts
    <3>2. PICK n \in ByteStrings : n = <<>>
      BY Parts
    <3>3. u = <<j, n, n>>
      BY <2>2, <3>1, <3>2
    <3> QED BY <3>3
  <2>6. \A i \in 1..7 :
           names[i + 1] \notin {"ratio", "content"} /\ Means(t, names[i + 1], s[i])
    BY <1>1, <2>1 DEF ValueTransferFields, Means, Content, Stored
  <2>7. \A i \in 1..3 :
           names[i + 9] \notin {"ratio", "content"} /\ Means(t, names[i + 9], u[i])
    BY <1>1, <2>2 DEF ValueTransferFields, Means, Content, Stored
  <2>8. Len(names) = 12 /\ names[1] = "content" /\ names[9] = "ratio"
    BY <1>1 DEF ValueTransferFields
  <2> QED BY <2>3, <2>4, <2>5, <2>6, <2>7, <2>8 DEF Lined
<1>2. CASE t.type \in {16, 17, 18, 48, 49, 50} /\ names = MemoFields
  <2>1. PICK s : s = <<<<t.type>>, t.nonce, t.gasprice, t.startgas, t.to, t.value, t.sender,
                     t.data>>
    OBVIOUS
  <2>2. PICK u : u = <<t.chainID, <<>>, <<>>>>
    OBVIOUS
  <2>3. Leading(t) = s /\ Trailing(t) = u
    BY <1>2, <2>1, <2>2, Leads, Trails
  <2>4. s \in Seq(ByteStrings) /\ Len(s) = 8
    BY <2>1, Parts
  <2>5. u \in Seq(ByteStrings) /\ Len(u) = 3
    <3>1. PICK j \in ByteStrings : j = t.chainID
      BY Parts
    <3>2. PICK n \in ByteStrings : n = <<>>
      BY Parts
    <3>3. u = <<j, n, n>>
      BY <2>2, <3>1, <3>2
    <3> QED BY <3>3
  <2>6. \A i \in 1..8 :
           names[i + 1] \notin {"ratio", "content"} /\ Means(t, names[i + 1], s[i])
    BY <1>2, <2>1 DEF MemoFields, Means, Content, Stored
  <2>7. \A i \in 1..3 :
           names[i + 10] \notin {"ratio", "content"} /\ Means(t, names[i + 10], u[i])
    BY <1>2, <2>2 DEF MemoFields, Means, Content, Stored
  <2>8. Len(names) = 13 /\ names[1] = "content" /\ names[10] = "ratio"
    BY <1>2 DEF MemoFields
  <2> QED BY <2>3, <2>4, <2>5, <2>6, <2>7, <2>8 DEF Lined
<1>3. CASE t.type \in {40, 41, 42} /\ names = DeployFields
  <2>1. PICK s : s = <<<<t.type>>, t.nonce, t.gasprice, t.startgas, <<>>, t.value, t.sender,
                     t.data, <<>>>>
    OBVIOUS
  <2>2. PICK u : u = <<<<>>, t.chainID, <<>>, <<>>>>
    OBVIOUS
  <2>3. Leading(t) = s /\ Trailing(t) = u
    BY <1>3, <2>1, <2>2, Leads, Trails
  <2>4. s \in Seq(ByteStrings) /\ Len(s) = 9
    BY <2>1, Parts
  <2>5. u \in Seq(ByteStrings) /\ Len(u) = 4
    <3>1. PICK j \in ByteStrings : j = t.chainID
      BY Parts
    <3>2. PICK n \in ByteStrings : n = <<>>
      BY Parts
    <3>3. u = <<n, j, n, n>>
      BY <2>2, <3>1, <3>2
    <3> QED BY <3>3
  <2>6. \A i \in 1..9 :
           names[i + 1] \notin {"ratio", "content"} /\ Means(t, names[i + 1], s[i])
    BY <1>3, <2>1 DEF DeployFields, Means, Content, Stored
  <2>7. \A i \in 1..4 :
           names[i + 11] \notin {"ratio", "content"} /\ Means(t, names[i + 11], u[i])
    BY <1>3, <2>2 DEF DeployFields, Means, Content, Stored
  <2>8. Len(names) = 15 /\ names[1] = "content" /\ names[11] = "ratio"
    BY <1>3 DEF DeployFields
  <2> QED BY <2>3, <2>4, <2>5, <2>6, <2>7, <2>8 DEF Lined
<1>4. CASE t.type \in {56, 57, 58} /\ names = CancelFields
  <2>1. PICK s : s = <<<<t.type>>, t.nonce, t.gasprice, t.startgas, t.sender>>
    OBVIOUS
  <2>2. PICK u : u = <<t.chainID, <<>>, <<>>>>
    OBVIOUS
  <2>3. Leading(t) = s /\ Trailing(t) = u
    BY <1>4, <2>1, <2>2, Leads, Trails
  <2>4. s \in Seq(ByteStrings) /\ Len(s) = 5
    BY <2>1, Parts
  <2>5. u \in Seq(ByteStrings) /\ Len(u) = 3
    <3>1. PICK j \in ByteStrings : j = t.chainID
      BY Parts
    <3>2. PICK n \in ByteStrings : n = <<>>
      BY Parts
    <3>3. u = <<j, n, n>>
      BY <2>2, <3>1, <3>2
    <3> QED BY <3>3
  <2>6. \A i \in 1..5 :
           names[i + 1] \notin {"ratio", "content"} /\ Means(t, names[i + 1], s[i])
    BY <1>4, <2>1 DEF CancelFields, Means, Content, Stored
  <2>7. \A i \in 1..3 :
           names[i + 7] \notin {"ratio", "content"} /\ Means(t, names[i + 7], u[i])
    BY <1>4, <2>2 DEF CancelFields, Means, Content, Stored
  <2>8. Len(names) = 10 /\ names[1] = "content" /\ names[7] = "ratio"
    BY <1>4 DEF CancelFields
  <2> QED BY <2>3, <2>4, <2>5, <2>6, <2>7, <2>8 DEF Lined
<1>5. Supported(t.type)
  BY DEF WellFormed
<1> QED BY <1>1, <1>2, <1>3, <1>4, <1>5, KindOf

LEMMA OrderedLegacy ==
    ASSUME NEW t, WellFormed(t), t.type = LEGACY, NEW names, names = Fields(t.type)
    PROVE  /\ Lined(t, Leading(t), 0) /\ Len(Leading(t)) = 6
           /\ Lined(t, Trailing(t), 6) /\ Len(Trailing(t)) = 3
           /\ Len(names) = 9
<1>1. PICK s : s = <<t.nonce, t.gasprice, t.startgas, t.to, t.value, t.data>>
  OBVIOUS
<1>2. PICK u : u = <<t.chainID, <<>>, <<>>>>
  OBVIOUS
<1>3. Leading(t) = s /\ Trailing(t) = u
  <2>1. t.type \notin {40, 41, 42}
    BY DEF LEGACY
  <2> QED BY <1>1, <1>2, <2>1, Leads, Trails
<1>4. s \in Seq(ByteStrings) /\ Len(s) = 6
  <2>1. /\ t.nonce \in ByteStrings /\ t.gasprice \in ByteStrings
        /\ t.startgas \in ByteStrings /\ t.to \in ByteStrings
        /\ t.value \in ByteStrings /\ t.data \in ByteStrings
    BY Parts
  <2> QED BY <1>1, <2>1
<1>5. u \in Seq(ByteStrings) /\ Len(u) = 3
  <2>1. PICK j \in ByteStrings : j = t.chainID
    BY Parts
  <2>2. PICK n \in ByteStrings : n = <<>>
    BY Parts
  <2>3. u = <<j, n, n>>
    BY <1>2, <2>1, <2>2
  <2> QED BY <2>3
<1>6. names = <<"nonce", "gasprice", "startgas", "to", "value", "data",
                "chainID", "discard", "discard">>
  BY LegacyList DEF Fields
<1>7. \A i \in 1..6 :
         names[i + 0] \notin {"ratio", "content"} /\ Means(t, names[i + 0], s[i])
  BY <1>1, <1>6 DEF Means, Content, Stored
<1>8. \A i \in 1..3 :
         names[i + 6] \notin {"ratio", "content"} /\ Means(t, names[i + 6], u[i])
  BY <1>2, <1>6 DEF Means, Content, Stored
<1> QED BY <1>3, <1>4, <1>5, <1>6, <1>7, <1>8 DEF Lined

(* What is encoded first tells the type. *)
LEMMA LeadsWith ==
    ASSUME NEW t, WellFormed(t)
    PROVE  /\ Leading(t) \in Seq(ByteStrings) /\ Len(Leading(t)) # 0
           /\ Leading(t)[1] = IF t.type = LEGACY THEN t.nonce ELSE <<t.type>>
<1>1. CASE t.type = LEGACY
  <2>1. Leading(t) \in Seq(ByteStrings) /\ Len(Leading(t)) = 6
    BY <1>1, OrderedLegacy DEF Lined
  <2>2. Leading(t)[1] = t.nonce
    BY <1>1, Leads
  <2> QED BY <1>1, <2>1, <2>2
<1>2. CASE t.type # LEGACY
  <2>1. Leading(t) \in Seq(ByteStrings)
    BY <1>2, Ordered DEF Lined
  <2>2. Supported(t.type)
    BY DEF WellFormed
  <2>3. \/ t.type \in {8, 9, 10} \/ t.type \in {16, 17, 18, 48, 49, 50}
        \/ t.type \in {40, 41, 42} \/ t.type \in {56, 57, 58}
    BY <1>2, <2>2, KindOf
  <2>4. Len(Leading(t)) # 0 /\ Leading(t)[1] = <<t.type>>
    <3>1. CASE t.type \in {8, 9, 10}
      BY <3>1, Leads
    <3>2. CASE t.type \in {16, 17, 18, 48, 49, 50}
      BY <3>2, Leads
    <3>3. CASE t.type \in {40, 41, 42}
      BY <3>3, Leads
    <3>4. CASE t.type \in {56, 57, 58}
      BY <3>4, Leads
    <3> QED BY <2>3, <3>1, <3>2, <3>3, <3>4
  <2> QED BY <1>2, <2>1, <2>4
<1> QED BY <1>1, <1>2

LEMMA Feeds ==
    ASSUME NEW t, WellFormed(t)
    PROVE  /\ Fee(t) \in Seq(ByteStrings) /\ Trailing(t) \in Seq(ByteStrings)
           /\ Format(t) \in Seq(ByteStrings)
           /\ <<t.chainID, <<>>, <<>>>> \in Seq(ByteStrings)
<1>1. PICK r \in ByteStrings : r = t.ratio
  BY Parts
<1>2. PICK n \in ByteStrings : n = <<>>
  BY Parts
<1>3. PICK j \in ByteStrings : j = t.chainID
  BY Parts
<1>4. Fee(t) \in Seq(ByteStrings)
  <2>1. Fee(t) = <<r>> \/ Fee(t) = <<>>
    BY <1>1 DEF Fee
  <2>2. <<r>> \in Seq(ByteStrings) /\ <<>> \in Seq(ByteStrings)
    OBVIOUS
  <2> QED BY <2>1, <2>2, Zenon
<1>5. Format(t) \in Seq(ByteStrings)
  <2>1. Format(t) = <<n>> \/ Format(t) = <<>>
    BY <1>2 DEF Format
  <2>2. <<n>> \in Seq(ByteStrings) /\ <<>> \in Seq(ByteStrings)
    OBVIOUS
  <2> QED BY <2>1, <2>2, Zenon
<1>6. <<t.chainID, <<>>, <<>>>> \in Seq(ByteStrings)
  BY <1>2, <1>3
<1>7. Trailing(t) \in Seq(ByteStrings)
  BY <1>5, <1>6, ConcatProperties DEF Trailing
<1> QED BY <1>4, <1>5, <1>6, <1>7

------------------------------------------------------------------------------
(* Strings that are decoded. *)

Item(bytes, p, x, q) ==
    /\ HasHeader(bytes, p) /\ ~IsListAt(bytes, p)
    /\ LengthAt(bytes, p) = Len(x) /\ PayloadOf(bytes, p) = x
    /\ PayloadAt(bytes, p) + LengthAt(bytes, p) = q /\ q <= Len(bytes)

Strung(bytes, fields, p, q) ==
    \E at : /\ at \in [1 .. Len(fields) + 1 -> Nat]
            /\ at[1] = p /\ at[Len(fields) + 1] = q
            /\ \A k \in 1..Len(fields) : Item(bytes, at[k], fields[k], at[k + 1])

LEMMA StringsStrung ==
    ASSUME NEW bytes \in Seq(Byte), NEW fields \in Seq(Seq(Byte)), NEW p, NEW q,
           \A k \in 1..Len(fields) : Len(fields[k]) <= MAX_ENCODED,
           Spans(bytes, Strings(fields), p, q)
    PROVE  Strung(bytes, fields, p, q)
<1>1. PICK n \in Nat : n = Len(fields)
  BY LenProperties
<1>2. PICK s : s = Strings(fields)
  OBVIOUS
<1>3. Len(s) = n /\ \A k \in 1..n : s[k] = RlpString(fields[k])
  BY <1>1, <1>2, StringsOf
<1>4. PICK at : /\ at \in [1 .. n + 1 -> Nat] /\ at[1] = p /\ at[n + 1] = q
               /\ \A k \in 1..n : Carries(bytes, at[k], s[k]) /\ at[k + 1] = at[k] + Len(s[k])
  BY <1>2, <1>3 DEF Spans, Laid
<1>5. ASSUME NEW k \in 1..n PROVE Item(bytes, at[k], fields[k], at[k + 1])
  <2>1. PICK x \in Seq(Byte) : x = fields[k] /\ Len(x) <= MAX_ENCODED
    BY <1>1, ElementOfSeq
  <2>2. PICK r : r = RlpString(x)
    OBVIOUS
  <2>3. PICK i \in Nat : i = at[k]
    <3>1. k \in 1 .. n + 1
      OBVIOUS
    <3> QED BY <1>4, <3>1
  <2>4. Carries(bytes, i, r) /\ at[k + 1] = i + Len(r)
    BY <1>3, <1>4, <2>1, <2>2, <2>3
  <2>5. /\ HasHeader(bytes, i) /\ ~IsListAt(bytes, i)
        /\ LengthAt(bytes, i) = Len(x) /\ PayloadOf(bytes, i) = x
    BY <2>1, <2>2, <2>4, CarriedString
  <2>6. PayloadAt(bytes, i) + Len(x) = i + Len(r) /\ i + Len(r) <= Len(bytes)
    BY <2>1, <2>2, <2>4, CarriedString
  <2> QED BY <2>1, <2>3, <2>4, <2>5, <2>6 DEF Item
<1> QED BY <1>1, <1>4, <1>5 DEF Strung

LEMMA FirstLaid ==
    ASSUME NEW bytes \in Seq(Byte), NEW fields \in Seq(Seq(Byte)), NEW p \in Nat, NEW q,
           Len(fields) # 0, NEW x, x = fields[1], Len(x) = 1, x[1] <= 127,
           Spans(bytes, Strings(fields), p, q)
    PROVE  ByteAt(bytes, p) = x[1] /\ p < Len(bytes)
<1>1. PICK n \in Nat : n = Len(fields) /\ n # 0
  BY LenProperties
<1>2. PICK s : s = Strings(fields)
  OBVIOUS
<1>3. 1 \in 1..n
  BY <1>1
<1>4. Len(s) = n /\ s[1] = RlpString(x)
  BY <1>1, <1>2, <1>3, StringsOf
<1>5. RlpString(x) = x
  BY DEF RlpString
<1>6. Carries(bytes, p, x)
  BY <1>2, <1>3, <1>4, <1>5 DEF Spans, Laid
<1>7. p + 1 <= Len(bytes) /\ \A k \in 1..1 : bytes[p + k] = x[k]
  BY <1>6 DEF Carries
<1>8. bytes[p + 1] = x[1]
  BY <1>7
<1>9. p < Len(bytes)
  BY <1>7, LenProperties
<1>10. ByteAt(bytes, p) = bytes[p + 1]
  BY <1>9 DEF ByteAt
<1> QED BY <1>8, <1>9, <1>10

(* Strings that were encoded lie one behind the other, none too long. *)
Held(bytes, fields, p, q) ==
    /\ fields \in Seq(ByteStrings)
    /\ Spans(bytes, Strings(fields), p, q)
    /\ \A k \in 1..Len(fields) : Len(fields[k]) <= MAX_ENCODED

LEMMA HeldStrung ==
    ASSUME NEW bytes \in Seq(Byte), NEW fields, NEW p, NEW q, Held(bytes, fields, p, q)
    PROVE  Strung(bytes, fields, p, q)
<1>1. fields \in Seq(Seq(Byte))
  BY DEF Held, ByteStrings
<1> QED BY <1>1, StringsStrung DEF Held

LEMMA HeldDivide ==
    ASSUME NEW bytes, NEW a \in Seq(ByteStrings), NEW b \in Seq(ByteStrings),
           NEW p, NEW r, Held(bytes, a \o b, p, r)
    PROVE  \E q \in Nat : Held(bytes, a, p, q) /\ Held(bytes, b, q, r)
<1>1. a \in Seq(Seq(Byte)) /\ b \in Seq(Seq(Byte))
  BY DEF ByteStrings
<1>2. PICK c : c = a \o b
  OBVIOUS
<1>3. PICK m \in Nat : m = Len(a)
  BY LenProperties
<1>4. PICK n \in Nat : n = Len(b)
  BY LenProperties
<1>5. /\ Len(c) = m + n
      /\ \A k \in 1 .. m + n : c[k] = IF k <= m THEN a[k] ELSE b[k - m]
  BY <1>2, <1>3, <1>4, ConcatProperties
<1>6. Spans(bytes, Strings(c), p, r) /\ \A k \in 1 .. m + n : Len(c[k]) <= MAX_ENCODED
  BY <1>2, <1>5 DEF Held
<1>7. PICK sa : sa = Strings(a)
  OBVIOUS
<1>8. PICK sb : sb = Strings(b)
  OBVIOUS
<1>9. sa \in Seq(Seq(Byte)) /\ sb \in Seq(Seq(Byte))
  BY <1>1, <1>7, <1>8, StringsOf
<1>10. sa \o sb = Strings(c)
  BY <1>1, <1>2, <1>7, <1>8, StringsJoined
<1>11. PICK q \in Nat : Spans(bytes, sa, p, q) /\ Spans(bytes, sb, q, r)
  BY <1>6, <1>9, <1>10, SpansDivide
<1>12. ASSUME NEW k \in 1..m PROVE Len(a[k]) <= MAX_ENCODED
  <2>1. k \in 1 .. m + n /\ k <= m
    OBVIOUS
  <2>2. c[k] = a[k]
    BY <1>5, <2>1
  <2> QED BY <1>6, <2>1, <2>2
<1>13. ASSUME NEW k \in 1..n PROVE Len(b[k]) <= MAX_ENCODED
  <2>1. m + k \in 1 .. m + n /\ ~(m + k <= m) /\ (m + k) - m = k
    OBVIOUS
  <2>2. c[m + k] = b[k]
    BY <1>5, <2>1
  <2> QED BY <1>6, <2>1, <2>2
<1>14. Held(bytes, a, p, q)
  BY <1>3, <1>7, <1>11, <1>12 DEF Held
<1>15. Held(bytes, b, q, r)
  BY <1>4, <1>8, <1>11, <1>13 DEF Held
<1> QED BY <1>14, <1>15

LEMMA HeldJoin ==
    ASSUME NEW bytes, NEW a, NEW b, NEW p, NEW q, NEW r,
           Held(bytes, a, p, q), Held(bytes, b, q, r)
    PROVE  Held(bytes, a \o b, p, r)
<1>1. a \in Seq(Seq(Byte)) /\ b \in Seq(Seq(Byte))
  BY DEF Held, ByteStrings
<1>2. PICK c : c = a \o b
  OBVIOUS
<1>3. PICK m \in Nat : m = Len(a)
  BY <1>1, LenProperties
<1>4. PICK n \in Nat : n = Len(b)
  BY <1>1, LenProperties
<1>5. /\ c \in Seq(Seq(Byte)) /\ Len(c) = m + n
      /\ \A k \in 1 .. m + n : c[k] = IF k <= m THEN a[k] ELSE b[k - m]
  BY <1>1, <1>2, <1>3, <1>4, ConcatProperties
<1>6. PICK sa : sa = Strings(a)
  OBVIOUS
<1>7. PICK sb : sb = Strings(b)
  OBVIOUS
<1>8. sa \in Seq(Seq(Byte)) /\ sb \in Seq(Seq(Byte))
  BY <1>1, <1>6, <1>7, StringsOf
<1>9. sa \o sb = Strings(c)
  BY <1>1, <1>2, <1>6, <1>7, StringsJoined
<1>10. Spans(bytes, sa, p, q) /\ Spans(bytes, sb, q, r)
  BY <1>6, <1>7 DEF Held
<1>11. Spans(bytes, Strings(c), p, r)
  BY <1>8, <1>9, <1>10, SpansJoin
<1>12. ASSUME NEW k \in 1 .. m + n PROVE Len(c[k]) <= MAX_ENCODED
  <2>1. CASE k <= m
    <3>1. k \in 1..m
      BY <2>1
    <3> QED BY <1>3, <1>5, <2>1, <3>1 DEF Held
  <2>2. CASE ~(k <= m)
    <3>1. k - m \in 1..n
      BY <2>2
    <3> QED BY <1>4, <1>5, <2>2, <3>1 DEF Held
  <2> QED BY <2>1, <2>2
<1>13. c \in Seq(ByteStrings)
  BY <1>5 DEF ByteStrings
<1> QED BY <1>2, <1>5, <1>11, <1>12, <1>13 DEF Held

LEMMA ListBytes ==
    ASSUME NEW items \in Seq(Seq(Byte)), Len(items) # 0, NEW r, r = RlpList(items)
    PROVE  r \in Seq(Byte) /\ Len(r) # 0 /\ r[1] > 127
<1>1. PICK body : body = FlattenSeq(items)
  OBVIOUS
<1>2. body \in Seq(Byte)
  BY <1>1, CarriesItems
<1>3. PICK n \in Nat : n = Len(body)
  BY <1>2, LenProperties
<1>4. PICK base \in {128, 192} : base = 192
  OBVIOUS
<1>5. PICK h : h = Header(192, n)
  OBVIOUS
<1>6. h \in Seq(Byte) /\ Len(h) \in 1..3 /\ h[1] >= base
  <2>1. h = Header(base, n)
    BY <1>4, <1>5
  <2>2. Headed(h, base)
    BY <1>3, <1>4, <2>1, AnyHeader
  <2> QED BY <2>2 DEF Headed
<1>9. PICK m \in 1..3 : m = Len(h)
  BY <1>6
<1>10. r = h \o body
  BY <1>1, <1>3, <1>5 DEF RlpList
<1>11. r \in Seq(Byte) /\ Len(r) = Len(h) + Len(body)
  BY <1>2, <1>6, <1>10, ConcatProperties
<1>12. Len(r) # 0
  BY <1>3, <1>9, <1>11
<1>13. Len(h) # 0 /\ 1 \in 1..Len(h)
  BY <1>9
<1>14. r[1] = h[1]
  BY <1>2, <1>6, <1>10, <1>13, Joined
<1>15. h[1] \in Nat
  BY <1>6, <1>13, ElementOfSeq, ByteIsNat
<1> QED BY <1>4, <1>6, <1>11, <1>12, <1>14, <1>15

(* The strings of a list, however they are divided. *)
LEMMA ListHeld ==
    ASSUME NEW bytes, NEW fields \in Seq(ByteStrings), NEW p, NEW q,
           \A k \in 1..Len(fields) : Len(Strings(fields)[k]) <= MAX_ENCODED,
           Spans(bytes, Strings(fields), p, q)
    PROVE  Held(bytes, fields, p, q)
<1>1. fields \in Seq(Seq(Byte))
  BY DEF ByteStrings
<1>2. ASSUME NEW k \in 1..Len(fields) PROVE Len(fields[k]) <= MAX_ENCODED
  <2>1. PICK x \in Seq(Byte) : x = fields[k]
    BY <1>1, ElementOfSeq
  <2>2. PICK r : r = RlpString(x)
    OBVIOUS
  <2>3. r \in Seq(Byte) /\ Len(x) <= Len(r)
    BY <2>2, StringBytes
  <2>4. Len(r) <= MAX_ENCODED
    BY <1>1, <2>1, <2>2, StringsOf
  <2> QED BY <2>1, <2>3, <2>4, LenProperties DEF MAX_ENCODED
<1> QED BY <1>2 DEF Held

------------------------------------------------------------------------------
(* Transactions that lie in the bytes. *)

(* The fields in front of the fee ratio, the ratio and those behind it. *)
Aligned(bytes, t, p, z) ==
    \E q, r \in Nat :
        /\ Held(bytes, Leading(t), p, q)
        /\ Held(bytes, Fee(t), q, r)
        /\ Held(bytes, Trailing(t), r, z)

LEMMA Aligns ==
    ASSUME NEW bytes, NEW t, WellFormed(t), NEW p, NEW y, NEW z,
           Held(bytes, SignedFields(t), p, y),
           Held(bytes, <<t.chainID, <<>>, <<>>>>, y, z)
    PROVE  Aligned(bytes, t, p, z)
<1>1. PICK lead \in Seq(ByteStrings) : lead = Leading(t)
  BY LeadsWith
<1>2. PICK fee \in Seq(ByteStrings) : fee = Fee(t)
  BY Feeds
<1>3. PICK format \in Seq(ByteStrings) : format = Format(t)
  BY Feeds
<1>4. PICK front : front = lead \o fee
  OBVIOUS
<1>5. front \in Seq(ByteStrings)
  BY <1>1, <1>2, <1>4, ConcatProperties
<1>6. Held(bytes, front \o format, p, y)
  BY <1>1, <1>2, <1>3, <1>4 DEF SignedFields
<1>7. PICK r \in Nat : Held(bytes, front, p, r) /\ Held(bytes, format, r, y)
  BY <1>3, <1>5, <1>6, HeldDivide
<1>8. PICK q \in Nat : Held(bytes, lead, p, q) /\ Held(bytes, fee, q, r)
  BY <1>1, <1>2, <1>4, <1>7, HeldDivide
<1>9. Held(bytes, format \o <<t.chainID, <<>>, <<>>>>, r, z)
  BY <1>7, HeldJoin
<1>10. Held(bytes, Trailing(t), r, z)
  BY <1>3, <1>9 DEF Trailing
<1> QED BY <1>1, <1>2, <1>7, <1>8, <1>10 DEF Aligned

(* Where the first field that holds something is. *)
FirstOf(bytes, t) ==
    IF t.type = LEGACY THEN StartOf(bytes) ELSE PayloadAt(bytes, StartOf(bytes))

(* The transaction's encoding is there: its headers and what follows them. *)
Lies(bytes, t) ==
    /\ HasHeader(bytes, 0) /\ HasHeader(bytes, PayloadAt(bytes, 0))
    /\ t.type = LEGACY <=> IsSingle(ByteAt(bytes, PayloadAt(bytes, 0)))
    /\ t.type # LEGACY =>
          HasHeader(bytes, StartOf(bytes)) /\ IsListAt(bytes, StartOf(bytes))
    /\ Aligned(bytes, t, FirstOf(bytes, t), Len(Encode(t)))

LEMMA AllFields ==
    ASSUME NEW t, WellFormed(t)
    PROVE  /\ SignedFields(t) \in Seq(ByteStrings) /\ Len(SignedFields(t)) # 0
           /\ SignedFields(t)[1] = Leading(t)[1]
<1>1. PICK lead \in Seq(ByteStrings) : lead = Leading(t) /\ Len(lead) # 0
  BY LeadsWith
<1>2. PICK fee \in Seq(ByteStrings) : fee = Fee(t)
  BY Feeds
<1>3. PICK format \in Seq(ByteStrings) : format = Format(t)
  BY Feeds
<1>4. PICK front : front = lead \o fee
  OBVIOUS
<1>5. PICK k \in Nat, l \in Nat, m \in Nat :
         k = Len(lead) /\ l = Len(fee) /\ m = Len(format)
  BY <1>1, <1>2, <1>3, LenProperties
<1>6. /\ front \in Seq(ByteStrings) /\ Len(front) = k + l
      /\ \A i \in 1 .. k + l : front[i] = IF i <= k THEN lead[i] ELSE fee[i - k]
  BY <1>1, <1>2, <1>4, <1>5, ConcatProperties
<1>7. PICK all : all = front \o format
  OBVIOUS
<1>8. /\ all \in Seq(ByteStrings) /\ Len(all) = (k + l) + m
      /\ \A i \in 1 .. (k + l) + m :
            all[i] = IF i <= k + l THEN front[i] ELSE format[i - (k + l)]
  BY <1>3, <1>5, <1>6, <1>7, ConcatProperties
<1>9. all = SignedFields(t)
  BY <1>1, <1>2, <1>3, <1>4, <1>7 DEF SignedFields
<1>10. k # 0
  BY <1>1, <1>5
<1>11. 1 \in 1 .. k + l /\ 1 \in 1 .. (k + l) + m /\ 1 <= k /\ 1 <= k + l
  BY <1>5, <1>10
<1>12. all[1] = lead[1]
  BY <1>6, <1>8, <1>11
<1>13. Len(all) # 0
  BY <1>5, <1>8, <1>10
<1> QED BY <1>1, <1>8, <1>9, <1>12, <1>13

LEMMA LegacyLies ==
    ASSUME NEW bytes \in Seq(Byte), NEW t, WellFormed(t), t.type = LEGACY,
           NEW e, e = Encode(t), Carries(bytes, 0, e)
    PROVE  Lies(bytes, t)
<1>1. PICK signed \in Seq(ByteStrings) :
         signed = SignedFields(t) /\ Len(signed) # 0
  BY AllFields
<1>2. PICK behind \in Seq(ByteStrings) : behind = <<t.chainID, <<>>, <<>>>>
  BY Feeds
<1>3. PICK all : all = signed \o behind
  OBVIOUS
<1>4. all \in Seq(ByteStrings) /\ Len(all) # 0
  BY <1>1, <1>2, <1>3, ConcatProperties, LenProperties
<1>5. signed \in Seq(Seq(Byte)) /\ behind \in Seq(Seq(Byte)) /\ all \in Seq(Seq(Byte))
  BY <1>1, <1>2, <1>4 DEF ByteStrings
<1>6. PICK items : items = Strings(all)
  OBVIOUS
<1>7. items \in Seq(Seq(Byte)) /\ Len(items) = Len(all)
  BY <1>5, <1>6, StringsOf
<1>8. e = RlpList(items)
  <2>1. e = RlpList(Strings(signed) \o Strings(behind))
    BY <1>1, <1>2 DEF Encode
  <2>2. Strings(signed) \o Strings(behind) = Strings(signed \o behind)
    BY <1>5, StringsJoined
  <2> QED BY <1>3, <1>6, <2>1, <2>2
<1>9. Len(e) <= MAX_ENCODED
  BY DEF WellFormed
<1>10. PICK p \in Nat : p = PayloadAt(bytes, 0)
  BY PayloadPlace
<1>11. /\ \A k \in 1..Len(items) : Len(items[k]) <= MAX_ENCODED
       /\ HasHeader(bytes, 0) /\ Spans(bytes, items, p, 0 + Len(e))
  <2>1. Len(items) # 0
    BY <1>4, <1>7
  <2>2. \A k \in 1..Len(items) : Len(items[k]) <= MAX_ENCODED
    BY <1>7, <1>8, <1>9, <2>1, CarriesList
  <2>3. HasHeader(bytes, 0) /\ Spans(bytes, items, PayloadAt(bytes, 0), 0 + Len(e))
    BY <1>7, <1>8, <1>9, <2>1, CarriesList
  <2> QED BY <1>10, <2>2, <2>3
<1>12. PICK z \in Nat : z = Len(e) /\ 0 + Len(e) = z
  <2>1. e \in Seq(Byte)
    BY <1>4, <1>7, <1>8, ListBytes
  <2> QED BY <2>1, LenProperties
<1>13. Held(bytes, all, p, z)
  BY <1>4, <1>6, <1>7, <1>11, <1>12, ListHeld
<1>14. PICK y \in Nat : Held(bytes, signed, p, y) /\ Held(bytes, behind, y, z)
  BY <1>1, <1>2, <1>3, <1>13, HeldDivide
<1>15. Aligned(bytes, t, p, z)
  BY <1>1, <1>2, <1>14, Aligns
<1>16. IsSingle(ByteAt(bytes, p))
  <2>1. PICK x : x = signed[1]
    OBVIOUS
  <2>2. x = t.nonce
    BY <1>1, <2>1, AllFields, LeadsWith
  <2>3. Len(x) = 1 /\ x[1] <= 127
    BY <2>2 DEF WellFormed
  <2>4. Spans(bytes, Strings(signed), p, y)
    BY <1>14 DEF Held
  <2>5. ByteAt(bytes, p) = x[1]
    <3>1. signed \in Seq(Seq(Byte)) /\ Len(signed) # 0 /\ x = signed[1]
      BY <1>1, <1>5, <2>1
    <3>2. p \in Nat /\ Len(x) = 1 /\ x[1] <= 127
      BY <1>10, <2>3
    <3> QED BY <2>4, <3>1, <3>2, FirstLaid, Zenon
  <2> QED BY <2>3, <2>5 DEF IsSingle
<1>17. HasHeader(bytes, p)
  <2>1. PICK at : at \in [1 .. Len(all) + 1 -> Nat] /\ at[1] = p
                  /\ \A k \in 1..Len(all) : Item(bytes, at[k], all[k], at[k + 1])
    BY <1>13, HeldStrung DEF Strung
  <2>2. 1 \in 1..Len(all)
    BY <1>4, LenProperties
  <2> QED BY <2>1, <2>2 DEF Item
<1>18. FirstOf(bytes, t) = p
  <2>1. StartOf(bytes) = p
    BY <1>10, <1>16 DEF StartOf, PayloadAt
  <2> QED BY <2>1 DEF FirstOf
<1> QED BY <1>10, <1>11, <1>12, <1>15, <1>16, <1>17, <1>18 DEF Lies

(* The list of what the sender signs lies in a byte string. *)
LEMMA InnerLies ==
    ASSUME NEW bytes \in Seq(Byte), NEW p \in Nat, NEW inner \in Seq(Byte),
           Len(inner) # 0, inner[1] > 127, Len(inner) <= MAX_ENCODED,
           NEW x, x = RlpString(inner), Carries(bytes, p, x)
    PROVE  /\ HasHeader(bytes, p) /\ ~IsSingle(ByteAt(bytes, p))
           /\ Carries(bytes, PayloadAt(bytes, p), inner)
           /\ PayloadAt(bytes, p) + Len(inner) = p + Len(x)
<1>1. PICK n \in Nat : n = Len(inner) /\ n <= MAX_ENCODED
  BY LenProperties
<1>2. PICK base \in {128, 192} : base = 128
  OBVIOUS
<1>3. PICK h : h = Header(128, n)
  OBVIOUS
<1>4. h = Header(base, n)
  BY <1>2, <1>3
<1>5. h \in Seq(Byte)
  BY <1>1, <1>2, <1>4, AnyHeader DEF Headed
<1>6. x = h \o inner
  <2>1. ~(inner[1] <= 127)
    <3>1. 1 \in 1..Len(inner)
      BY LenProperties
    <3>2. inner[1] \in Nat
      BY <3>1, ElementOfSeq, ByteIsNat
    <3> QED BY <3>2
  <2> QED BY <1>1, <1>3, <2>1 DEF RlpString
<1>7. Carries(bytes, p, h) /\ Carries(bytes, p + Len(h), inner)
  BY <1>5, <1>6, CarriesJoin
<1>8. p + Len(x) = (p + Len(h)) + Len(inner)
  BY <1>5, <1>6, CarriesJoin
<1>9. HasHeader(bytes, p) /\ PayloadAt(bytes, p) = p + Len(h)
  <2>1. HasHeader(bytes, p)
    BY <1>1, <1>2, <1>4, <1>7, CarriedHeader
  <2>2. PayloadAt(bytes, p) = p + Len(h)
    BY <1>1, <1>2, <1>4, <1>7, CarriedHeader
  <2> QED BY <2>1, <2>2
<1>10. ~IsSingle(ByteAt(bytes, p))
  BY <1>1, <1>2, <1>4, <1>7, CarriedHeader
<1> QED BY <1>7, <1>8, <1>9, <1>10

LEMMA TypedLies ==
    ASSUME NEW bytes \in Seq(Byte), NEW t, WellFormed(t), t.type # LEGACY,
           NEW e, e = Encode(t), Carries(bytes, 0, e)
    PROVE  Lies(bytes, t)
<1>1. PICK signed \in Seq(ByteStrings) :
         signed = SignedFields(t) /\ Len(signed) # 0
  BY AllFields
<1>2. PICK behind \in Seq(ByteStrings) : behind = <<t.chainID, <<>>, <<>>>>
  BY Feeds
<1>3. signed \in Seq(Seq(Byte)) /\ behind \in Seq(Seq(Byte))
  BY <1>1, <1>2 DEF ByteStrings
<1>4. PICK own : own = Strings(signed)
  OBVIOUS
<1>5. PICK end : end = Strings(behind)
  OBVIOUS
<1>6. /\ own \in Seq(Seq(Byte)) /\ Len(own) = Len(signed)
      /\ end \in Seq(Seq(Byte)) /\ Len(end) = Len(behind)
  BY <1>3, <1>4, <1>5, StringsOf
<1>7. PICK inner : inner = RlpList(own)
  OBVIOUS
<1>8. inner \in Seq(Byte) /\ Len(inner) # 0 /\ inner[1] > 127
  BY <1>1, <1>6, <1>7, ListBytes
<1>9. PICK x : x = RlpString(inner)
  OBVIOUS
<1>10. x \in Seq(Byte) /\ Len(inner) <= Len(x)
  BY <1>8, <1>9, StringBytes
<1>11. PICK one : one = <<x>>
  OBVIOUS
<1>12. one \in Seq(Seq(Byte)) /\ Len(one) = 1 /\ one[1] = x
  BY <1>10, <1>11
<1>13. PICK items : items = one \o end
  OBVIOUS
<1>14. /\ items \in Seq(Seq(Byte)) /\ Len(items) = 1 + Len(end)
       /\ items[1] = x /\ \A k \in 1..Len(end) : items[k + 1] = end[k]
  <2>1. PICK n \in Nat : n = Len(end)
    BY <1>6, LenProperties
  <2>2. /\ items \in Seq(Seq(Byte)) /\ Len(items) = 1 + n
        /\ \A k \in 1 .. 1 + n : items[k] = IF k <= 1 THEN one[k] ELSE end[k - 1]
    <3>1. one \in Seq(Seq(Byte)) /\ end \in Seq(Seq(Byte))
      BY <1>6, <1>12
    <3>2. /\ items \in Seq(Seq(Byte)) /\ Len(items) = Len(one) + Len(end)
          /\ \A k \in 1 .. Len(one) + Len(end) :
                items[k] = IF k <= Len(one) THEN one[k] ELSE end[k - Len(one)]
      BY <1>13, <3>1, ConcatProperties
    <3> QED BY <1>12, <2>1, <3>2
  <2>3. items[1] = x
    <3>1. 1 \in 1 .. 1 + n
      BY <2>1
    <3> QED BY <1>12, <2>2, <3>1
  <2>4. ASSUME NEW k \in 1..n PROVE items[k + 1] = end[k]
    <3>1. k + 1 \in 1 .. 1 + n /\ ~(k + 1 <= 1) /\ (k + 1) - 1 = k
      BY <2>1
    <3> QED BY <2>2, <3>1
  <2> QED BY <2>1, <2>2, <2>3, <2>4
<1>15. e = RlpList(items)
  BY <1>1, <1>2, <1>4, <1>5, <1>7, <1>9, <1>11, <1>13 DEF Encode
<1>16. Len(e) <= MAX_ENCODED
  BY DEF WellFormed
<1>17. PICK p \in Nat : p = PayloadAt(bytes, 0)
  BY PayloadPlace
<1>18. Len(items) # 0
  BY <1>6, <1>14, LenProperties
<1>19. PICK z \in Nat : z = Len(e) /\ 0 + Len(e) = z
  <2>1. e \in Seq(Byte)
    BY <1>14, <1>15, <1>18, ListBytes
  <2> QED BY <2>1, LenProperties
<1>20. \A k \in 1..Len(items) : Len(items[k]) <= MAX_ENCODED
  BY <1>14, <1>15, <1>16, <1>18, CarriesList
<1>21. HasHeader(bytes, 0) /\ Spans(bytes, items, p, z)
  <2>1. HasHeader(bytes, 0) /\ Spans(bytes, items, PayloadAt(bytes, 0), 0 + Len(e))
    BY <1>14, <1>15, <1>16, <1>18, CarriesList
  <2> QED BY <1>17, <1>19, <2>1
<1>22. Carries(bytes, p, x) /\ Spans(bytes, end, p + Len(x), z)
  BY <1>6, <1>10, <1>11, <1>13, <1>17, <1>21, SpansSplit
<1>23. Len(inner) <= MAX_ENCODED
  <2>1. 1 \in 1..Len(items)
    BY <1>14, <1>18, LenProperties
  <2>2. Len(x) <= MAX_ENCODED
    BY <1>14, <1>20, <2>1
  <2> QED BY <1>8, <1>10, <2>2, LenProperties DEF MAX_ENCODED
<1>24. PICK s \in Nat : s = PayloadAt(bytes, p)
  BY <1>17, PayloadPlace
<1>25. HasHeader(bytes, p) /\ ~IsSingle(ByteAt(bytes, p))
  BY <1>8, <1>9, <1>17, <1>22, <1>23, InnerLies
<1>26. Carries(bytes, s, inner) /\ s + Len(inner) = p + Len(x)
  BY <1>8, <1>9, <1>17, <1>22, <1>23, <1>24, InnerLies
<1>27. PICK f \in Nat : f = PayloadAt(bytes, s)
  BY <1>24, PayloadPlace
<1>28. PICK y : y = s + Len(inner)
  OBVIOUS
<1>29. Len(own) # 0
  BY <1>1, <1>6
<1>30. \A k \in 1..Len(own) : Len(own[k]) <= MAX_ENCODED
  BY <1>6, <1>7, <1>23, <1>29, CarriesList
<1>31. HasHeader(bytes, s) /\ IsListAt(bytes, s) /\ Spans(bytes, own, f, y)
  BY <1>6, <1>7, <1>23, <1>24, <1>26, <1>27, <1>28, <1>29, CarriesList
<1>32. Held(bytes, signed, f, y)
  BY <1>1, <1>4, <1>6, <1>30, <1>31, ListHeld
<1>33. Held(bytes, behind, y, z)
  <2>1. ASSUME NEW k \in 1..Len(behind) PROVE Len(end[k]) <= MAX_ENCODED
    <3>1. k \in 1..Len(end) /\ k + 1 \in 1..Len(items)
      BY <1>6, <1>14, LenProperties
    <3> QED BY <1>14, <1>20, <3>1
  <2>2. Spans(bytes, end, y, z)
    BY <1>22, <1>26, <1>28
  <2> QED BY <1>2, <1>5, <2>1, <2>2, ListHeld
<1>34. Aligned(bytes, t, f, z)
  BY <1>1, <1>2, <1>32, <1>33, Aligns
<1>35. StartOf(bytes) = s
  BY <1>17, <1>24 DEF StartOf
<1>36. FirstOf(bytes, t) = f
  BY <1>27, <1>35 DEF FirstOf
<1> QED BY <1>17, <1>19, <1>21, <1>25, <1>31, <1>34, <1>35, <1>36 DEF Lies

LEMMA EncodedLies ==
    ASSUME NEW bytes \in Seq(Byte), NEW t, WellFormed(t), Carries(bytes, 0, Encode(t))
    PROVE  Lies(bytes, t)
BY LegacyLies, TypedLies

LEMMA EncodeBytes ==
    ASSUME NEW t, WellFormed(t)
    PROVE  Encode(t) \in Seq(Byte)
<1>1. /\ SignedFields(t) \in Seq(Seq(Byte)) /\ Len(SignedFields(t)) # 0
      /\ <<t.chainID, <<>>, <<>>>> \in Seq(Seq(Byte))
  BY AllFields, Feeds DEF ByteStrings
<1>2. PICK own : own = Strings(SignedFields(t))
  OBVIOUS
<1>3. PICK end : end = Strings(<<t.chainID, <<>>, <<>>>>)
  OBVIOUS
<1>4. own \in Seq(Seq(Byte)) /\ Len(own) # 0 /\ end \in Seq(Seq(Byte))
  BY <1>1, <1>2, <1>3, StringsOf
<1>5. CASE t.type = LEGACY
  <2>1. PICK items : items = own \o end
    OBVIOUS
  <2>2. items \in Seq(Seq(Byte)) /\ Len(items) # 0
    BY <1>4, <2>1, ConcatProperties, LenProperties
  <2>3. Encode(t) = RlpList(items)
    BY <1>2, <1>3, <1>5, <2>1 DEF Encode
  <2> QED BY <2>2, <2>3, ListBytes
<1>6. CASE t.type # LEGACY
  <2>1. PICK x : x = RlpString(RlpList(own))
    OBVIOUS
  <2>2. x \in Seq(Byte)
    BY <1>4, <2>1, ListBytes, StringBytes
  <2>3. PICK one : one = <<x>>
    OBVIOUS
  <2>4. one \in Seq(Seq(Byte)) /\ Len(one) = 1
    BY <2>2, <2>3
  <2>5. PICK items : items = one \o end
    OBVIOUS
  <2>6. items \in Seq(Seq(Byte)) /\ Len(items) = Len(one) + Len(end)
    BY <1>4, <2>4, <2>5, ConcatProperties
  <2>7. Len(items) # 0
    BY <1>4, <2>4, <2>6, LenProperties
  <2>8. Encode(t) = RlpList(items)
    BY <1>2, <1>3, <1>6, <2>1, <2>3, <2>5 DEF Encode
  <2> QED BY <2>6, <2>7, <2>8, ListBytes
<1> QED BY <1>5, <1>6

------------------------------------------------------------------------------
(* The fields of the type, in the bytes. *)

(* The field is there and holds what the transaction does. *)
Fulfilled(bytes, t, i, p, q) ==
    LET name == Fields(t.type)[i] IN
    /\ Behind(bytes, name, p) = q /\ q <= Len(bytes)
    /\ IsListAt(bytes, p) <=> name = "content"
    /\ ~TooLong(name, LengthAt(bytes, p))
    /\ name \in Stored => PayloadOf(bytes, p) = Content(t, name)

Follows(bytes, t, at) ==
    LET n == Len(Fields(t.type)) IN
    /\ at \in [1 .. n + 1 -> Nat]
    /\ at[1] = StartOf(bytes) /\ at[n + 1] = Len(Encode(t))
    /\ \A i \in 1..n : IF Absent(t.type, i) THEN at[i + 1] = at[i]
                       ELSE Fulfilled(bytes, t, i, at[i], at[i + 1])

LEMMA ShortEnough ==
    ASSUME NEW t, WellFormed(t), NEW name, NEW x, Means(t, name, x)
    PROVE  ~TooLong(name, Len(x))
<1>1. \A field \in {"nonce", "gasprice", "startgas", "value", "ratio", "chainID"} :
         Len(t[field]) <= MAX_INT256
  BY DEF WellFormed
<1>2. 1 <= MAX_INT256
  BY <1>1 DEF WellFormed
<1>3. Len(<<t.type>>) = 1
  OBVIOUS
<1>4. name \in Integers256 => Len(x) <= MAX_INT256
  <2>1. CASE name = "type"
    <3>1. x = <<t.type>>
      BY <2>1 DEF Means, Content, Stored
    <3> QED BY <1>2, <1>3, <3>1
  <2>2. CASE name \in {"nonce", "gasprice", "startgas", "value", "ratio", "chainID"}
    <3>1. x = t[name]
      BY <2>2 DEF Means, Content, Stored
    <3> QED BY <1>1, <2>2, <3>1
  <2> QED BY <2>1, <2>2 DEF Integers256
<1>5. name = "to" => Len(x) <= ADDRESS_LEN
  BY DEF WellFormed, Means, Content, Stored
<1>6. name \in Integers256 \cup {"to"} => Len(x) \in Nat
  <2>1. name = "type" => x = <<t.type>>
    BY DEF Means, Content, Stored
  <2>2. name \in {"nonce", "gasprice", "startgas", "value", "ratio", "chainID", "to"} =>
           x = t[name]
    BY DEF Means, Content, Stored
  <2>3. \A field \in {"nonce", "gasprice", "startgas", "value", "ratio", "chainID", "to"} :
           t[field] \in Seq(Byte)
    BY DEF WellFormed
  <2> QED BY <1>3, <2>1, <2>2, <2>3, LenProperties DEF Integers256
<1> QED BY <1>4, <1>5, <1>6, LimitsAssumption DEF TooLong

LEMMA Fulfils ==
    ASSUME NEW bytes \in Seq(Byte), NEW t, WellFormed(t), NEW i,
           NEW p \in Nat, NEW q, NEW x, Item(bytes, p, x, q),
           Means(t, Fields(t.type)[i], x), Fields(t.type)[i] # "content"
    PROVE  Fulfilled(bytes, t, i, p, q)
<1> DEFINE name == Fields(t.type)[i]
<1>1. SizeAt(bytes, name, p) = LengthAt(bytes, p)
  BY DEF SizeAt
<1>2. Behind(bytes, name, p) = q /\ q <= Len(bytes)
  BY <1>1 DEF Behind, Item
<1>3. ~IsListAt(bytes, p) /\ ~TooLong(name, LengthAt(bytes, p))
  BY ShortEnough DEF Item
<1>4. name \in Stored => PayloadOf(bytes, p) = Content(t, name)
  BY DEF Item, Means
<1> QED BY <1>2, <1>3, <1>4 DEF Fulfilled

(* The items of all fields are there, and hold what the transaction does. *)
Whole(bytes, t) ==
    LET type == t.type
        place == PlacesOf(bytes, type)
    IN  /\ place[Len(Fields(type)) + 1] = Len(Encode(t))
        /\ \A i \in DOMAIN Fields(type) :
              \/ Absent(type, i)
              \/ /\ IsField(bytes, type, i)
                 /\ Fields(type)[i] \in Stored =>
                       PayloadOf(bytes, place[i]) = Content(t, Fields(type)[i])

LEMMA FollowsWhole ==
    ASSUME NEW bytes \in Seq(Byte), NEW t, WellFormed(t), NEW at, Follows(bytes, t, at)
    PROVE  Whole(bytes, t)
<1>1. PICK type : type = t.type
  OBVIOUS
<1>2. PICK names : names = Fields(type)
  OBVIOUS
<1>3. Supported(type)
  BY <1>1 DEF WellFormed
<1>4. PICK n \in Nat : n = Len(names) /\ DOMAIN names = 1..n
  BY <1>2, <1>3, FieldsOrderly DEF Orderly
<1>5. PICK place : place = PlacesOf(bytes, type)
  OBVIOUS
<1>6. /\ place[1] = StartOf(bytes)
      /\ \A i \in 1..n :
            place[i + 1] = IF Absent(type, i) THEN place[i]
                           ELSE Behind(bytes, names[i], place[i])
  BY <1>2, <1>3, <1>4, <1>5, Places
<1>7. /\ at[1] = StartOf(bytes) /\ at[n + 1] = Len(Encode(t))
      /\ \A i \in 1..n : IF Absent(type, i) THEN at[i + 1] = at[i]
                         ELSE Fulfilled(bytes, t, i, at[i], at[i + 1])
  BY <1>1, <1>2, <1>4 DEF Follows
<1> DEFINE S == {k \in Nat : place[k + 1] = at[k + 1]}
<1>8. 0 \in S
  BY <1>6, <1>7
<1>9. ASSUME NEW k \in 0 .. n - 1, k \in S PROVE k + 1 \in S
  <2>1. k + 1 \in 1..n /\ k + 1 \in Nat
    BY <1>4
  <2>2. place[k + 1] = at[k + 1]
    BY <1>9
  <2>3. CASE Absent(type, k + 1)
    <3>1. place[(k + 1) + 1] = place[k + 1] /\ at[(k + 1) + 1] = at[k + 1]
      BY <1>6, <1>7, <2>1, <2>3
    <3> QED BY <2>1, <2>2, <3>1
  <2>4. CASE ~Absent(type, k + 1)
    <3>1. place[(k + 1) + 1] = Behind(bytes, names[k + 1], place[k + 1])
      BY <1>6, <2>1, <2>4
    <3>2. Fulfilled(bytes, t, k + 1, at[k + 1], at[(k + 1) + 1])
      BY <1>7, <2>1, <2>4
    <3>3. Behind(bytes, names[k + 1], at[k + 1]) = at[(k + 1) + 1]
      BY <1>1, <1>2, <3>2 DEF Fulfilled
    <3> QED BY <2>1, <2>2, <3>1, <3>3
  <2> QED BY <2>3, <2>4
<1>10. \A k \in 0..n : k \in S
  <2> HIDE DEF S
  <2> QED BY <1>4, <1>8, <1>9, BoundedInduction
<1>11. ASSUME NEW i \in 1 .. n + 1 PROVE place[i] = at[i]
  <2>1. i - 1 \in 0..n /\ (i - 1) + 1 = i
    BY <1>4
  <2>2. place[(i - 1) + 1] = at[(i - 1) + 1]
    BY <1>10, <2>1
  <2> QED BY <2>1, <2>2
<1>12. place[n + 1] = Len(Encode(t))
  <2>1. n + 1 \in 1 .. n + 1
    BY <1>4
  <2> QED BY <1>7, <1>11, <2>1
<1>13. ASSUME NEW i \in 1..n, ~Absent(type, i)
       PROVE  /\ IsField(bytes, type, i)
              /\ names[i] \in Stored => PayloadOf(bytes, place[i]) = Content(t, names[i])
  <2>1. place[i] = at[i]
    <3>1. i \in 1 .. n + 1
      BY <1>4
    <3> QED BY <1>11, <3>1
  <2>2. Fulfilled(bytes, t, i, place[i], at[i + 1])
    BY <1>7, <1>13, <2>1
  <2>3. IsField(bytes, type, i)
    BY <1>1, <1>2, <1>5, <2>2 DEF Fulfilled, IsField
  <2> QED BY <1>1, <1>2, <2>2, <2>3 DEF Fulfilled
<1> QED BY <1>1, <1>2, <1>4, <1>5, <1>12, <1>13 DEF Whole

LEMMA FeeStrung ==
    ASSUME NEW bytes, NEW t, NEW q, NEW r, Strung(bytes, Fee(t), q, r)
    PROVE  IF t.type \in PartialFeeDelegated THEN Item(bytes, q, t.ratio, r) ELSE q = r
<1>1. CASE t.type \in PartialFeeDelegated
  <2>1. PICK fee : fee = <<t.ratio>>
    OBVIOUS
  <2>2. Fee(t) = fee
    BY <1>1, <2>1 DEF Fee
  <2>3. Len(fee) = 1 /\ fee[1] = t.ratio
    BY <2>1
  <2>4. PICK at : /\ at[1] = q /\ at[1 + 1] = r
                  /\ \A k \in 1..1 : Item(bytes, at[k], fee[k], at[k + 1])
    BY <2>2, <2>3 DEF Strung
  <2>5. Item(bytes, at[1], fee[1], at[1 + 1])
    BY <2>4
  <2> QED BY <1>1, <2>3, <2>4, <2>5
<1>2. CASE t.type \notin PartialFeeDelegated
  <2>1. Fee(t) = <<>>
    BY <1>2 DEF Fee
  <2>2. PICK at : at[1] = q /\ at[0 + 1] = r
    BY <2>1 DEF Strung
  <2> QED BY <1>2, <2>2
<1> QED BY <1>1, <1>2

LEMMA LegacyFollows ==
    ASSUME NEW bytes \in Seq(Byte), NEW t, WellFormed(t), t.type = LEGACY, Lies(bytes, t)
    PROVE  \E at : Follows(bytes, t, at)
<1>1. PICK lead : lead = Leading(t)
  OBVIOUS
<1>2. PICK trail : trail = Trailing(t)
  OBVIOUS
<1>3. PICK names : names = Fields(t.type)
  OBVIOUS
<1>4. /\ Len(lead) = 6 /\ Len(trail) = 3 /\ Len(names) = 9
      /\ \A i \in 1..6 : names[i + 0] \notin {"ratio", "content"} /\ Means(t, names[i + 0], lead[i])
      /\ \A i \in 1..3 : names[i + 6] \notin {"ratio", "content"} /\ Means(t, names[i + 6], trail[i])
  BY <1>1, <1>2, <1>3, OrderedLegacy DEF Lined
<1>5. PICK q \in Nat, r \in Nat :
         /\ Held(bytes, lead, StartOf(bytes), q)
         /\ Held(bytes, Fee(t), q, r)
         /\ Held(bytes, trail, r, Len(Encode(t)))
  BY <1>1, <1>2 DEF Lies, Aligned, FirstOf
<1>6. q = r
  <2>1. t.type \notin PartialFeeDelegated
    BY DEF LEGACY, PartialFeeDelegated, FirstType, Kinds
  <2> QED BY <1>5, <2>1, HeldStrung, FeeStrung
<1>7. PICK f : /\ f \in [1..7 -> Nat] /\ f[1] = StartOf(bytes) /\ f[7] = q
              /\ \A k \in 1..6 : Item(bytes, f[k], lead[k], f[k + 1])
  <2>1. Strung(bytes, lead, StartOf(bytes), q) /\ Len(lead) + 1 = 7
    BY <1>4, <1>5, HeldStrung
  <2> QED BY <1>4, <2>1 DEF Strung
<1>8. PICK h : /\ h \in [1..4 -> Nat] /\ h[1] = r /\ h[4] = Len(Encode(t))
              /\ \A k \in 1..3 : Item(bytes, h[k], trail[k], h[k + 1])
  <2>1. Strung(bytes, trail, r, Len(Encode(t))) /\ Len(trail) + 1 = 4
    BY <1>4, <1>5, HeldStrung
  <2> QED BY <1>4, <2>1 DEF Strung
<1> DEFINE at == [i \in 1..10 |-> IF i <= 6 THEN f[i] ELSE h[i - 6]]
<1>9. at \in [1..10 -> Nat]
  <2>1. ASSUME NEW i \in 1..10 PROVE at[i] \in Nat
    <3>1. i <= 6 => i \in 1..7
      OBVIOUS
    <3>2. ~(i <= 6) => i - 6 \in 1..4
      OBVIOUS
    <3>3. at[i] = IF i <= 6 THEN f[i] ELSE h[i - 6]
      OBVIOUS
    <3> HIDE DEF at
    <3> QED BY <1>7, <1>8, <3>1, <3>2, <3>3
  <2> QED BY <2>1
<1>10. /\ \A i \in 1..7 : at[i] = f[i]
       /\ \A i \in 1..4 : at[i + 6] = h[i]
  <2>1. ASSUME NEW i \in 1..7 PROVE at[i] = f[i]
    <3>1. CASE i <= 6
      BY <3>1
    <3>2. CASE ~(i <= 6)
      <4>1. i = 7
        BY <3>2
      <4>2. at[7] = h[1]
        OBVIOUS
      <4> QED BY <1>6, <1>7, <1>8, <4>1, <4>2
    <3> QED BY <3>1, <3>2
  <2>2. ASSUME NEW i \in 1..4 PROVE at[i + 6] = h[i]
    <3>1. i + 6 \in 1..10 /\ ~(i + 6 <= 6) /\ (i + 6) - 6 = i
      OBVIOUS
    <3> QED BY <3>1
  <2> QED BY <2>1, <2>2
<1> HIDE DEF at
<1>11. ASSUME NEW i \in 1..9
       PROVE  ~Absent(t.type, i) /\ Fulfilled(bytes, t, i, at[i], at[i + 1])
  <2>1. CASE i <= 6
    <3>1. i \in 1..6 /\ i \in 1..7 /\ i + 1 \in 1..7 /\ i + 0 = i
      BY <2>1
    <3>2. Item(bytes, at[i], lead[i], at[i + 1])
      BY <1>7, <1>10, <3>1
    <3>3. names[i] \notin {"ratio", "content"} /\ Means(t, names[i], lead[i])
      BY <1>4, <3>1
    <3>4. PICK o \in Nat : o = at[i]
      <4>1. i \in 1..10
        OBVIOUS
      <4> QED BY <1>9, <4>1
    <3>5. Fulfilled(bytes, t, i, o, at[i + 1])
      BY <1>3, <3>2, <3>3, <3>4, Fulfils, Zenon
    <3> QED BY <1>3, <3>3, <3>4, <3>5 DEF Absent
  <2>2. CASE ~(i <= 6)
    <3>1. PICK j \in 1..3 : i = j + 6
      <4>1. i - 6 \in 1..3 /\ i = (i - 6) + 6
        BY <2>2
      <4> QED BY <4>1
    <3>2. j \in 1..4 /\ j + 1 \in 1..4 /\ i + 1 = (j + 1) + 6
      BY <3>1
    <3>3. Item(bytes, at[i], trail[j], at[i + 1])
      BY <1>8, <1>10, <3>1, <3>2
    <3>4. names[i] \notin {"ratio", "content"} /\ Means(t, names[i], trail[j])
      BY <1>4, <3>1
    <3>5. PICK o \in Nat : o = at[i]
      <4>1. i \in 1..10
        OBVIOUS
      <4> QED BY <1>9, <4>1
    <3>6. Fulfilled(bytes, t, i, o, at[i + 1])
      BY <1>3, <3>3, <3>4, <3>5, Fulfils, Zenon
    <3> QED BY <1>3, <3>4, <3>5, <3>6 DEF Absent
  <2> QED BY <2>1, <2>2
<1>12. at[1] = StartOf(bytes) /\ at[10] = Len(Encode(t))
  <2>1. 1 \in 1..7 /\ 4 \in 1..4 /\ 4 + 6 = 10
    OBVIOUS
  <2>2. at[1] = f[1]
    BY <1>10, <2>1
  <2>3. at[10] = h[4]
    BY <1>10, <2>1
  <2> QED BY <1>7, <1>8, <2>2, <2>3
<1>13. Follows(bytes, t, at)
  <2>1. Len(names) + 1 = 10
    BY <1>4
  <2> QED BY <1>3, <1>4, <1>9, <1>11, <1>12, <2>1 DEF Follows
<1> QED BY <1>13

LEMMA TypedFollows ==
    ASSUME NEW bytes \in Seq(Byte), NEW t, WellFormed(t), t.type # LEGACY, Lies(bytes, t)
    PROVE  \E at : Follows(bytes, t, at)
<1>1. PICK lead \in Seq(ByteStrings) : lead = Leading(t)
  BY LeadsWith
<1>2. PICK trail \in Seq(ByteStrings) : trail = Trailing(t)
  BY Feeds
<1>3. PICK m \in Nat, l \in Nat : m = Len(lead) /\ l = Len(trail)
  BY <1>1, <1>2, LenProperties
<1>4. PICK names : names = Fields(t.type)
  OBVIOUS
<1>5. /\ Len(names) = (m + 2) + l /\ names[1] = "content" /\ names[m + 2] = "ratio"
      /\ \A i \in 1..m : names[i + 1] \notin {"ratio", "content"} /\ Means(t, names[i + 1], lead[i])
      /\ \A i \in 1..l :
            names[i + (m + 2)] \notin {"ratio", "content"} /\ Means(t, names[i + (m + 2)], trail[i])
  BY <1>1, <1>2, <1>3, <1>4, Ordered DEF Lined
<1>6. PICK s \in Nat : s = StartOf(bytes)
  BY StartPlace
<1>7. HasHeader(bytes, s) /\ IsListAt(bytes, s)
  BY <1>6 DEF Lies
<1>8. PICK q \in Nat, r \in Nat :
         /\ Held(bytes, lead, PayloadAt(bytes, s), q)
         /\ Held(bytes, Fee(t), q, r)
         /\ Held(bytes, trail, r, Len(Encode(t)))
  BY <1>1, <1>2, <1>6 DEF Lies, Aligned, FirstOf
<1>9. IF t.type \in PartialFeeDelegated THEN Item(bytes, q, t.ratio, r) ELSE q = r
  BY <1>8, HeldStrung, FeeStrung
<1>10. PICK f : /\ f \in [1 .. m + 1 -> Nat] /\ f[1] = PayloadAt(bytes, s) /\ f[m + 1] = q
               /\ \A k \in 1..m : Item(bytes, f[k], lead[k], f[k + 1])
  <2>1. Strung(bytes, lead, PayloadAt(bytes, s), q)
    BY <1>8, HeldStrung
  <2> QED BY <1>3, <2>1 DEF Strung
<1>11. PICK h : /\ h \in [1 .. l + 1 -> Nat] /\ h[1] = r /\ h[l + 1] = Len(Encode(t))
               /\ \A k \in 1..l : Item(bytes, h[k], trail[k], h[k + 1])
  <2>1. Strung(bytes, trail, r, Len(Encode(t)))
    BY <1>8, HeldStrung
  <2> QED BY <1>3, <2>1 DEF Strung
<1>12. PICK n \in Nat : n = (m + 2) + l
  OBVIOUS
<1> DEFINE at == [i \in 1 .. n + 1 |->
                     IF i = 1 THEN s ELSE IF i <= m + 2 THEN f[i - 1] ELSE h[i - (m + 2)]]
<1>13. at \in [1 .. n + 1 -> Nat]
  <2>1. ASSUME NEW i \in 1 .. n + 1 PROVE at[i] \in Nat
    <3>1. i # 1 /\ i <= m + 2 => i - 1 \in 1 .. m + 1
      BY <1>3, <1>12
    <3>2. ~(i <= m + 2) => i - (m + 2) \in 1 .. l + 1
      BY <1>3, <1>12
    <3>3. at[i] = IF i = 1 THEN s ELSE IF i <= m + 2 THEN f[i - 1] ELSE h[i - (m + 2)]
      OBVIOUS
    <3> HIDE DEF at
    <3> QED BY <1>6, <1>10, <1>11, <3>1, <3>2, <3>3
  <2> QED BY <2>1
<1>14. at[1] = s
  <2>1. 1 \in 1 .. n + 1
    BY <1>12
  <2> QED BY <2>1
<1>15. ASSUME NEW i \in 1 .. m + 1 PROVE at[i + 1] = f[i]
  <2>1. i + 1 \in 1 .. n + 1 /\ i + 1 # 1 /\ i + 1 <= m + 2 /\ (i + 1) - 1 = i
    BY <1>3, <1>12
  <2> QED BY <2>1
<1>16. ASSUME NEW i \in 1 .. l + 1 PROVE at[i + (m + 2)] = h[i]
  <2>1. /\ i + (m + 2) \in 1 .. n + 1 /\ i + (m + 2) # 1 /\ ~(i + (m + 2) <= m + 2)
        /\ (i + (m + 2)) - (m + 2) = i
    BY <1>3, <1>12
  <2> QED BY <2>1
<1> HIDE DEF at
<1>17. Fulfilled(bytes, t, 1, at[1], at[1 + 1]) /\ ~Absent(t.type, 1)
  <2>1. 1 \in 1 .. m + 1
    BY <1>3
  <2>2. at[1 + 1] = PayloadAt(bytes, s)
    BY <1>10, <1>15, <2>1
  <2>3. PICK p \in Nat : p = PayloadAt(bytes, s) /\ p <= Len(bytes) /\ p + 0 = p
    BY <1>6, <1>7, PayloadPlace
  <2>4. SizeAt(bytes, "content", s) = 0
    BY DEF SizeAt
  <2>5. Behind(bytes, "content", s) = p
    BY <1>7, <2>3, <2>4 DEF Behind
  <2>6. ~TooLong("content", LengthAt(bytes, s)) /\ "content" \notin Stored
    BY DEF TooLong, Integers256, Stored
  <2> QED BY <1>4, <1>5, <1>7, <1>14, <2>2, <2>3, <2>5, <2>6 DEF Fulfilled, Absent
<1>18. ASSUME NEW k \in 1..m
       PROVE  Fulfilled(bytes, t, k + 1, at[k + 1], at[(k + 1) + 1]) /\ ~Absent(t.type, k + 1)
  <2>1. k \in 1 .. m + 1 /\ k + 1 \in 1 .. m + 1
    BY <1>3
  <2>2. at[k + 1] = f[k] /\ at[(k + 1) + 1] = f[k + 1]
    BY <1>15, <2>1
  <2>3. PICK o \in Nat : o = f[k]
    BY <1>10, <2>1
  <2>4. Item(bytes, o, lead[k], f[k + 1])
    BY <1>10, <2>3
  <2>5. names[k + 1] \notin {"ratio", "content"} /\ Means(t, names[k + 1], lead[k])
    BY <1>5
  <2>6. Fulfilled(bytes, t, k + 1, o, f[k + 1])
    BY <1>4, <2>3, <2>4, <2>5, Fulfils, Zenon
  <2> QED BY <1>4, <2>2, <2>3, <2>5, <2>6 DEF Absent
<1>19. IF Absent(t.type, m + 2) THEN at[(m + 2) + 1] = at[m + 2]
       ELSE Fulfilled(bytes, t, m + 2, at[m + 2], at[(m + 2) + 1])
  <2>1. m + 1 \in 1 .. m + 1 /\ 1 \in 1 .. l + 1 /\ (m + 1) + 1 = m + 2
        /\ 1 + (m + 2) = (m + 2) + 1
    BY <1>3
  <2>2. at[m + 2] = q
    BY <1>10, <1>15, <2>1
  <2>3. at[(m + 2) + 1] = r
    BY <1>11, <1>16, <2>1
  <2>4. Absent(t.type, m + 2) <=> t.type \notin PartialFeeDelegated
    BY <1>4, <1>5 DEF Absent
  <2>5. CASE t.type \in PartialFeeDelegated
    <3>1. Item(bytes, q, t.ratio, r)
      BY <1>9, <2>5
    <3>2. Means(t, names[m + 2], t.ratio) /\ names[m + 2] # "content"
      BY <1>5 DEF Means, Content
    <3>3. Fulfilled(bytes, t, m + 2, q, r)
      BY <1>4, <1>8, <3>1, <3>2, Fulfils, Zenon
    <3> QED BY <2>2, <2>3, <2>4, <2>5, <3>3
  <2>6. CASE t.type \notin PartialFeeDelegated
    BY <1>9, <2>2, <2>3, <2>4, <2>6
  <2> QED BY <2>5, <2>6
<1>20. ASSUME NEW k \in 1..l
       PROVE  /\ Fulfilled(bytes, t, k + (m + 2), at[k + (m + 2)], at[(k + (m + 2)) + 1])
              /\ ~Absent(t.type, k + (m + 2))
  <2>1. k \in 1 .. l + 1 /\ k + 1 \in 1 .. l + 1 /\ (k + 1) + (m + 2) = (k + (m + 2)) + 1
    BY <1>3
  <2>2. at[k + (m + 2)] = h[k] /\ at[(k + (m + 2)) + 1] = h[k + 1]
    BY <1>16, <2>1
  <2>3. PICK o \in Nat : o = h[k]
    BY <1>11, <2>1
  <2>4. Item(bytes, o, trail[k], h[k + 1])
    BY <1>11, <2>3
  <2>5. names[k + (m + 2)] \notin {"ratio", "content"} /\ Means(t, names[k + (m + 2)], trail[k])
    BY <1>5
  <2>6. Fulfilled(bytes, t, k + (m + 2), o, h[k + 1])
    BY <1>4, <2>3, <2>4, <2>5, Fulfils, Zenon
  <2> QED BY <1>4, <2>2, <2>3, <2>5, <2>6 DEF Absent
<1>21. ASSUME NEW i \in 1..n
       PROVE  IF Absent(t.type, i) THEN at[i + 1] = at[i]
              ELSE Fulfilled(bytes, t, i, at[i], at[i + 1])
  <2>1. \/ i = 1 \/ \E k \in 1..m : i = k + 1
        \/ i = m + 2 \/ \E k \in 1..l : i = k + (m + 2)
    <3>1. CASE i = 1
      BY <3>1
    <3>2. CASE i > 1 /\ i < m + 2
      <4>1. i - 1 \in 1..m /\ i = (i - 1) + 1
        BY <1>3, <3>2
      <4> QED BY <4>1
    <3>3. CASE i = m + 2
      BY <3>3
    <3>4. CASE i > m + 2
      <4>1. i - (m + 2) \in 1..l /\ i = (i - (m + 2)) + (m + 2)
        BY <1>3, <1>12, <3>4
      <4> QED BY <4>1
    <3> QED BY <1>3, <3>1, <3>2, <3>3, <3>4
  <2> QED BY <1>17, <1>18, <1>19, <1>20, <2>1, Zenon
<1>22. at[n + 1] = Len(Encode(t))
  <2>1. l + 1 \in 1 .. l + 1 /\ (l + 1) + (m + 2) = n + 1
    BY <1>3, <1>12
  <2> QED BY <1>11, <1>16, <2>1
<1>23. Follows(bytes, t, at)
  <2>1. Len(names) = n
    BY <1>5, <1>12
  <2> QED BY <1>4, <1>6, <1>13, <1>14, <1>21, <1>22, <2>1 DEF Follows
<1> QED BY <1>23

LEMMA EncodedWhole ==
    ASSUME NEW bytes \in Seq(Byte), NEW t, WellFormed(t), Carries(bytes, 0, Encode(t))
    PROVE  Lies(bytes, t) /\ Whole(bytes, t)
<1>1. Lies(bytes, t)
  BY EncodedLies
<1>2. \E at : Follows(bytes, t, at)
  BY <1>1, LegacyFollows, TypedFollows
<1>3. Whole(bytes, t)
  BY <1>2, FollowsWhole
<1> QED BY <1>1, <1>3

(* What tells the type. *)
LEMMA EncodedType ==
    ASSUME NEW bytes \in Seq(Byte), NEW t, WellFormed(t), Lies(bytes, t)
    PROVE  TypeOf(bytes) = t.type
<1>1. CASE t.type = LEGACY
  BY <1>1 DEF Lies, TypeOf
<1>2. CASE t.type # LEGACY
  <2>1. PICK lead : lead = Leading(t)
    OBVIOUS
  <2>2. PICK p \in Nat : p = PayloadAt(bytes, StartOf(bytes))
    BY StartPlace, PayloadPlace
  <2>3. PICK q : Held(bytes, lead, p, q)
    BY <1>2, <2>1, <2>2 DEF Lies, Aligned, FirstOf
  <2>4. Spans(bytes, Strings(lead), p, q)
    BY <2>3 DEF Held
  <2>5. lead \in Seq(Seq(Byte)) /\ Len(lead) # 0
    BY <2>1, LeadsWith DEF ByteStrings
  <2>6. PICK x : x = lead[1]
    OBVIOUS
  <2>7. x = <<t.type>>
    BY <1>2, <2>1, <2>6, LeadsWith
  <2>8. Len(x) = 1 /\ x[1] = t.type /\ x[1] <= 127
    <3>1. t.type \in Nat /\ t.type <= 58
      BY <1>2, SmallTypes DEF WellFormed
    <3> QED BY <2>7, <3>1
  <2>9. ByteAt(bytes, p) = x[1]
    BY <2>2, <2>4, <2>5, <2>6, <2>8, FirstLaid, Zenon
  <2> QED BY <1>2, <2>2, <2>8, <2>9 DEF Lies, TypeOf
<1> QED BY <1>1, <1>2

LEMMA EncodedDecodable ==
    ASSUME NEW bytes \in Seq(Byte), NEW t, WellFormed(t), Carries(bytes, 0, Encode(t))
    PROVE  Decodable(bytes)
<1>1. Lies(bytes, t) /\ Whole(bytes, t) /\ TypeOf(bytes) = t.type
  BY EncodedWhole, EncodedType
<1>2. HasHeader(bytes, 0) /\ HasHeader(bytes, PayloadAt(bytes, 0))
  BY <1>1 DEF Lies
<1>3. \A i \in DOMAIN Fields(t.type) : Absent(t.type, i) \/ IsField(bytes, t.type, i)
  BY <1>1 DEF Whole
<1>4. Supported(t.type)
  BY DEF WellFormed
<1> QED BY <1>1, <1>2, <1>3, <1>4 DEF Decodable

(* A transaction encoded as doc/TRANSACTION.md says is accepted by
   transaction_deserialize, whatever it holds and whatever bytes follow it: every
   transaction of every type that is not longer than a device can hold. *)
THEOREM EncodedAccepted == Spec => []EncodedIsAccepted
<1>1. ASSUME ParserInv, DecodableIsAccepted PROVE EncodedIsAccepted
  <2>1. SUFFICES ASSUME status \notin {"running", "OK"}, NEW t \in Originals,
                        IsPrefix(Encoding[t], raw)
                 PROVE  FALSE
    BY DEF EncodedIsAccepted
  <2>2. WellFormed(t) /\ Encoding[t] = Encode(t)
    BY OriginalsAssumption DEF Encoding
  <2>3. Encode(t) \in Seq(Byte)
    BY <2>2, EncodeBytes
  <2>4. raw \in Seq(Byte)
    BY <1>1 DEF ParserInv
  <2>5. Carries(raw, 0, Encode(t))
    BY <2>1, <2>2, <2>3, <2>4, CarriesWhole
  <2>6. Decodable(raw)
    BY <2>2, <2>4, <2>5, EncodedDecodable
  <2> QED BY <1>1, <2>1, <2>6 DEF DecodableIsAccepted
<1> QED
  BY <1>1, Invariance, RefusesNothingWhole, PTL

------------------------------------------------------------------------------
(* What is read of bytes that others begin with. *)

LEMMA SamePart ==
    ASSUME NEW bytes \in Seq(Byte), NEW part \in Seq(Byte), Carries(bytes, 0, part),
           NEW p \in Nat, NEW n \in Nat, p + n <= Len(part)
    PROVE  SubSeq(part, p + 1, p + n) = SubSeq(bytes, p + 1, p + n)
<1>1. PICK r : r = SubSeq(part, p + 1, p + n)
  OBVIOUS
<1>2. r \in Seq(Byte) /\ Len(r) = n
  BY <1>1, BytesPart
<1>3. \A k \in 1..n : r[k] = part[p + k]
  BY <1>1, LenProperties, SubSeqProperties
<1>4. /\ Len(part) <= Len(bytes) /\ Len(part) \in Nat /\ Len(bytes) \in Nat
      /\ \A k \in 1..Len(part) : bytes[0 + k] = part[k]
  BY LenProperties DEF Carries
<1>5. ASSUME NEW k \in 1..n PROVE bytes[p + k] = r[k]
  <2>1. p + k \in 1..Len(part) /\ 0 + (p + k) = p + k
    BY <1>4
  <2>2. bytes[p + k] = part[p + k]
    BY <1>4, <2>1
  <2> QED BY <1>3, <2>2
<1>6. p + Len(r) <= Len(bytes)
  BY <1>2, <1>4
<1>7. Carries(bytes, p, r)
  BY <1>2, <1>5, <1>6 DEF Carries
<1>8. SubSeq(bytes, p + 1, p + n) = r
  BY <1>2, <1>7, CarriedPart
<1> QED BY <1>1, <1>8

LEMMA SameByte ==
    ASSUME NEW bytes \in Seq(Byte), NEW part \in Seq(Byte), Carries(bytes, 0, part),
           NEW p \in Nat, p < Len(part)
    PROVE  /\ ByteAt(bytes, p) = ByteAt(part, p)
           /\ PayloadAt(bytes, p) = PayloadAt(part, p)
           /\ IsListAt(bytes, p) <=> IsListAt(part, p)
<1>1. /\ Len(part) <= Len(bytes) /\ Len(part) \in Nat /\ Len(bytes) \in Nat
      /\ \A k \in 1..Len(part) : bytes[0 + k] = part[k]
  BY LenProperties DEF Carries
<1>2. p + 1 \in 1..Len(part) /\ p < Len(bytes) /\ 0 + (p + 1) = p + 1
  BY <1>1
<1>3. bytes[p + 1] = part[p + 1]
  BY <1>1, <1>2
<1>4. ByteAt(bytes, p) = ByteAt(part, p)
  BY <1>2, <1>3 DEF ByteAt
<1> QED BY <1>4 DEF PayloadAt, IsListAt

LEMMA SameItem ==
    ASSUME NEW bytes \in Seq(Byte), NEW part \in Seq(Byte), Carries(bytes, 0, part),
           NEW p \in Nat, HasHeader(part, p)
    PROVE  /\ HasHeader(bytes, p)
           /\ PayloadAt(bytes, p) = PayloadAt(part, p)
           /\ LengthAt(bytes, p) = LengthAt(part, p)
           /\ IsListAt(bytes, p) <=> IsListAt(part, p)
           /\ PayloadAt(part, p) + LengthAt(part, p) <= Len(part) =>
                 PayloadOf(bytes, p) = PayloadOf(part, p)
<1>1. p < Len(part)
  BY PayloadPlace
<1>2. /\ ByteAt(bytes, p) = ByteAt(part, p)
      /\ PayloadAt(bytes, p) = PayloadAt(part, p)
      /\ IsListAt(bytes, p) <=> IsListAt(part, p)
  BY <1>1, SameByte
<1>3. PICK size \in 1..5 : size = HeaderLen(ByteAt(part, p)) /\ p + size <= Len(part)
  BY HeaderParts DEF HasHeader
<1>4. Len(part) <= Len(bytes) /\ Len(part) \in Nat /\ Len(bytes) \in Nat
  BY LenProperties DEF Carries
<1>5. HasHeader(bytes, p)
  BY <1>2, <1>3, <1>4 DEF HasHeader, RLP_BUFFER
<1>6. HeaderAt(bytes, p) = HeaderAt(part, p)
  <2>1. size \in Nat
    BY <1>3
  <2>2. SubSeq(part, p + 1, p + size) = SubSeq(bytes, p + 1, p + size)
    BY <1>3, <2>1, SamePart
  <2> QED BY <1>2, <1>3, <2>2 DEF HeaderAt
<1>7. LengthAt(bytes, p) = LengthAt(part, p)
  BY <1>6 DEF LengthAt
<1>8. PayloadAt(part, p) \in Nat /\ LengthAt(part, p) \in Nat
  BY PayloadPlace, HeaderParts
<1>9. PayloadAt(part, p) + LengthAt(part, p) <= Len(part) =>
         PayloadOf(bytes, p) = PayloadOf(part, p)
  <2>1. PICK a \in Nat : a = PayloadAt(part, p)
    BY <1>8
  <2>2. PICK n \in Nat : n = LengthAt(part, p)
    BY <1>8
  <2>3. a + n <= Len(part) => SubSeq(part, a + 1, a + n) = SubSeq(bytes, a + 1, a + n)
    BY <2>1, <2>2, SamePart
  <2> QED BY <1>2, <1>7, <2>1, <2>2, <2>3 DEF PayloadOf
<1> QED BY <1>2, <1>5, <1>7, <1>9

LEMMA SameStart ==
    ASSUME NEW bytes \in Seq(Byte), NEW part \in Seq(Byte), Carries(bytes, 0, part),
           StartOf(part) < Len(part)
    PROVE  StartOf(bytes) = StartOf(part)
<1>1. PICK p \in Nat : p = PayloadAt(part, 0)
  BY PayloadPlace
<1>2. PICK s \in Nat : s = StartOf(part)
  BY StartPlace
<1>3. s = PayloadAt(part, p) /\ p <= s
  BY <1>1, <1>2, PayloadPlace DEF StartOf
<1>4. 0 < Len(part) /\ p < Len(part)
  BY <1>2, <1>3, LenProperties
<1>5. PayloadAt(bytes, 0) = p
  BY <1>1, <1>4, SameByte
<1>6. PayloadAt(bytes, p) = s
  BY <1>3, <1>4, SameByte
<1> QED BY <1>2, <1>5, <1>6 DEF StartOf

LEMMA SamePlaces ==
    ASSUME NEW bytes \in Seq(Byte), NEW part \in Seq(Byte), Carries(bytes, 0, part),
           StartOf(bytes) = StartOf(part), NEW type, Supported(type),
           NEW n \in Nat, n <= Len(Fields(type)),
           \A i \in 1..n : Absent(type, i) \/ IsField(part, type, i)
    PROVE  \A i \in 1 .. n + 1 : PlacesOf(bytes, type)[i] = PlacesOf(part, type)[i]
<1>1. PICK names : names = Fields(type)
  OBVIOUS
<1>2. PICK m \in Nat : m = Len(names) /\ DOMAIN names = 1..m
  BY <1>1, FieldsOrderly DEF Orderly
<1>3. PICK f : f = PlacesOf(bytes, type)
  OBVIOUS
<1>4. PICK g : g = PlacesOf(part, type)
  OBVIOUS
<1>5. /\ f[1] = StartOf(bytes)
      /\ \A i \in 1..m : f[i + 1] = IF Absent(type, i) THEN f[i]
                                   ELSE Behind(bytes, names[i], f[i])
  BY <1>1, <1>2, <1>3, Places
<1>6. /\ g[1] = StartOf(part)
      /\ \A i \in 1..m : g[i + 1] = IF Absent(type, i) THEN g[i]
                                   ELSE Behind(part, names[i], g[i])
  BY <1>1, <1>2, <1>4, Places
<1> DEFINE S == {k \in Nat : f[k + 1] = g[k + 1]}
<1>7. 0 \in S
  BY <1>5, <1>6
<1>8. ASSUME NEW k \in 0 .. n - 1, k \in S PROVE k + 1 \in S
  <2>1. k + 1 \in 1..n /\ k + 1 \in 1..m /\ k + 1 \in Nat
    BY <1>1, <1>2
  <2>2. PICK i \in 1..m : i = k + 1 /\ i \in 1..n
    BY <2>1
  <2>3. f[i] = g[i]
    BY <1>8, <2>2
  <2>4. f[i + 1] = g[i + 1]
    <3>1. CASE Absent(type, i)
      BY <1>5, <1>6, <2>2, <2>3, <3>1
    <3>2. CASE ~Absent(type, i)
      <4>1. IsField(part, type, i)
        BY <2>2, <3>2
      <4>2. PICK p : p = g[i]
        OBVIOUS
      <4>3. /\ p \in Nat /\ HasHeader(part, p)
            /\ PayloadAt(part, p) + SizeAt(part, names[i], p) <= Len(part)
            /\ Behind(part, names[i], p) = PayloadAt(part, p) + SizeAt(part, names[i], p)
        BY <1>1, <1>2, <1>4, <2>2, <4>1, <4>2, ItemThere
      <4>4. /\ HasHeader(bytes, p) /\ PayloadAt(bytes, p) = PayloadAt(part, p)
            /\ LengthAt(bytes, p) = LengthAt(part, p)
        BY <4>3, SameItem
      <4>5. SizeAt(bytes, names[i], p) = SizeAt(part, names[i], p)
        BY <4>4 DEF SizeAt
      <4>6. PICK z \in Nat : z = PayloadAt(part, p) + SizeAt(part, names[i], p)
        <5>1. PayloadAt(part, p) \in Nat
          BY <4>3, PayloadPlace
        <5>2. SizeAt(part, names[i], p) \in Nat
          BY <4>3, HeaderParts DEF SizeAt
        <5> QED BY <5>1, <5>2
      <4>7. z <= Len(bytes)
        BY <4>3, <4>6, LenProperties DEF Carries
      <4>8. Behind(bytes, names[i], p) = z
        BY <4>4, <4>5, <4>6, <4>7 DEF Behind
      <4> QED BY <1>5, <1>6, <2>2, <2>3, <3>2, <4>2, <4>3, <4>6, <4>8
    <3> QED BY <3>1, <3>2
  <2> QED BY <2>1, <2>2, <2>4
<1>9. \A k \in 0..n : k \in S
  <2> HIDE DEF S
  <2> QED BY <1>7, <1>8, BoundedInduction
<1>10. ASSUME NEW i \in 1 .. n + 1 PROVE f[i] = g[i]
  <2>1. i - 1 \in 0..n /\ (i - 1) + 1 = i
    OBVIOUS
  <2>2. f[(i - 1) + 1] = g[(i - 1) + 1]
    BY <1>9, <2>1
  <2> QED BY <2>1, <2>2
<1> QED BY <1>3, <1>4, <1>10

LEMMA FieldRead ==
    ASSUME NEW bytes \in Seq(Byte), NEW part \in Seq(Byte), Carries(bytes, 0, part),
           StartOf(bytes) = StartOf(part), NEW type, Supported(type),
           NEW i \in DOMAIN Fields(type), Fields(type)[i] # "content",
           \A j \in 1 .. i - 1 : Absent(type, j) \/ IsField(part, type, j),
           IsField(part, type, i),
           NEW p, p = PlacesOf(part, type)[i]
    PROVE  /\ PlacesOf(bytes, type)[i] = p
           /\ PayloadOf(bytes, p) = PayloadOf(part, p)
           /\ Len(PayloadOf(part, p)) = LengthAt(part, p)
<1>1. i \in 1..Len(Fields(type)) /\ Len(Fields(type)) \in Nat
  BY FieldsOrderly DEF Orderly
<1>2. PICK n \in Nat : n = i - 1
  BY <1>1
<1>3. n <= Len(Fields(type)) /\ i \in 1 .. n + 1
  BY <1>1, <1>2
<1>4. \A j \in 1 .. n + 1 : PlacesOf(bytes, type)[j] = PlacesOf(part, type)[j]
  BY <1>2, <1>3, SamePlaces
<1>5. PlacesOf(bytes, type)[i] = p
  BY <1>3, <1>4
<1>6. PICK name : name = Fields(type)[i]
  OBVIOUS
<1>7. /\ p \in Nat /\ HasHeader(part, p)
      /\ PayloadAt(part, p) + LengthAt(part, p) <= Len(part)
  BY <1>6, ItemThere DEF SizeAt
<1>8. PayloadOf(bytes, p) = PayloadOf(part, p)
  BY <1>7, SameItem
<1>9. Len(PayloadOf(part, p)) = LengthAt(part, p)
  <2>1. PICK a \in Nat : a = PayloadAt(part, p)
    BY <1>7, PayloadPlace
  <2>2. PICK l \in Nat : l = LengthAt(part, p)
    BY <1>7, HeaderParts
  <2>3. PICK x : x = SubSeq(part, a + 1, a + l)
    OBVIOUS
  <2>4. Len(x) = l
    BY <1>7, <2>1, <2>2, <2>3, BytesPart
  <2> QED BY <2>1, <2>2, <2>3, <2>4 DEF PayloadOf
<1> QED BY <1>5, <1>8, <1>9

(* The list that holds the other fields tells the others from a legacy transaction. *)
LEMMA LiesList ==
    ASSUME NEW bytes \in Seq(Byte), NEW t, Lies(bytes, t)
    PROVE  IsListAt(bytes, StartOf(bytes)) <=> t.type # LEGACY
<1>1. CASE t.type # LEGACY
  BY <1>1 DEF Lies
<1>2. CASE t.type = LEGACY
  <2>1. PICK p \in Nat : p = PayloadAt(bytes, 0)
    BY PayloadPlace
  <2>2. IsSingle(ByteAt(bytes, p)) /\ HasHeader(bytes, p)
    BY <1>2, <2>1 DEF Lies
  <2>3. ~IsListAt(bytes, p)
    BY <2>2, SingleItem
  <2>4. StartOf(bytes) = p
    BY <2>1, <2>2 DEF StartOf, PayloadAt
  <2> QED BY <1>2, <2>3, <2>4
<1> QED BY <1>1, <1>2

(* The first field is read. *)
LEMMA FirstRead ==
    ASSUME NEW part \in Seq(Byte), NEW type, Supported(type), IsField(part, type, 1)
    PROVE  /\ StartOf(part) \in Nat /\ StartOf(part) < Len(part)
           /\ HasHeader(part, StartOf(part))
           /\ IsListAt(part, StartOf(part)) <=> type # LEGACY
<1>1. PlacesOf(part, type)[1] = StartOf(part)
  BY Places
<1>2. 1 \in DOMAIN Fields(type) /\ (Fields(type)[1] = "content" <=> type # LEGACY)
  BY FirstNames
<1>3. /\ StartOf(part) \in Nat /\ StartOf(part) < Len(part)
      /\ HasHeader(part, StartOf(part))
  BY <1>1, <1>2, ItemThere
<1>4. IsListAt(part, StartOf(part)) <=> type # LEGACY
  BY <1>1, <1>2 DEF IsField
<1> QED BY <1>3, <1>4

(* What the item of a field says is what the transaction has for it. *)
LEMMA TypeRead ==
    ASSUME NEW bytes \in Seq(Byte), NEW part \in Seq(Byte), Carries(bytes, 0, part),
           NEW t, WellFormed(t), Lies(bytes, t), Whole(bytes, t),
           NEW u, IsDecodedFrom(u, part)
    PROVE  u.txType = t.type /\ StartOf(bytes) = StartOf(part)
<1>1. PICK type : type = u.txType
  OBVIOUS
<1>2. Supported(type)
  BY <1>1 DEF IsDecodedFrom
<1>3. \/ \A i \in DOMAIN Fields(type) :
            Absent(type, i) \/ (IsField(part, type, i) /\ Says(u, part, i))
      \/ type = LEGACY /\ \A i \in 1..6 : IsField(part, type, i)
  BY <1>1 DEF IsDecodedFrom, LEGACY_RLP_CHAIN_ID
<1>4. IsField(part, type, 1)
  BY <1>2, <1>3, FirstNames
<1>5. PICK s \in Nat : s = StartOf(part) /\ s < Len(part)
  BY <1>2, <1>4, FirstRead
<1>6. HasHeader(part, s) /\ (IsListAt(part, s) <=> type # LEGACY)
  BY <1>2, <1>4, <1>5, FirstRead
<1>7. StartOf(bytes) = s
  BY <1>5, SameStart
<1>8. IsListAt(bytes, s) <=> IsListAt(part, s)
  BY <1>5, SameByte
<1>9. type = LEGACY <=> t.type = LEGACY
  BY <1>6, <1>7, <1>8, LiesList
<1>10. CASE type = LEGACY
  BY <1>1, <1>5, <1>7, <1>9, <1>10
<1>11. CASE type # LEGACY
  <2>1. IsField(part, type, 2) /\ Says(u, part, 2)
    BY <1>2, <1>3, <1>11, FirstNames
  <2>2. PICK p : p = PlacesOf(part, type)[2]
    OBVIOUS
  <2>3. PayloadOf(part, p) = <<type>>
    BY <1>1, <1>2, <1>11, <2>1, <2>2, FirstNames DEF Says
  <2>4. PlacesOf(bytes, type)[2] = p /\ PayloadOf(bytes, p) = PayloadOf(part, p)
    <3>1. 2 \in DOMAIN Fields(type) /\ Fields(type)[2] # "content"
      BY <1>2, <1>11, FirstNames
    <3>2. \A j \in 1 .. 2 - 1 : Absent(type, j) \/ IsField(part, type, j)
      BY <1>4
    <3> QED BY <1>2, <1>5, <1>7, <2>1, <2>2, <3>1, <3>2, FieldRead
  <2>5. PlacesOf(bytes, type)[2] = Behind(bytes, "content", s)
    <3>1. 1 \in DOMAIN Fields(type) /\ ~Absent(type, 1) /\ Fields(type)[1] = "content"
      BY <1>2, <1>11, FirstNames
    <3>2. PlacesOf(bytes, type)[1 + 1] = Behind(bytes, "content", PlacesOf(bytes, type)[1])
      BY <1>2, <3>1, Places
    <3> QED BY <1>2, <1>7, <3>2, Places
  <2>6. Supported(t.type)
    BY DEF WellFormed
  <2>7. PlacesOf(bytes, t.type)[2] = Behind(bytes, "content", s)
    <3>1. /\ 1 \in DOMAIN Fields(t.type) /\ ~Absent(t.type, 1)
          /\ Fields(t.type)[1] = "content"
      BY <1>9, <1>11, <2>6, FirstNames
    <3>2. PlacesOf(bytes, t.type)[1 + 1] =
             Behind(bytes, "content", PlacesOf(bytes, t.type)[1])
      BY <2>6, <3>1, Places
    <3> QED BY <1>7, <2>6, <3>2, Places
  <2>8. PayloadOf(bytes, p) = <<t.type>>
    <3>1. 2 \in DOMAIN Fields(t.type) /\ ~Absent(t.type, 2) /\ Fields(t.type)[2] = "type"
      BY <1>9, <1>11, <2>6, FirstNames
    <3>2. PayloadOf(bytes, PlacesOf(bytes, t.type)[2]) = Content(t, "type")
      BY <3>1 DEF Whole, Stored
    <3> QED BY <2>4, <2>5, <2>7, <3>2 DEF Content
  <2>9. type = t.type
    <3>1. <<type>> = <<t.type>>
      BY <2>3, <2>4, <2>8
    <3> QED BY <3>1
  <2> QED BY <1>1, <1>5, <1>7, <2>9
<1> QED BY <1>10, <1>11

(* A field of the transaction that was read is the one that was encoded. *)
Told(u, t, i) ==
    LET name == Fields(t.type)[i] IN name \in Stored \ {"type"} => u[name] = t[name]

LEMMA NoLongRatio ==
    ASSUME NEW bytes \in Seq(Byte), NEW part \in Seq(Byte), Carries(bytes, 0, part),
           StartOf(bytes) = StartOf(part),
           NEW t, WellFormed(t), Whole(bytes, t),
           t.type = LEGACY
               \/ \A j \in DOMAIN Fields(t.type) : Absent(t.type, j) \/ IsField(part, t.type, j)
    PROVE  ~HasLongRatio(part, t.type)
<1>1. Supported(t.type)
  BY DEF WellFormed
<1>2. CASE t.type = LEGACY
  BY <1>1, <1>2, FieldsOrderly DEF HasLongRatio
<1>3. CASE t.type # LEGACY
  <2>1. SUFFICES ASSUME NEW i \in DOMAIN Fields(t.type), Fields(t.type)[i] = "ratio",
                        ~Absent(t.type, i), IsField(part, t.type, i),
                        LengthAt(part, PlacesOf(part, t.type)[i]) > 1
                 PROVE  FALSE
    BY DEF HasLongRatio
  <2>2. PICK p : p = PlacesOf(part, t.type)[i]
    OBVIOUS
  <2>3. \A j \in 1 .. i - 1 : Absent(t.type, j) \/ IsField(part, t.type, j)
    <3>1. \A j \in 1 .. i - 1 : j \in DOMAIN Fields(t.type)
      BY <1>1, <2>1, FieldsOrderly DEF Orderly
    <3> QED BY <1>3, <3>1
  <2>4. /\ PlacesOf(bytes, t.type)[i] = p
        /\ PayloadOf(bytes, p) = PayloadOf(part, p)
        /\ Len(PayloadOf(part, p)) = LengthAt(part, p)
    BY <1>1, <2>1, <2>2, <2>3, FieldRead
  <2>5. PayloadOf(bytes, PlacesOf(bytes, t.type)[i]) = t.ratio
    BY <2>1 DEF Whole, Stored, Content
  <2>6. Len(t.ratio) = 1
    BY DEF WellFormed
  <2>7. LengthAt(part, p) = 1
    BY <2>4, <2>5, <2>6
  <2> QED BY <2>1, <2>2, <2>7
<1> QED BY <1>2, <1>3

LEMMA FieldTold ==
    ASSUME NEW bytes \in Seq(Byte), NEW part \in Seq(Byte), Carries(bytes, 0, part),
           StartOf(bytes) = StartOf(part),
           NEW t, WellFormed(t), Whole(bytes, t),
           NEW u, u.txType = t.type, ~HasLongRatio(part, t.type),
           NEW i \in DOMAIN Fields(t.type),
           \A j \in 1 .. i - 1 : Absent(t.type, j) \/ IsField(part, t.type, j),
           ~Absent(t.type, i), IsField(part, t.type, i), Says(u, part, i)
    PROVE  Told(u, t, i)
<1>1. Supported(t.type)
  BY DEF WellFormed
<1>2. PICK name : name = Fields(t.type)[i]
  OBVIOUS
<1>3. PICK p : p = PlacesOf(part, t.type)[i]
  OBVIOUS
<1>4. PICK x : x = PayloadOf(part, p)
  OBVIOUS
<1>5. SUFFICES ASSUME name \in Stored \ {"type"} PROVE u[name] = t[name]
  BY <1>2 DEF Told
<1>6. name # "content"
  BY <1>5 DEF Stored
<1>7. PlacesOf(bytes, t.type)[i] = p /\ PayloadOf(bytes, p) = x
  BY <1>1, <1>2, <1>3, <1>4, <1>6, FieldRead
<1>8. x = t[name]
  <2>1. x = Content(t, name)
    BY <1>2, <1>5, <1>7 DEF Whole
  <2> QED BY <1>5, <2>1 DEF Content
<1>9. /\ name \in {"nonce", "gasprice", "startgas", "to", "chainID"} => u[name] = x
      /\ name = "value" => u.value = x
      /\ name = "ratio" => u.ratio = IF x = <<>> THEN <<>> ELSE <<x[1]>>
  BY <1>2, <1>3, <1>4 DEF Says
<1>10. CASE name = "ratio"
  <2>1. x \in Seq(Byte) /\ Len(x) = 1
    BY <1>8, <1>10 DEF WellFormed
  <2>2. x # <<>> /\ x[1] \in Byte
    <3>1. 1 \in 1..Len(x)
      BY <2>1
    <3>2. x[1] \in Byte
      BY <2>1, <3>1, ElementOfSeq
    <3>3. ASSUME x = <<>> PROVE FALSE
      <4>1. Len(x) = 0
        BY <3>3
      <4> QED BY <2>1, <4>1
    <3> QED BY <3>2, <3>3
  <2>3. PICK one : one = <<x[1]>>
    OBVIOUS
  <2>4. one \in Seq(Byte) /\ Len(one) = 1 /\ one[1] = x[1]
    BY <2>2, <2>3
  <2>5. one = x
    BY <2>1, <2>4, SeqEqual
  <2> QED BY <1>8, <1>9, <1>10, <2>2, <2>3, <2>5
<1>11. CASE name = "value"
  BY <1>8, <1>9, <1>11
<1>12. CASE name \in {"nonce", "gasprice", "startgas", "to", "chainID"}
  BY <1>8, <1>9, <1>12
<1> QED BY <1>5, <1>10, <1>11, <1>12 DEF Stored

LEMMA LastField ==
    ASSUME NEW type, Supported(type)
    PROVE  ~Absent(type, Len(Fields(type)))
<1>1. PICK names : names = Fields(type)
  OBVIOUS
<1>2. CASE type = LEGACY
  BY <1>2 DEF Absent
<1>3. CASE names = ValueTransferFields
  BY <1>1, <1>3 DEF ValueTransferFields, Absent
<1>4. CASE names = MemoFields
  BY <1>1, <1>4 DEF MemoFields, Absent
<1>5. CASE names = DeployFields
  BY <1>1, <1>5 DEF DeployFields, Absent
<1>6. CASE names = CancelFields
  BY <1>1, <1>6 DEF CancelFields, Absent
<1> QED BY <1>1, <1>2, <1>3, <1>4, <1>5, <1>6, KindOf

LEMMA Numbered ==
    ASSUME NEW m \in 9..15
    PROVE  m \in Nat /\ m >= 1
OBVIOUS

(* What is decoded of bytes that lie where a transaction was encoded. *)
LEMMA ReadBack ==
    ASSUME NEW bytes \in Seq(Byte), NEW part \in Seq(Byte), Carries(bytes, 0, part),
           NEW t, WellFormed(t), Carries(bytes, 0, Encode(t)),
           NEW u, IsDecodedFrom(u, part)
    PROVE  /\ u.txType = t.type
           /\ \/ /\ Len(Encode(t)) <= Len(part)
                 /\ \A i \in DOMAIN Fields(t.type) : Absent(t.type, i) \/ Told(u, t, i)
              \/ /\ t.type = LEGACY
                 /\ \A i \in 1..6 : Told(u, t, i)
                 /\ ~IsField(part, LEGACY, 7) /\ u.chainID = <<>>
<1>1. Lies(bytes, t) /\ Whole(bytes, t)
  BY EncodedWhole
<1>2. u.txType = t.type /\ StartOf(bytes) = StartOf(part)
  BY <1>1, TypeRead
<1>3. Supported(t.type)
  BY DEF WellFormed
<1>4. PICK m \in 9..15 : m = Len(Fields(t.type)) /\ DOMAIN Fields(t.type) = 1..m
  BY <1>3, FieldsOrderly DEF Orderly
<1>5. \/ \A i \in 1..m :
            Absent(t.type, i) \/ (IsField(part, t.type, i) /\ Says(u, part, i))
      \/ /\ t.type = LEGACY
         /\ \A i \in 1..6 : IsField(part, t.type, i) /\ Says(u, part, i)
         /\ ~IsField(part, t.type, 7) /\ u.chainID = <<>>
  BY <1>2, <1>4 DEF IsDecodedFrom, LEGACY_RLP_CHAIN_ID
<1>6. CASE \A i \in 1..m :
              Absent(t.type, i) \/ (IsField(part, t.type, i) /\ Says(u, part, i))
  <2>1. ~HasLongRatio(part, t.type)
    BY <1>1, <1>2, <1>4, <1>6, NoLongRatio
  <2>2. ASSUME NEW i \in 1..m, ~Absent(t.type, i) PROVE Told(u, t, i)
    <3>1. \A j \in 1 .. i - 1 : Absent(t.type, j) \/ IsField(part, t.type, j)
      <4>1. \A j \in 1 .. i - 1 : j \in 1..m
        BY <1>4
      <4> QED BY <1>6, <4>1
    <3>2. IsField(part, t.type, i) /\ Says(u, part, i)
      BY <1>6, <2>2
    <3> QED BY <1>1, <1>2, <1>4, <2>1, <2>2, <3>1, <3>2, FieldTold
  <2>3. Len(Encode(t)) <= Len(part)
    <3>0. m \in Nat /\ m >= 1
      BY <1>4, Numbered
    <3>1. m \in 1..m /\ m + 1 \in 1 .. m + 1 /\ m \in Nat
      BY <3>0
    <3>2. PlacesOf(bytes, t.type)[m + 1] = PlacesOf(part, t.type)[m + 1]
      BY <1>2, <1>3, <1>4, <1>6, <3>1, SamePlaces
    <3>3. PlacesOf(bytes, t.type)[m + 1] = Len(Encode(t))
      BY <1>1, <1>4 DEF Whole
    <3>4. ~Absent(t.type, m)
      BY <1>3, <1>4, LastField
    <3>5. PlacesOf(part, t.type)[m + 1] =
             Behind(part, Fields(t.type)[m], PlacesOf(part, t.type)[m])
      BY <1>3, <1>4, <3>1, <3>4, Places
    <3>6. IsField(part, t.type, m)
      BY <1>6, <3>1, <3>4
    <3> QED BY <3>2, <3>3, <3>5, <3>6 DEF IsField
  <2> QED BY <1>2, <1>4, <2>2, <2>3
<1>7. CASE /\ t.type = LEGACY
           /\ \A i \in 1..6 : IsField(part, t.type, i) /\ Says(u, part, i)
           /\ ~IsField(part, t.type, 7) /\ u.chainID = <<>>
  <2>1. ~HasLongRatio(part, t.type)
    BY <1>1, <1>2, <1>7, NoLongRatio
  <2>2. ASSUME NEW i \in 1..6 PROVE Told(u, t, i)
    <3>1. \A j \in 1 .. i - 1 : Absent(t.type, j) \/ IsField(part, t.type, j)
      <4>1. \A j \in 1 .. i - 1 : j \in 1..6
        OBVIOUS
      <4> QED BY <1>7, <4>1
    <3>2. i \in DOMAIN Fields(t.type) /\ ~Absent(t.type, i)
      BY <1>4, <1>7 DEF Absent
    <3>3. IsField(part, t.type, i) /\ Says(u, part, i)
      BY <1>7
    <3> QED BY <1>1, <1>2, <2>1, <3>1, <3>2, <3>3, FieldTold
  <2> QED BY <1>2, <1>7, <2>2
<1> QED BY <1>5, <1>6, <1>7

------------------------------------------------------------------------------
(* What is read of every field is what the transaction holds. *)

(* The fields a review of u shows are those of t. *)
Shows(u, t) ==
    /\ u.txType = t.type
    /\ u.nonce = t.nonce /\ u.gasprice = t.gasprice /\ u.startgas = t.startgas
    /\ t.type \notin TypesOf("cancel") => u.value = t.value
    /\ t.type \notin TypesOf("cancel") \cup TypesOf("deploy") => u.to = t.to
    /\ t.type \in PartialFeeDelegated => u.ratio = t.ratio

LEMMA LegacyPartial == LEGACY \notin PartialFeeDelegated
BY DEF LEGACY, PartialFeeDelegated, FirstType, Kinds

(* The field of a name that is at a place of the list. *)
LEMMA NameTold ==
    ASSUME NEW t, NEW u,
           \A i \in DOMAIN Fields(t.type) : Absent(t.type, i) \/ Told(u, t, i),
           NEW i \in DOMAIN Fields(t.type), NEW name \in Stored \ {"type"},
           Fields(t.type)[i] = name, name = "ratio" => t.type \in PartialFeeDelegated
    PROVE  u[name] = t[name]
<1>1. ~Absent(t.type, i)
  BY DEF Absent
<1> QED BY <1>1 DEF Told

LEMMA ShowsAll ==
    ASSUME NEW t, Supported(t.type), NEW u, u.txType = t.type,
           \A i \in DOMAIN Fields(t.type) : Absent(t.type, i) \/ Told(u, t, i)
    PROVE  Shows(u, t) /\ u.chainID = t.chainID
<1>1. PICK names : names = Fields(t.type)
  OBVIOUS
<1>2. \A i \in DOMAIN names : \A name \in Stored \ {"type"} :
         names[i] = name /\ (name = "ratio" => t.type \in PartialFeeDelegated) =>
            u[name] = t[name]
  <2>1. ASSUME NEW i \in DOMAIN names, NEW name \in Stored \ {"type"},
               names[i] = name, name = "ratio" => t.type \in PartialFeeDelegated
        PROVE  u[name] = t[name]
    <3>1. i \in DOMAIN Fields(t.type) /\ Fields(t.type)[i] = name
      BY <1>1, <2>1
    <3> QED BY <2>1, <3>1, NameTold
  <2> QED BY <2>1
<1>3. /\ "nonce" \in Stored \ {"type"} /\ "gasprice" \in Stored \ {"type"}
      /\ "startgas" \in Stored \ {"type"} /\ "to" \in Stored \ {"type"}
      /\ "value" \in Stored \ {"type"} /\ "ratio" \in Stored \ {"type"}
      /\ "chainID" \in Stored \ {"type"}
  BY DEF Stored
<1>4. CASE t.type = LEGACY
  <2>1. names = LegacyFields
    BY <1>1, <1>4, FieldsOrderly
  <2>2. /\ 1 \in DOMAIN names /\ names[1] = "nonce"
        /\ 2 \in DOMAIN names /\ names[2] = "gasprice"
        /\ 3 \in DOMAIN names /\ names[3] = "startgas"
        /\ 4 \in DOMAIN names /\ names[4] = "to"
        /\ 5 \in DOMAIN names /\ names[5] = "value"
        /\ 7 \in DOMAIN names /\ names[7] = "chainID"
    BY <2>1, LegacyList
  <2>3. /\ u.nonce = t.nonce /\ u.gasprice = t.gasprice /\ u.startgas = t.startgas
        /\ u.to = t.to /\ u.value = t.value /\ u.chainID = t.chainID
    BY <1>2, <1>3, <2>2
  <2> QED BY <1>4, <2>3, LegacyPartial DEF Shows
<1>5. CASE t.type # LEGACY /\ names = ValueTransferFields
  <2>1. /\ 3 \in DOMAIN names /\ names[3] = "nonce"
        /\ 4 \in DOMAIN names /\ names[4] = "gasprice"
        /\ 5 \in DOMAIN names /\ names[5] = "startgas"
        /\ 6 \in DOMAIN names /\ names[6] = "to"
        /\ 7 \in DOMAIN names /\ names[7] = "value"
        /\ 9 \in DOMAIN names /\ names[9] = "ratio"
        /\ 10 \in DOMAIN names /\ names[10] = "chainID"
    BY <1>5 DEF ValueTransferFields
  <2>2. /\ u.nonce = t.nonce /\ u.gasprice = t.gasprice /\ u.startgas = t.startgas
        /\ u.to = t.to /\ u.value = t.value /\ u.chainID = t.chainID
        /\ t.type \in PartialFeeDelegated => u.ratio = t.ratio
    BY <1>2, <1>3, <2>1
  <2> QED BY <2>2 DEF Shows
<1>6. CASE t.type # LEGACY /\ names = MemoFields
  <2>1. /\ 3 \in DOMAIN names /\ names[3] = "nonce"
        /\ 4 \in DOMAIN names /\ names[4] = "gasprice"
        /\ 5 \in DOMAIN names /\ names[5] = "startgas"
        /\ 6 \in DOMAIN names /\ names[6] = "to"
        /\ 7 \in DOMAIN names /\ names[7] = "value"
        /\ 10 \in DOMAIN names /\ names[10] = "ratio"
        /\ 11 \in DOMAIN names /\ names[11] = "chainID"
    BY <1>6 DEF MemoFields
  <2>2. /\ u.nonce = t.nonce /\ u.gasprice = t.gasprice /\ u.startgas = t.startgas
        /\ u.to = t.to /\ u.value = t.value /\ u.chainID = t.chainID
        /\ t.type \in PartialFeeDelegated => u.ratio = t.ratio
    BY <1>2, <1>3, <2>1
  <2> QED BY <2>2 DEF Shows
<1>7. CASE t.type \in {40, 41, 42} /\ names = DeployFields
  <2>1. /\ 3 \in DOMAIN names /\ names[3] = "nonce"
        /\ 4 \in DOMAIN names /\ names[4] = "gasprice"
        /\ 5 \in DOMAIN names /\ names[5] = "startgas"
        /\ 7 \in DOMAIN names /\ names[7] = "value"
        /\ 11 \in DOMAIN names /\ names[11] = "ratio"
        /\ 13 \in DOMAIN names /\ names[13] = "chainID"
    BY <1>7 DEF DeployFields
  <2>2. /\ u.nonce = t.nonce /\ u.gasprice = t.gasprice /\ u.startgas = t.startgas
        /\ u.value = t.value /\ u.chainID = t.chainID
        /\ t.type \in PartialFeeDelegated => u.ratio = t.ratio
    BY <1>2, <1>3, <2>1
  <2>3. t.type \in TypesOf("deploy")
    BY <1>7, Types
  <2> QED BY <2>2, <2>3 DEF Shows
<1>8. CASE t.type \in {56, 57, 58} /\ names = CancelFields
  <2>1. /\ 3 \in DOMAIN names /\ names[3] = "nonce"
        /\ 4 \in DOMAIN names /\ names[4] = "gasprice"
        /\ 5 \in DOMAIN names /\ names[5] = "startgas"
        /\ 7 \in DOMAIN names /\ names[7] = "ratio"
        /\ 8 \in DOMAIN names /\ names[8] = "chainID"
    BY <1>8 DEF CancelFields
  <2>2. /\ u.nonce = t.nonce /\ u.gasprice = t.gasprice /\ u.startgas = t.startgas
        /\ u.chainID = t.chainID
        /\ t.type \in PartialFeeDelegated => u.ratio = t.ratio
    BY <1>2, <1>3, <2>1
  <2>3. t.type \in TypesOf("cancel")
    BY <1>8, Types
  <2> QED BY <2>2, <2>3 DEF Shows
<1> QED BY <1>1, <1>4, <1>5, <1>6, <1>7, <1>8, KindOf

(* A legacy transaction that ends in front of its chain id. *)
LEMMA ShowsLegacy ==
    ASSUME NEW t, t.type = LEGACY, NEW u, u.txType = t.type,
           \A i \in 1..6 : Told(u, t, i)
    PROVE  Shows(u, t)
<1>1. PICK names : names = Fields(t.type)
  OBVIOUS
<1>2. names = LegacyFields
  BY <1>1, FieldsOrderly DEF Supported
<1>3. /\ names[1] = "nonce" /\ names[2] = "gasprice" /\ names[3] = "startgas"
      /\ names[4] = "to" /\ names[5] = "value"
  BY <1>2, LegacyList
<1>4. \A i \in 1..6 : names[i] \in Stored \ {"type"} => u[names[i]] = t[names[i]]
  BY <1>1 DEF Told
<1>5. /\ u.nonce = t.nonce /\ u.gasprice = t.gasprice /\ u.startgas = t.startgas
      /\ u.to = t.to /\ u.value = t.value
  BY <1>3, <1>4 DEF Stored
<1> QED BY <1>5, LegacyPartial DEF Shows

------------------------------------------------------------------------------
(* Data that was cut off is a legacy transaction's or is refused. *)
LEMMA CutOff ==
    ASSUME NEW part \in Seq(Byte), NEW t, WellFormed(t),
           IsStrictPrefix(part, Encode(t)), NEW u, IsDecodedFrom(u, part)
    PROVE  t.type = LEGACY /\ Shows(u, t) /\ u.chainID = <<>>
<1>1. PICK e \in Seq(Byte) : e = Encode(t)
  BY EncodeBytes
<1>2. IsPrefix(part, e) /\ part # e
  BY <1>1 DEF IsStrictPrefix
<1>3. Carries(e, 0, part) /\ Carries(e, 0, e)
  BY <1>2, CarriesWhole, CarriesItself
<1>4. Len(part) \in Nat /\ Len(e) \in Nat
  BY LenProperties
<1>5. ~(Len(e) <= Len(part))
  <2>1. Len(part) <= Len(e) /\ \A k \in 1..Len(part) : e[0 + k] = part[k]
    BY <1>3, <1>4 DEF Carries
  <2>2. ASSUME Len(e) <= Len(part) PROVE FALSE
    <3>1. Len(e) = Len(part)
      BY <1>4, <2>1, <2>2
    <3>2. \A k \in 1..Len(part) : e[k] = part[k]
      <4>1. \A k \in 1..Len(part) : 0 + k = k
        OBVIOUS
      <4> QED BY <2>1, <4>1
    <3>3. e = part
      BY <3>1, <3>2, SeqEqual
    <3> QED BY <1>2, <3>3
  <2> QED BY <2>2
<1>6. /\ u.txType = t.type /\ t.type = LEGACY
      /\ \A i \in 1..6 : Told(u, t, i)
      /\ u.chainID = <<>>
  BY <1>1, <1>3, <1>5, ReadBack
<1>7. Shows(u, t)
  BY <1>6, ShowsLegacy
<1> QED BY <1>6, <1>7

(* Of data that begins with what was encoded everything is read. *)
LEMMA KeptWhole ==
    ASSUME NEW bytes \in Seq(Byte), NEW t, WellFormed(t), IsPrefix(Encode(t), bytes),
           NEW u, IsDecodedFrom(u, bytes)
    PROVE  Shows(u, t) /\ u.chainID = t.chainID
<1>1. PICK e \in Seq(Byte) : e = Encode(t)
  BY EncodeBytes
<1>2. Carries(bytes, 0, Encode(t)) /\ Carries(bytes, 0, bytes)
  BY <1>1, CarriesWhole, CarriesItself
<1>3. Supported(t.type)
  BY DEF WellFormed
<1>4. t.type = LEGACY => IsField(bytes, LEGACY, 7)
  <2>1. SUFFICES ASSUME t.type = LEGACY PROVE IsField(bytes, LEGACY, 7)
    OBVIOUS
  <2>2. Whole(bytes, t)
    BY <1>2, EncodedWhole
  <2>3. 7 \in DOMAIN Fields(LEGACY)
    BY <1>3, <2>1, FieldsOrderly, LegacyList
  <2>4. ~Absent(LEGACY, 7)
    BY DEF Absent
  <2> QED BY <2>1, <2>2, <2>3, <2>4 DEF Whole
<1>5. /\ u.txType = t.type
      /\ \A i \in DOMAIN Fields(t.type) : Absent(t.type, i) \/ Told(u, t, i)
  BY <1>2, <1>4, ReadBack
<1> QED BY <1>3, <1>5, ShowsAll

(* Of what was encoded as doc/TRANSACTION.md says, transaction_deserialize returns
   the fields that were encoded, whatever bytes follow, and of a transaction that
   was cut off it returns none: but a legacy transaction may end in front of its
   chain id, or within it, and is then taken for one of the old style.  This is so
   of every transaction of every type. *)
THEOREM RoundTrip == Spec => []AcceptsWhatWasEncoded
<1>1. ASSUME ParserInv, Understood PROVE AcceptsWhatWasEncoded
  <2>1. SUFFICES ASSUME status = "OK", NEW t \in Originals
                 PROVE  /\ IsPrefix(Encoding[t], raw) =>
                              ShownOf(t) /\ tx.chainID = t.chainID
                        /\ IsStrictPrefix(raw, Encoding[t]) =>
                              t.type = LEGACY /\ ShownOf(t) /\ tx.chainID = <<>>
    BY DEF AcceptsWhatWasEncoded
  <2>2. WellFormed(t) /\ Encoding[t] = Encode(t)
    BY OriginalsAssumption DEF Encoding
  <2>3. raw \in Seq(Byte) /\ IsDecodedFrom(tx, raw)
    BY <1>1, <2>1 DEF ParserInv, Understood
  <2>4. ShownOf(t) <=> Shows(tx, t)
    BY DEF ShownOf, Shows
  <2>5. ASSUME IsPrefix(Encoding[t], raw) PROVE ShownOf(t) /\ tx.chainID = t.chainID
    BY <2>2, <2>3, <2>4, <2>5, KeptWhole
  <2>6. ASSUME IsStrictPrefix(raw, Encoding[t])
        PROVE  t.type = LEGACY /\ ShownOf(t) /\ tx.chainID = <<>>
    BY <2>2, <2>3, <2>4, <2>6, CutOff
  <2> QED BY <2>5, <2>6
<1> QED BY <1>1, Invariance, Decodes, PTL

------------------------------------------------------------------------------
(* The bytes have one reading. *)

(* Two transactions that the parser may return show the same. *)
Alike(u, t) ==
    /\ u.txType = t.txType
    /\ u.nonce = t.nonce /\ u.gasprice = t.gasprice /\ u.startgas = t.startgas
    /\ t.txType \notin TypesOf("cancel") => u.value = t.value
    /\ t.txType \notin TypesOf("cancel") \cup TypesOf("deploy") => u.to = t.to
    /\ t.txType \in PartialFeeDelegated => u.ratio = t.ratio
    /\ u.chainID = t.chainID

(* The transaction a reading is of, with its type where Told has it. *)
Shown(t) ==
    [type |-> t.txType, nonce |-> t.nonce, gasprice |-> t.gasprice,
     startgas |-> t.startgas, to |-> t.to, value |-> t.value, ratio |-> t.ratio,
     chainID |-> t.chainID]

LEMMA OneType ==
    ASSUME NEW bytes \in Seq(Byte), NEW t, IsDecodedFrom(t, bytes),
           NEW u, IsDecodedFrom(u, bytes)
    PROVE  u.txType = t.txType
<1>1. ASSUME NEW w, IsDecodedFrom(w, bytes)
      PROVE  /\ Supported(w.txType)
             /\ IsListAt(bytes, StartOf(bytes)) <=> w.txType # LEGACY
             /\ w.txType # LEGACY =>
                   PayloadOf(bytes, Behind(bytes, "content", StartOf(bytes))) = <<w.txType>>
  <2>1. PICK type : type = w.txType
    OBVIOUS
  <2>2. Supported(type)
    BY <1>1, <2>1 DEF IsDecodedFrom
  <2>3. \/ \A i \in DOMAIN Fields(type) :
              Absent(type, i) \/ (IsField(bytes, type, i) /\ Says(w, bytes, i))
        \/ type = LEGACY /\ \A i \in 1..6 : IsField(bytes, type, i)
    BY <1>1, <2>1 DEF IsDecodedFrom, LEGACY_RLP_CHAIN_ID
  <2>4. IsField(bytes, type, 1)
    BY <2>2, <2>3, FirstNames
  <2>5. IsListAt(bytes, StartOf(bytes)) <=> type # LEGACY
    BY <2>2, <2>4, FirstRead
  <2>6. ASSUME type # LEGACY
        PROVE  PayloadOf(bytes, Behind(bytes, "content", StartOf(bytes))) = <<type>>
    <3>1. /\ 1 \in DOMAIN Fields(type) /\ ~Absent(type, 1) /\ ~Absent(type, 2)
          /\ Fields(type)[1] = "content" /\ Fields(type)[2] = "type"
          /\ 2 \in DOMAIN Fields(type)
      BY <2>2, <2>6, FirstNames
    <3>2. PlacesOf(bytes, type)[1 + 1] = Behind(bytes, "content", PlacesOf(bytes, type)[1])
      BY <2>2, <3>1, Places
    <3>3. PlacesOf(bytes, type)[2] = Behind(bytes, "content", StartOf(bytes))
      BY <2>2, <3>2, Places
    <3>4. Says(w, bytes, 2)
      BY <2>3, <2>6, <3>1
    <3> QED BY <2>1, <3>1, <3>3, <3>4 DEF Says
  <2> QED BY <2>1, <2>2, <2>5, <2>6
<1>2. /\ u.txType # LEGACY <=> t.txType # LEGACY
      /\ u.txType # LEGACY => <<u.txType>> = <<t.txType>>
  <2>1. /\ IsListAt(bytes, StartOf(bytes)) <=> u.txType # LEGACY
        /\ u.txType # LEGACY =>
              PayloadOf(bytes, Behind(bytes, "content", StartOf(bytes))) = <<u.txType>>
    BY <1>1
  <2>2. /\ IsListAt(bytes, StartOf(bytes)) <=> t.txType # LEGACY
        /\ t.txType # LEGACY =>
              PayloadOf(bytes, Behind(bytes, "content", StartOf(bytes))) = <<t.txType>>
    BY <1>1
  <2> QED BY <2>1, <2>2
<1>3. CASE u.txType # LEGACY
  <2>1. <<u.txType>>[1] = <<t.txType>>[1]
    BY <1>2, <1>3
  <2> QED BY <2>1
<1> QED BY <1>2, <1>3

LEMMA SaidAlike ==
    ASSUME NEW bytes \in Seq(Byte), NEW t, NEW u, u.txType = t.txType,
           ~HasLongRatio(bytes, t.txType), NEW i, Says(t, bytes, i), Says(u, bytes, i)
    PROVE  Told(u, Shown(t), i)
<1>1. PICK name : name = Fields(t.txType)[i]
  OBVIOUS
<1>2. PICK x : x = PayloadOf(bytes, PlacesOf(bytes, t.txType)[i])
  OBVIOUS
<1>3. ASSUME NEW w, w.txType = t.txType, Says(w, bytes, i)
      PROVE  /\ name \in {"nonce", "gasprice", "startgas", "to", "chainID"} => w[name] = x
             /\ name = "value" => w.value = x
             /\ name = "ratio" => w.ratio = IF x = <<>> THEN <<>> ELSE <<x[1]>>
  BY <1>1, <1>2, <1>3 DEF Says
<1>4. name \in Stored \ {"type"} => u[name] = t[name]
  BY <1>3 DEF Stored
<1>5. name \in Stored \ {"type"} => Shown(t)[name] = t[name]
  BY DEF Stored, Shown
<1>6. Shown(t).type = t.txType
  BY DEF Shown
<1> QED BY <1>1, <1>4, <1>5, <1>6 DEF Told

LEMMA ReadAlike ==
    ASSUME NEW bytes \in Seq(Byte), NEW t, IsDecodedFrom(t, bytes),
           NEW u, IsDecodedFrom(u, bytes), ~HasLongRatio(bytes, t.txType)
    PROVE  Alike(u, t)
<1>1. PICK type : type = t.txType
  OBVIOUS
<1>2. u.txType = type /\ Supported(type)
  BY <1>1, OneType DEF IsDecodedFrom
<1>3. PICK s : s = Shown(t)
  OBVIOUS
<1>4. s.type = type /\ s.chainID = t.chainID
  BY <1>1, <1>3 DEF Shown
<1>5. ASSUME NEW w, w.txType = type, IsDecodedFrom(w, bytes)
      PROVE  \/ \A i \in DOMAIN Fields(type) :
                   Absent(type, i) \/ (IsField(bytes, type, i) /\ Says(w, bytes, i))
             \/ /\ type = LEGACY
                /\ \A i \in 1..6 : Says(w, bytes, i)
                /\ ~IsField(bytes, type, 7) /\ w.chainID = <<>>
  BY <1>5 DEF IsDecodedFrom, LEGACY_RLP_CHAIN_ID
<1>6. ASSUME NEW i, Says(t, bytes, i), Says(u, bytes, i) PROVE Told(u, s, i)
  BY <1>1, <1>2, <1>3, <1>6, SaidAlike
<1>7. type = LEGACY =>
         /\ DOMAIN Fields(type) = 1..9
         /\ \A i \in 1..9 : ~Absent(type, i)
  <2>1. SUFFICES ASSUME type = LEGACY PROVE DOMAIN Fields(type) = 1..9
    BY DEF Absent
  <2> QED BY <2>1, <1>2, FieldsOrderly DEF LegacyFields, Trailer
<1>8. Shows(u, s) /\ u.chainID = t.chainID
  <2>1. CASE \A i \in DOMAIN Fields(type) : Absent(type, i) \/ (Says(t, bytes, i) /\ Says(u, bytes, i))
    <3>1. \A i \in DOMAIN Fields(s.type) : Absent(s.type, i) \/ Told(u, s, i)
      BY <1>4, <1>6, <2>1
    <3> QED BY <1>2, <1>4, <3>1, ShowsAll
  <2>2. CASE /\ type = LEGACY /\ \A i \in 1..6 : Says(t, bytes, i) /\ Says(u, bytes, i)
             /\ t.chainID = <<>> /\ u.chainID = <<>>
    <3>1. \A i \in 1..6 : Told(u, s, i)
      BY <1>6, <2>2
    <3> QED BY <1>2, <1>4, <2>2, <3>1, ShowsLegacy
  <2>3. type = LEGACY /\ ~IsField(bytes, type, 7) =>
           ~ \A i \in DOMAIN Fields(type) : Absent(type, i) \/ IsField(bytes, type, i)
    BY <1>7
  <2> QED BY <1>1, <1>2, <1>5, <2>1, <2>2, <2>3
<1>9. /\ s.nonce = t.nonce /\ s.gasprice = t.gasprice /\ s.startgas = t.startgas
      /\ s.value = t.value /\ s.to = t.to /\ s.ratio = t.ratio
  BY <1>3 DEF Shown
<1> QED BY <1>1, <1>4, <1>8, <1>9 DEF Shows, Alike

(* The bytes that transaction_deserialize accepts say one transaction: whatever can be
   read from them as Understood describes it shows the same type, the same fields and
   the same chain id as what the parser returned, so what is signed cannot be read in
   another way than it was shown.  The amount, where a fee ratio of more than one
   byte was read into it, is left open (ValueKept). *)
THEOREM OneReading ==
    Spec => [](status = "OK" /\ ~HasLongRatio(raw, tx.txType) =>
                  \A u : IsDecodedFrom(u, raw) => Alike(u, tx))
<1>1. ASSUME ParserInv, Understood
      PROVE  status = "OK" /\ ~HasLongRatio(raw, tx.txType) =>
                \A u : IsDecodedFrom(u, raw) => Alike(u, tx)
  <2>1. SUFFICES ASSUME status = "OK", ~HasLongRatio(raw, tx.txType),
                        NEW u, IsDecodedFrom(u, raw)
                 PROVE  Alike(u, tx)
    OBVIOUS
  <2>2. raw \in Seq(Byte) /\ IsDecodedFrom(tx, raw)
    BY <1>1, <2>1 DEF ParserInv, Understood
  <2> QED BY <2>1, <2>2, ReadAlike
<1> QED BY <1>1, Invariance, Decodes, PTL
==============================================================================
