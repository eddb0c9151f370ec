----------------------------- MODULE ReviewProofs -----------------------------
(***************************************************************************)
(* What the owner has seen when a transaction is approved, what each page  *)
(* said, and what is sent then, for all transactions and signatures and    *)
(* any number of reviews.  The response to a signature comes first: it     *)
(* holds r and s, whatever their lengths in DER.                           *)
(***************************************************************************)
EXTENDS Review, FormatProofs

------------------------------------------------------------------------------
(* The response to a signature. *)

Number == [1..WIDTH -> 0..255]

(* WIDTH bytes of out are there behind offset, and cleared. *)
Cleared(out, offset) ==
    offset + WIDTH <= Len(out) /\ \A i \in 1..WIDTH : out[offset + i] = 0

(* The bytes d are those of signature behind the first start ones. *)
Encodes(signature, start, d) ==
    start + Len(d) <= Len(signature) /\ \A j \in 1..Len(d) : signature[start + j] = d[j]

(* new is out with the number behind offset. *)
Holds(new, out, offset, number) ==
    /\ new \in Seq(Nat) /\ Len(new) = Len(out)
    /\ \A i \in 1..WIDTH : new[offset + i] = number[i]
    /\ \A i \in 1..Len(out) : i \notin offset + 1 .. offset + WIDTH => new[i] = out[i]

(* A response buffer before the signature is formatted into it, and after. *)
ClearedResponse(out) ==
    RESPONSE <= Len(out) /\ \A i \in 2..RESPONSE : out[i] = 0

Formatted(new, out, r, s) ==
    /\ new \in Seq(Nat) /\ Len(new) = Len(out) /\ new[1] = out[1]
    /\ \A i \in 1..WIDTH : new[1 + i] = r[i]
    /\ \A i \in 1..WIDTH : new[1 + WIDTH + i] = s[i]

LEMMA MinOfNaturals ==
    ASSUME NEW S \in SUBSET Nat, S # {}
    PROVE  Min(S) \in S /\ \A x \in S : Min(S) <= x
<1> DEFINE R == OpToRel(<, Nat)
<1>1. IsWellFoundedOn(R, Nat)
  BY NatLessThanWellFounded
<1>2. \A x, y \in Nat : x < y => <<x, y>> \in R
  BY DEF OpToRel
<1> HIDE DEF R
<1>3. \E x \in S : \A y \in S : ~(<<y, x>> \in R)
  BY <1>1, WFMin
<1>4. \E x \in S : \A y \in S : ~(y < x)
  BY <1>2, <1>3
<1>5. \E x \in S : \A y \in S : x <= y
  BY <1>4
<1> QED BY <1>5 DEF Min

(* The encoding of a number: a tag, a length, z zeros, none or one, and the
   number from its n-th byte on, those before it being zeros. *)
LEMMA DerNumberShape ==
    ASSUME NEW number \in Number
    PROVE  \E n \in 1..WIDTH, z \in {0, 1} :
              LET d == DerNumber(number) IN
              /\ d \in Seq(Nat)
              /\ d[2] = z + WIDTH - n + 1
              /\ Len(d) = 2 + d[2]
              /\ z = 1 => d[3] = 0
              /\ \A i \in n..WIDTH : d[2 + z + i - n + 1] = number[i]
              /\ \A i \in 1 .. n - 1 : number[i] = 0
<1> DEFINE S == {i \in 1..WIDTH : number[i] # 0} \cup {WIDTH}
           n == Min(S)
           short == SubSeq(number, n, WIDTH)
           long == IF short[1] > 127 THEN <<0>> \o short ELSE short
           d == <<2, Len(long)>> \o long
<1>1. WIDTH \in Nat \ {0} /\ \A i \in 1..WIDTH : number[i] \in 0..255
  BY WidthAssumption DEF Number
<1>2. n \in S /\ \A x \in S : n <= x
  <2> HIDE DEF n
  <2>1. S \in SUBSET Nat /\ S # {}
    BY <1>1
  <2> HIDE DEF S
  <2> QED BY <2>1, MinOfNaturals DEF n
<1>3. n \in 1..WIDTH
  BY <1>1, <1>2
<1>4. \A i \in 1 .. n - 1 : number[i] = 0
  BY <1>1, <1>2, <1>3
<1> HIDE DEF n, S
<1>5. /\ short \in Seq(Nat) /\ Len(short) = WIDTH - n + 1
      /\ \A j \in 1 .. WIDTH - n + 1 : short[j] = number[n + j - 1]
  <2>1. /\ n \in Int /\ WIDTH \in Int /\ n <= WIDTH
        /\ \A i \in n..WIDTH : number[i] \in Nat
    BY <1>1, <1>3
  <2>2. /\ short \in Seq(Nat)
        /\ Len(short) = IF n <= WIDTH THEN WIDTH - n + 1 ELSE 0
        /\ \A j \in 1 .. WIDTH - n + 1 : short[j] = number[n + j - 1]
    BY <2>1, SubSeqProperties
  <2> QED BY <2>1, <2>2
<1> HIDE DEF short
<1>6. DerNumber(number) = d
  BY DEF DerNumber, d, long, short, n, S
<1>7. \E z \in {0, 1} :
         /\ long \in Seq(Nat) /\ Len(long) = z + WIDTH - n + 1
         /\ z = 1 => long[1] = 0
         /\ \A i \in n..WIDTH : long[z + i - n + 1] = number[i]
  <2>1. CASE short[1] > 127
    <3>1. long = <<0>> \o short
      BY <2>1
    <3>2. /\ long \in Seq(Nat) /\ Len(long) = 1 + WIDTH - n + 1 /\ long[1] = 0
      BY <1>1, <1>3, <1>5, <3>1
    <3>3. \A i \in n..WIDTH : long[1 + i - n + 1] = number[i]
      <4> TAKE i \in n..WIDTH
      <4>1. i - n + 1 \in 1 .. WIDTH - n + 1 /\ 1 + i - n + 1 = 1 + (i - n + 1)
        BY <1>1, <1>3
      <4>2. long[1 + (i - n + 1)] = short[i - n + 1]
        BY <1>1, <1>3, <1>5, <3>1, <4>1
      <4>3. n + (i - n + 1) - 1 = i
        BY <1>1, <1>3
      <4> QED BY <1>5, <4>1, <4>2, <4>3
    <3> QED BY <3>2, <3>3
  <2>2. CASE ~(short[1] > 127)
    <3>1. long = short
      BY <2>2
    <3>2. \A i \in n..WIDTH : long[0 + i - n + 1] = number[i]
      <4> TAKE i \in n..WIDTH
      <4>1. i - n + 1 \in 1 .. WIDTH - n + 1 /\ 0 + i - n + 1 = i - n + 1
            /\ n + (i - n + 1) - 1 = i
        BY <1>1, <1>3
      <4> QED BY <1>5, <3>1, <4>1
    <3>3. Len(long) = 0 + WIDTH - n + 1
      BY <1>1, <1>3, <1>5, <3>1
    <3> QED BY <1>5, <3>1, <3>2, <3>3
  <2> QED BY <2>1, <2>2
<1> HIDE DEF long
<1>8. PICK z \in {0, 1} :
         /\ long \in Seq(Nat) /\ Len(long) = z + WIDTH - n + 1
         /\ z = 1 => long[1] = 0
         /\ \A i \in n..WIDTH : long[z + i - n + 1] = number[i]
  BY <1>7
<1>9. /\ d \in Seq(Nat) /\ d[2] = Len(long) /\ Len(d) = 2 + Len(long)
      /\ \A j \in 1..Len(long) : d[2 + j] = long[j]
  BY <1>8
<1>10. \A i \in n..WIDTH : d[2 + z + i - n + 1] = number[i]
  <2> TAKE i \in n..WIDTH
  <2>1. /\ z + i - n + 1 \in 1..Len(long)
        /\ 2 + z + i - n + 1 = 2 + (z + i - n + 1)
    BY <1>1, <1>3, <1>8
  <2> QED BY <1>8, <1>9, <2>1
<1>11. z = 1 => d[3] = 0
  <2>1. 1 \in 1..Len(long) /\ 3 = 2 + 1
    BY <1>1, <1>3, <1>8
  <2> QED BY <1>8, <1>9, <2>1
<1>12. d[2] = z + WIDTH - n + 1 /\ Len(d) = 2 + d[2]
  BY <1>8, <1>9
<1> HIDE DEF d
<1>13. /\ d \in Seq(Nat)
       /\ d[2] = z + WIDTH - n + 1
       /\ Len(d) = 2 + d[2]
       /\ z = 1 => d[3] = 0
       /\ \A i \in n..WIDTH : d[2 + z + i - n + 1] = number[i]
       /\ \A i \in 1 .. n - 1 : number[i] = 0
  BY <1>4, <1>9, <1>10, <1>11, <1>12
<1> QED BY <1>3, <1>6, <1>13

(* format_signature_out's copying of a number into the WIDTH cleared bytes at
   offset: the number is there, nothing else is touched, and the source is
   left behind it. *)
LEMMA CopyNumberCopies ==
    ASSUME NEW number \in Number, NEW out \in Seq(Nat), NEW offset \in Nat,
           NEW signature \in Seq(Nat), NEW start \in Nat,
           Cleared(out, offset), Encodes(signature, start, DerNumber(number))
    PROVE  LET c == CopyNumber(out, offset, signature, start + 2) IN
           Holds(c.out, out, offset, number) /\ c.end = start + Len(DerNumber(number))
<1> DEFINE d == DerNumber(number)
           xlength == signature[start + 2]
           skip == IF HasZero(xlength) THEN 1 ELSE 0
           m == xlength - skip
           to == offset + WIDTH - m
           from == start + 2 + skip
           moved == Moved(out, to, signature, from, m)
           c == CopyNumber(out, offset, signature, start + 2)
<1>1. c = [out |-> moved, end |-> start + 2 + xlength]
  BY DEF CopyNumber
<1> HIDE DEF c
<1>2. PICK n \in 1..WIDTH, z \in {0, 1} :
         /\ d \in Seq(Nat)
         /\ d[2] = z + WIDTH - n + 1
         /\ Len(d) = 2 + d[2]
         /\ z = 1 => d[3] = 0
         /\ \A i \in n..WIDTH : d[2 + z + i - n + 1] = number[i]
         /\ \A i \in 1 .. n - 1 : number[i] = 0
  BY DerNumberShape
<1>3. /\ WIDTH \in Nat \ {0} /\ Len(out) \in Nat /\ Len(signature) \in Nat
      /\ \A i \in 1..Len(out) : out[i] \in Nat
      /\ \A i \in 1..Len(signature) : signature[i] \in Nat
  BY WidthAssumption
<1>0. offset + WIDTH <= Len(out) /\ \A i \in 1..WIDTH : out[offset + i] = 0
  BY DEF Cleared
<1>4. /\ \A j \in 1..Len(d) : signature[start + j] = d[j]
      /\ start + Len(d) <= Len(signature)
  BY DEF Encodes
<1> HIDE DEF d
<1>5. xlength = d[2] /\ xlength = z + WIDTH - n + 1 /\ Len(d) = 2 + xlength
  <2>1. 2 \in 1..Len(d)
    BY <1>2, <1>3
  <2> QED BY <1>2, <1>4, <2>1
<1> HIDE DEF xlength
<1>6. skip \in {0, 1} /\ skip <= z /\ (skip = 1 <=> z = 1 /\ n = 1)
      /\ m = z + WIDTH - n + 1 - skip /\ m \in 1..WIDTH
  BY <1>2, <1>3, <1>5 DEF HasZero
<1> HIDE DEF skip, m
<1>7. to \in Nat /\ to + m = offset + WIDTH /\ to >= offset
      /\ to = offset + n - 1 - z + skip
  BY <1>3, <1>5, <1>6
<1>8. \A i \in to + 1 .. to + m :
         /\ from + i - to \in 1..Len(signature)
         /\ signature[from + i - to] = number[i - offset]
         /\ i - offset \in 1..WIDTH
  <2> TAKE i \in to + 1 .. to + m
  <2> DEFINE k == i - offset
             j == 2 + skip + i - to
  <2>1. i \in Nat /\ k \in 1..WIDTH /\ j \in 1..Len(d) /\ from + i - to = start + j
        /\ i = offset + k
    <3>1. /\ i \in Nat /\ to \in Nat /\ m \in Nat /\ skip \in {0, 1}
          /\ to + 1 <= i /\ i <= to + m
      BY <1>3, <1>6, <1>7
    <3>2. k \in 1..WIDTH /\ i = offset + k
      BY <1>3, <1>7, <3>1
    <3>3. Len(d) = 2 + skip + m
      BY <1>3, <1>5, <1>6
    <3>4. j \in 1..Len(d)
      <4> DEFINE ahead == i - to
      <4>1. j = 2 + skip + ahead /\ ahead \in Nat /\ 1 <= ahead /\ ahead <= m
        BY <3>1
      <4> HIDE DEF j, ahead
      <4>2. j \in Nat /\ 1 <= j /\ j <= Len(d)
        BY <3>1, <3>3, <4>1
      <4> QED BY <3>1, <3>3, <4>2
    <3>5. from + i - to = start + j
      BY <3>1
    <3> QED BY <3>1, <3>2, <3>4, <3>5
  <2>2. start + j \in 1..Len(signature) /\ signature[start + j] = d[j]
    <3> HIDE DEF j
    <3>1. Len(d) \in Nat
      BY <1>2
    <3>2. j \in Nat /\ 1 <= j /\ j <= Len(d)
      BY <2>1, <3>1
    <3>3. start + j \in 1..Len(signature)
      BY <1>3, <1>4, <3>1, <3>2
    <3> QED BY <1>4, <2>1, <3>3
  <2>3. j = 2 + z + k - n + 1
    BY <1>3, <1>6, <1>7, <2>1
  <2> HIDE DEF j, k
  <2>4. CASE k >= n
    <3>1. k \in n..WIDTH
      BY <1>3, <2>1, <2>4
    <3> QED BY <1>2, <2>1, <2>2, <2>3, <3>1 DEF k
  <2>5. CASE k < n
    <3>1. k \in 1 .. n - 1 /\ k \in Nat
      BY <1>3, <2>1, <2>5
    <3>2. j = 3 /\ z = 1
      <4>1. j >= 3
        BY <1>3, <1>6, <1>7, <2>1 DEF j
      <4> QED BY <1>3, <2>3, <2>5, <3>1, <4>1
    <3> QED BY <1>2, <2>1, <2>2, <3>1, <3>2 DEF k
  <2> QED BY <1>3, <2>1, <2>4, <2>5
<1>9. /\ moved \in Seq(Nat) /\ Len(moved) = Len(out)
      /\ \A i \in 1..Len(out) : moved[i] = IF i \in to + 1 .. to + m
                                       THEN signature[from + i - to] ELSE out[i]
  <2>1. DOMAIN out = 1..Len(out)
    OBVIOUS
  <2>2. moved = [i \in 1..Len(out) |-> IF i \in to + 1 .. to + m
                                       THEN signature[from + i - to] ELSE out[i]]
    BY <2>1 DEF Moved
  <2>3. \A i \in 1..Len(out) : (IF i \in to + 1 .. to + m
                                THEN signature[from + i - to] ELSE out[i]) \in Nat
    BY <1>3, <1>8
  <2> HIDE DEF moved, to, from
  <2> QED BY <1>3, <2>2, <2>3
<1> HIDE DEF moved
<1>10. \A i \in 1..WIDTH : moved[offset + i] = number[i]
  <2> TAKE i \in 1..WIDTH
  <2>1. offset + i \in 1..Len(out) /\ (offset + i) - offset = i /\ i \in Nat
    BY <1>0, <1>3
  <2>2. CASE offset + i \in to + 1 .. to + m
    BY <1>8, <1>9, <2>1, <2>2
  <2>3. CASE offset + i \notin to + 1 .. to + m
    <3>1. offset + i <= to
      BY <1>3, <1>6, <1>7, <2>1, <2>3
    <3>2. i \in 1 .. n - 1
      BY <1>3, <1>6, <1>7, <2>1, <3>1
    <3> QED BY <1>0, <1>2, <1>9, <2>1, <2>3, <3>2
  <2> QED BY <2>2, <2>3
<1>11. \A i \in 1..Len(out) :
          i \notin offset + 1 .. offset + WIDTH => moved[i] = out[i]
  <2> TAKE i \in 1..Len(out)
  <2>1. i \in to + 1 .. to + m => i \in offset + 1 .. offset + WIDTH
    BY <1>3, <1>6, <1>7
  <2> QED BY <1>9, <2>1
<1>12. c.out = moved /\ c.end = start + Len(d)
  <2>1. xlength \in Nat /\ start + 2 + xlength = start + (2 + xlength)
    BY <1>2, <1>3, <1>5
  <2> QED BY <1>1, <1>5, <2>1
<1>13. Holds(c.out, out, offset, number) /\ c.end = start + Len(d)
  BY <1>9, <1>10, <1>11, <1>12 DEF Holds
<1> QED BY <1>13 DEF c, d

(* What a chain id can put in front of a signature is a byte. *)
LEMMA FirstByteIsByte ==
    ASSUME NEW chainID \in Seq(0..255), NEW v \in 0..1
    PROVE  FirstByte(chainID, v) \in 0..255
<1>1. LowestByte(chainID) \in 0..255
  <2>1. CASE chainID = <<>>
    BY <2>1 DEF LowestByte
  <2>2. CASE chainID # <<>>
    <3> DEFINE i == IF Len(chainID) < 4 THEN Len(chainID) ELSE 4
    <3>1. i \in 1..Len(chainID)
      BY <2>2
    <3>2. LowestByte(chainID) = chainID[i]
      BY <2>2 DEF LowestByte
    <3>3. chainID \in [1..Len(chainID) -> 0..255]
      BY LenProperties
    <3>4. chainID[i] \in 0..255
      <4> HIDE DEF i
      <4> QED BY <3>1, <3>3
    <3> QED BY <3>2, <3>4
  <2> QED BY <2>1, <2>2
<1>2. \A x \in 0..255 : (x * 2 + 35 + v) % 256 \in 0..255
  OBVIOUS
<1> QED BY <1>1, <1>2 DEF FirstByte

(* format_signature_out: behind the first byte of a cleared response are r
   and s, and the first byte is untouched. *)
LEMMA FormattedSignature ==
    ASSUME NEW r \in Number, NEW s \in Number, NEW v,
           NEW out \in Seq(Nat), ClearedResponse(out)
    PROVE  Formatted(format_signature_out(Der([r |-> r, s |-> s, v |-> v]), out),
                     out, r, s)
<1> DEFINE dr == DerNumber(r)
           ds == DerNumber(s)
           der == Der([r |-> r, s |-> s, v |-> v])
           cr == CopyNumber(out, 1, der, 4)
           cs == CopyNumber(cr.out, 1 + WIDTH, der, cr.end + 2)
           f == format_signature_out(der, out)
<1>1. /\ WIDTH \in Nat \ {0} /\ Len(out) \in Nat
      /\ 1 + 2 * WIDTH <= Len(out)
      /\ \A i \in 2 .. 1 + 2 * WIDTH : out[i] = 0
  BY WidthAssumption DEF RESPONSE, ClearedResponse
<1>2. dr \in Seq(Nat) /\ ds \in Seq(Nat)
  BY DerNumberShape
<1>3. f = cs.out
  BY DEF format_signature_out
<1>4. der = <<48, Len(dr \o ds)>> \o (dr \o ds)
  BY DEF Der
<1> HIDE DEF dr, ds, der, f
<1>5. Len(dr) \in Nat /\ Len(ds) \in Nat
  BY <1>2
<1>6. /\ der \in Seq(Nat) /\ Len(der) = 2 + Len(dr) + Len(ds)
      /\ \A j \in 1..Len(dr) : der[2 + j] = dr[j]
      /\ \A j \in 1..Len(ds) : der[(2 + Len(dr)) + j] = ds[j]
  <2> DEFINE both == dr \o ds
  <2>1. /\ both \in Seq(Nat) /\ Len(both) = Len(dr) + Len(ds)
        /\ \A j \in 1..Len(dr) : both[j] = dr[j]
        /\ \A j \in 1..Len(ds) : both[Len(dr) + j] = ds[j]
    BY <1>2
  <2> HIDE DEF both
  <2>2. /\ der \in Seq(Nat) /\ Len(der) = 2 + Len(both)
        /\ \A j \in 1..Len(both) : der[2 + j] = both[j]
    BY <1>4, <2>1 DEF both
  <2>3. \A j \in 1..Len(dr) : der[2 + j] = dr[j]
    BY <1>5, <2>1, <2>2
  <2>4. \A j \in 1..Len(ds) : der[(2 + Len(dr)) + j] = ds[j]
    <3> TAKE j \in 1..Len(ds)
    <3>1. Len(dr) + j \in 1..Len(both) /\ (2 + Len(dr)) + j = 2 + (Len(dr) + j)
      BY <1>5, <2>1
    <3> QED BY <2>1, <2>2, <3>1
  <2> QED BY <1>5, <2>1, <2>2, <2>3, <2>4
<1>7. /\ cr.out \in Seq(Nat) /\ Len(cr.out) = Len(out)
      /\ \A i \in 1..WIDTH : cr.out[1 + i] = r[i]
      /\ \A i \in 1..Len(out) : i \notin 1 + 1 .. 1 + WIDTH => cr.out[i] = out[i]
      /\ cr.end = 2 + Len(dr)
  <2>1. Cleared(out, 1)
    BY <1>1 DEF Cleared
  <2>2. Encodes(der, 2, dr)
    BY <1>5, <1>6 DEF Encodes
  <2>3. 1 \in Nat /\ 2 \in Nat /\ 2 + 2 = 4
    OBVIOUS
  <2> DEFINE c == CopyNumber(out, 1, der, 2 + 2)
  <2>4. Holds(c.out, out, 1, r) /\ c.end = 2 + Len(dr)
    BY <1>6, <2>1, <2>2, <2>3, CopyNumberCopies, Zenon DEF dr
  <2>5. c = cr
    BY <2>3
  <2> HIDE DEF c, cr
  <2> QED BY <2>4, <2>5 DEF Holds
<1> HIDE DEF cr
<1>8. /\ cs.out \in Seq(Nat) /\ Len(cs.out) = Len(out)
      /\ \A i \in 1..WIDTH : cs.out[(1 + WIDTH) + i] = s[i]
      /\ \A i \in 1..Len(out) :
             i \notin (1 + WIDTH) + 1 .. (1 + WIDTH) + WIDTH => cs.out[i] = cr.out[i]
  <2>1. Cleared(cr.out, 1 + WIDTH)
    <3>1. \A i \in 1..WIDTH : cr.out[(1 + WIDTH) + i] = 0
      <4> TAKE i \in 1..WIDTH
      <4>1. /\ (1 + WIDTH) + i \in 1..Len(out)
            /\ (1 + WIDTH) + i \in 2 .. 1 + 2 * WIDTH
            /\ (1 + WIDTH) + i \notin 1 + 1 .. 1 + WIDTH
        BY <1>1
      <4> QED BY <1>1, <1>7, <4>1
    <3>2. (1 + WIDTH) + WIDTH <= Len(cr.out)
      BY <1>1, <1>7
    <3> QED BY <3>1, <3>2 DEF Cleared
  <2>2. Encodes(der, 2 + Len(dr), ds)
    BY <1>5, <1>6 DEF Encodes
  <2>3. 1 + WIDTH \in Nat /\ 2 + Len(dr) \in Nat
    BY <1>1, <1>5
  <2> DEFINE c == CopyNumber(cr.out, 1 + WIDTH, der, (2 + Len(dr)) + 2)
  <2>4. Holds(c.out, cr.out, 1 + WIDTH, s)
    BY <1>6, <1>7, <2>1, <2>2, <2>3, CopyNumberCopies, Zenon DEF ds
  <2>5. c = cs
    BY <1>7
  <2> HIDE DEF c, cs
  <2> QED BY <1>7, <2>4, <2>5 DEF Holds
<1> HIDE DEF cs
<1>9. \A i \in 1..WIDTH : f[1 + i] = r[i]
  <2> TAKE i \in 1..WIDTH
  <2>1. /\ 1 + i \in 1..Len(out)
        /\ 1 + i \notin (1 + WIDTH) + 1 .. (1 + WIDTH) + WIDTH
    BY <1>1
  <2> QED BY <1>3, <1>7, <1>8, <2>1
<1>10. f[1] = out[1]
  <2>1. /\ 1 \in 1..Len(out) /\ 1 \notin 1 + 1 .. 1 + WIDTH
        /\ 1 \notin (1 + WIDTH) + 1 .. (1 + WIDTH) + WIDTH
    BY <1>1
  <2> QED BY <1>3, <1>7, <1>8, <2>1
<1>11. \A i \in 1..WIDTH : f[1 + WIDTH + i] = s[i]
  BY <1>3, <1>8
<1>12. f \in Seq(Nat) /\ Len(f) = Len(out)
  BY <1>3, <1>8
<1>13. Formatted(f, out, r, s)
  BY <1>9, <1>10, <1>11, <1>12 DEF Formatted
<1> QED BY <1>13 DEF f, der

HoldsSignature(sent, first, r, s) ==
    /\ sent \in Seq(Nat) /\ Len(sent) = 1 + 2 * WIDTH
    /\ sent[1] = first
    /\ \A i \in 1..WIDTH : sent[1 + i] = r[i]
    /\ \A i \in 1..WIDTH : sent[1 + WIDTH + i] = s[i]

(* What helper_send_response_sig sends for a signature is one byte and the
   whole of r and of s: no number is shifted, cut or mixed with the other,
   whatever lengths their encodings have. *)
THEOREM ResponseHoldsSignature ==
    ASSUME NEW r \in Number, NEW s \in Number, NEW v \in 0..1,
           NEW chainID \in Seq(0..255)
    PROVE  HoldsSignature(helper_send_response_sig(chainID, v,
                                                   Der([r |-> r, s |-> s, v |-> v])),
                          FirstByte(chainID, v), r, s)
<1> DEFINE der == Der([r |-> r, s |-> s, v |-> v])
           first == FirstByte(chainID, v)
           resp == [i \in 1..RESPONSE_BUFFER |-> IF i = 1 THEN first ELSE 0]
           f == format_signature_out(der, resp)
           sent == helper_send_response_sig(chainID, v, der)
<1>1. /\ WIDTH \in Nat \ {0} /\ RESPONSE = 1 + 2 * WIDTH
      /\ RESPONSE_BUFFER \in Nat /\ RESPONSE <= RESPONSE_BUFFER
  BY WidthAssumption DEF RESPONSE, RESPONSE_BUFFER, MAX_DER_SIG_LEN
<1>2. first \in Nat
  <2>1. first \in 0..255
    BY FirstByteIsByte, Zenon
  <2> HIDE DEF first
  <2> QED BY <2>1
<1>3. sent = SubSeq(f, 1, RESPONSE)
  BY DEF helper_send_response_sig
<1> HIDE DEF first, sent
<1>4. /\ resp \in Seq(Nat) /\ Len(resp) = RESPONSE_BUFFER
      /\ resp[1] = first /\ \A i \in 2..RESPONSE : resp[i] = 0
  <2>1. resp \in [1..RESPONSE_BUFFER -> Nat]
    BY <1>2
  <2> QED BY <1>1, <2>1
<1> HIDE DEF resp
<1>5. /\ f \in Seq(Nat) /\ Len(f) = RESPONSE_BUFFER /\ f[1] = first
      /\ \A i \in 1..WIDTH : f[1 + i] = r[i]
      /\ \A i \in 1..WIDTH : f[1 + WIDTH + i] = s[i]
  <2>1. ClearedResponse(resp)
    BY <1>1, <1>4 DEF ClearedResponse
  <2>2. Formatted(f, resp, r, s)
    BY <1>4, <2>1, FormattedSignature, Zenon
  <2> HIDE DEF f
  <2> QED BY <1>4, <2>2 DEF Formatted
<1> HIDE DEF f
<1>6. sent \in Seq(Nat) /\ Len(sent) = RESPONSE /\ \A i \in 1..RESPONSE : sent[i] = f[i]
  <2>1. \A i \in 1..RESPONSE : f[i] \in Nat
    BY <1>1, <1>5
  <2>2. 1 \in Int /\ RESPONSE \in Int /\ 1 <= RESPONSE
    BY <1>1
  <2>3. /\ SubSeq(f, 1, RESPONSE) \in Seq(Nat)
        /\ Len(SubSeq(f, 1, RESPONSE)) = IF 1 <= RESPONSE THEN RESPONSE - 1 + 1 ELSE 0
        /\ \A i \in 1 .. RESPONSE - 1 + 1 : SubSeq(f, 1, RESPONSE)[i] = f[1 + i - 1]
    BY <2>1, <2>2, SubSeqProperties
  <2> QED BY <1>1, <1>3, <2>3
<1>7. /\ 1 \in 1..RESPONSE
      /\ \A i \in 1..WIDTH : 1 + i \in 1..RESPONSE /\ 1 + WIDTH + i \in 1..RESPONSE
  BY <1>1
<1>8. HoldsSignature(sent, first, r, s)
  BY <1>1, <1>5, <1>6, <1>7 DEF HoldsSignature
<1> QED BY <1>8 DEF sent, first, der

------------------------------------------------------------------------------
(* Sequences of names. *)

LEMMA Concatenated ==
    ASSUME NEW S, NEW s \in Seq(S), NEW t \in Seq(S)
    PROVE  /\ s \o t \in Seq(S)
           /\ Len(s \o t) = Len(s) + Len(t)
           /\ \A i \in 1..Len(s) : (s \o t)[i] = s[i]
           /\ \A i \in 1..Len(t) : (s \o t)[Len(s) + i] = t[i]
           /\ ToSet(s \o t) = ToSet(s) \cup ToSet(t)
<1> DEFINE st == s \o t
<1>1. /\ st \in Seq(S) /\ Len(st) = Len(s) + Len(t)
      /\ Len(s) \in Nat /\ Len(t) \in Nat
      /\ \A i \in 1..Len(s) : st[i] = s[i]
      /\ \A i \in 1..Len(t) : st[Len(s) + i] = t[i]
  OBVIOUS
<1> HIDE DEF st
<1>2. DOMAIN st = 1..Len(st) /\ DOMAIN s = 1..Len(s) /\ DOMAIN t = 1..Len(t)
  BY <1>1
<1>3. ToSet(st) \subseteq ToSet(s) \cup ToSet(t)
  <2> SUFFICES ASSUME NEW i \in 1..Len(st)
               PROVE  st[i] \in ToSet(s) \cup ToSet(t)
    BY <1>2 DEF ToSet
  <2>1. CASE i <= Len(s)
    BY <1>1, <1>2, <2>1 DEF ToSet
  <2>2. CASE i > Len(s)
    <3>1. i - Len(s) \in 1..Len(t) /\ Len(s) + (i - Len(s)) = i
      BY <1>1, <2>2
    <3>2. st[i] = t[i - Len(s)]
      BY <1>1, <3>1
    <3> QED BY <1>2, <3>1, <3>2 DEF ToSet
  <2> QED BY <1>1, <2>1, <2>2
<1>4. ToSet(s) \subseteq ToSet(st)
  BY <1>1, <1>2 DEF ToSet
<1>5. ToSet(t) \subseteq ToSet(st)
  <2> SUFFICES ASSUME NEW i \in 1..Len(t) PROVE t[i] \in ToSet(st)
    BY <1>2 DEF ToSet
  <2>1. Len(s) + i \in 1..Len(st) /\ st[Len(s) + i] = t[i]
    BY <1>1
  <2> QED BY <1>2, <2>1 DEF ToSet
<1> QED BY <1>1, <1>3, <1>4, <1>5 DEF st

LEMMA Literal1 ==
    ASSUME NEW S, NEW a \in S
    PROVE  <<a>> \in Seq(S) /\ Len(<<a>>) = 1 /\ ToSet(<<a>>) = {a}
<1> DEFINE s == <<a>>
<1>1. s \in Seq(S)
  OBVIOUS
<1>2. Len(s) = 1
  OBVIOUS
<1>3. DOMAIN s = {1}
  OBVIOUS
<1>4. s[1] = a
  OBVIOUS
<1> HIDE DEF s
<1>5. ToSet(s) = {a}
  BY <1>3, <1>4 DEF ToSet
<1> QED BY <1>1, <1>2, <1>5 DEF s

LEMMA Literal2 ==
    ASSUME NEW S, NEW a \in S, NEW b \in S
    PROVE  <<a, b>> \in Seq(S) /\ Len(<<a, b>>) = 2 /\ ToSet(<<a, b>>) = {a, b}
<1> DEFINE s == <<a, b>>
<1>1. s \in Seq(S)
  OBVIOUS
<1>2. Len(s) = 2
  OBVIOUS
<1>3. DOMAIN s = {1, 2}
  OBVIOUS
<1>4. s[1] = a
  OBVIOUS
<1>5. s[2] = b
  OBVIOUS
<1> HIDE DEF s
<1>6. ToSet(s) = {a, b}
  BY <1>3, <1>4, <1>5 DEF ToSet
<1> QED BY <1>1, <1>2, <1>6 DEF s

LEMMA Literal3 ==
    ASSUME NEW S, NEW a \in S, NEW b \in S, NEW c \in S
    PROVE  <<a, b, c>> \in Seq(S) /\ Len(<<a, b, c>>) = 3 /\ ToSet(<<a, b, c>>) = {a, b, c}
<1> DEFINE s == <<a, b, c>>
<1>1. s \in Seq(S)
  OBVIOUS
<1>2. Len(s) = 3
  OBVIOUS
<1>3. DOMAIN s = {1, 2, 3}
  OBVIOUS
<1>4. s[1] = a
  OBVIOUS
<1>5. s[2] = b
  OBVIOUS
<1>6. s[3] = c
  OBVIOUS
<1> HIDE DEF s
<1>7. ToSet(s) = {a, b, c}
  BY <1>3, <1>4, <1>5, <1>6 DEF ToSet
<1> QED BY <1>1, <1>2, <1>7 DEF s

------------------------------------------------------------------------------
(* The layouts. *)

(* s lists n of the steps, the set T. *)
IsList(s, n, T) == s \in Seq(Steps) /\ Len(s) = n /\ ToSet(s) = T

LEMMA TitlesAre ==
    Titles = {"type", "nonce", "gasPrice", "gasLimit", "to", "contract",
              "feeRatio", "amount"}
BY DEF Titles, StringOf

LEMMA StringOfTitles == \A title \in Titles : StringOf[title] \in Strings
BY DEF Titles, StringOf, Strings

LEMMA StepsAre ==
    /\ "review" \in Steps /\ "approve" \in Steps /\ "reject" \in Steps
    /\ "END" \in Steps /\ "type" \in Steps /\ "nonce" \in Steps
    /\ "gasPrice" \in Steps /\ "gasLimit" \in Steps /\ "to" \in Steps
    /\ "contract" \in Steps /\ "feeRatio" \in Steps /\ "amount" \in Steps
BY TitlesAre DEF Steps

LEMMA ListOf1 == \A a \in Steps : IsList(<<a>>, 1, {a})
BY Literal1, Zenon DEF IsList

LEMMA ListOf2 == \A a, b \in Steps : IsList(<<a, b>>, 2, {a, b})
BY Literal2, Zenon DEF IsList

LEMMA ListOf3 == \A a, b, c \in Steps : IsList(<<a, b, c>>, 3, {a, b, c})
BY Literal3, Zenon DEF IsList

LEMMA ListConcat ==
    ASSUME NEW s, NEW t, NEW n \in Nat, NEW m \in Nat, NEW A, NEW B,
           IsList(s, n, A), IsList(t, m, B)
    PROVE  IsList(s \o t, n + m, A \cup B)
<1>1. /\ s \in Seq(Steps) /\ t \in Seq(Steps)
      /\ Len(s) = n /\ Len(t) = m /\ ToSet(s) = A /\ ToSet(t) = B
  BY DEF IsList
<1>2. /\ s \o t \in Seq(Steps) /\ Len(s \o t) = Len(s) + Len(t)
      /\ ToSet(s \o t) = ToSet(s) \cup ToSet(t)
  BY <1>1, Concatenated, Zenon
<1> QED BY <1>1, <1>2, Zenon DEF IsList

GasTitles == {"nonce", "gasPrice", "gasLimit"}

RatioTitles(t) == IF t.ratio # 0 THEN {"feeRatio"} ELSE {}

LEMMA GasList == IsList(Gas, 3, GasTitles)
BY ListOf3, StepsAre, Zenon DEF Gas, GasTitles

LEMMA FeeRatioList ==
    ASSUME NEW t
    PROVE  \E n \in {0, 1} : IsList(FeeRatio(t), n, RatioTitles(t))
<1>1. CASE t.ratio # 0
  BY <1>1, ListOf1, StepsAre, Zenon DEF FeeRatio, RatioTitles
<1>2. CASE t.ratio = 0
  BY <1>2 DEF FeeRatio, RatioTitles, IsList, ToSet
<1> QED BY <1>1, <1>2

(* The titles every layout of a handler has, in whatever order. *)
Laid(handler, t) ==
    (IF handler # "cancel" THEN {"amount"} ELSE {})
    \cup (IF handler \in {"legacy", "value_transfer"} THEN {"to"} ELSE {})
    \cup (IF handler = "execution" THEN {"contract"} ELSE {})
    \cup GasTitles
    \cup (IF handler # "legacy" THEN RatioTitles(t) ELSE {})

LEMMA BaglFieldsList ==
    ASSUME NEW handler \in Handlers, NEW t
    PROVE  \E n \in 3..6 : IsList(BaglFields(handler, t), n, Laid(handler, t))
<1> DEFINE fields == BaglFields(handler, t)
           fee == FeeRatio(t)
           paid == {"amount", "to"}
           called == {"amount", "contract"}
<1>1. PICK k \in {0, 1} : IsList(fee, k, RatioTitles(t))
  BY FeeRatioList
<1>2. IsList(Gas, 3, GasTitles)
  BY GasList
<1>3. /\ IsList(<<"amount", "to">>, 2, paid)
      /\ IsList(<<"amount", "contract">>, 2, called)
      /\ IsList(<<"nonce", "gasPrice">>, 2, {"nonce", "gasPrice"})
      /\ IsList(<<"amount">>, 1, {"amount"})
      /\ IsList(<<"gasLimit">>, 1, {"gasLimit"})
  BY ListOf1, ListOf2, StepsAre, Zenon
<1>4. 2 + 3 \in Nat /\ 1 + 3 \in Nat /\ 2 + k \in Nat /\ k \in Nat
      /\ 1 \in Nat /\ 2 \in Nat /\ 3 \in Nat
  BY <1>1
<1> HIDE DEF fee, fields
<1> SUFFICES \E n \in 3..6 : IsList(fields, n, Laid(handler, t))
  BY DEF fields
<1>5. CASE handler = "legacy"
  <2>1. fields = <<"amount", "to">> \o Gas
    BY <1>5 DEF BaglFields, fields
  <2>2. IsList(fields, 2 + 3, paid \cup GasTitles)
    BY <1>2, <1>3, <1>4, <2>1, ListConcat, Zenon
  <2>3. Laid(handler, t) = paid \cup GasTitles
    BY <1>5 DEF Laid
  <2> QED BY <2>2, <2>3
<1>6. CASE handler = "value_transfer"
  <2>1. fields = (<<"amount", "to">> \o Gas) \o fee
    BY <1>6 DEF BaglFields, fee, fields
  <2>2. IsList(<<"amount", "to">> \o Gas, 2 + 3, paid \cup GasTitles)
    BY <1>2, <1>3, <1>4, ListConcat, Zenon
  <2>3. IsList(fields, 2 + 3 + k, paid \cup GasTitles \cup RatioTitles(t))
    BY <1>1, <1>4, <2>1, <2>2, ListConcat, Zenon
  <2>4. Laid(handler, t) = paid \cup GasTitles \cup RatioTitles(t)
    BY <1>6 DEF Laid
  <2> QED BY <1>1, <2>3, <2>4
<1>7. CASE handler = "deploy"
  <2>1. fields = (<<"amount">> \o Gas) \o fee
    BY <1>7 DEF BaglFields, fee, fields
  <2>2. IsList(<<"amount">> \o Gas, 1 + 3, {"amount"} \cup GasTitles)
    BY <1>2, <1>3, <1>4, ListConcat, Zenon
  <2>3. IsList(fields, 1 + 3 + k, {"amount"} \cup GasTitles \cup RatioTitles(t))
    BY <1>1, <1>4, <2>1, <2>2, ListConcat, Zenon
  <2>4. Laid(handler, t) = {"amount"} \cup GasTitles \cup RatioTitles(t)
    BY <1>7 DEF Laid
  <2> QED BY <1>1, <2>3, <2>4
<1>8. CASE handler = "execution"
  <2>1. fields = (<<"amount", "contract">> \o Gas) \o fee
    BY <1>8 DEF BaglFields, fee, fields
  <2>2. IsList(<<"amount", "contract">> \o Gas, 2 + 3, called \cup GasTitles)
    BY <1>2, <1>3, <1>4, ListConcat, Zenon
  <2>3. IsList(fields, 2 + 3 + k, called \cup GasTitles \cup RatioTitles(t))
    BY <1>1, <1>4, <2>1, <2>2, ListConcat, Zenon
  <2>4. Laid(handler, t) = called \cup GasTitles \cup RatioTitles(t)
    BY <1>8 DEF Laid
  <2> QED BY <1>1, <2>3, <2>4
<1>9. CASE handler = "cancel"
  <2>1. fields = (<<"nonce", "gasPrice">> \o fee) \o <<"gasLimit">>
    BY <1>9 DEF BaglFields, fee, fields
  <2>2. IsList(<<"nonce", "gasPrice">> \o fee, 2 + k,
               {"nonce", "gasPrice"} \cup RatioTitles(t))
    BY <1>1, <1>3, <1>4, ListConcat, Zenon
  <2>3. IsList(fields, 2 + k + 1,
               ({"nonce", "gasPrice"} \cup RatioTitles(t)) \cup {"gasLimit"})
    BY <1>3, <1>4, <2>1, <2>2, ListConcat, Zenon
  <2>4. Laid(handler, t) = ({"nonce", "gasPrice"} \cup RatioTitles(t)) \cup {"gasLimit"}
    BY <1>9 DEF Laid, GasTitles
  <2> QED BY <1>1, <2>3, <2>4
<1> QED BY <1>5, <1>6, <1>7, <1>8, <1>9 DEF Handlers

LEMMA LaidAreTitles ==
    ASSUME NEW handler, NEW t
    PROVE  Laid(handler, t) \cup {"type"} \subseteq Titles
BY TitlesAre DEF Laid, GasTitles, RatioTitles

(* A layout that shows the titles of T, on n pages or on n - 1 behind another,
   and what comes behind them. *)
Layout(list, n, T) ==
    /\ \A i \in 1..n : list[i] \in T \cup {"review"}
    /\ \A title \in T : \E i \in 1..n : list[i] = title

LEMMA ListIsLayout ==
    ASSUME NEW s, NEW n \in Nat, NEW T, NEW U,
           IsList(s, n, U), U \subseteq T \cup {"review"}, T \subseteq U
    PROVE  Layout(s, n, T)
<1>1. s \in Seq(Steps) /\ Len(s) = n /\ ToSet(s) = U
  BY DEF IsList
<1>2. DOMAIN s = 1..n
  BY <1>1
<1>3. \A i \in 1..n : s[i] \in U
  BY <1>1, <1>2 DEF ToSet
<1>4. \A title \in U : \E i \in 1..n : s[i] = title
  BY <1>1, <1>2 DEF ToSet
<1> QED BY <1>3, <1>4 DEF Layout

LEMMA StepsLayout ==
    ASSUME NEW handler \in Handlers, NEW t
    PROVE  \E n \in 5..8 :
              LET steps == StepsOf(handler, t) IN
              /\ steps \in Seq(Steps) /\ Len(steps) = n + 2
              /\ Layout(steps, n, Laid(handler, t) \cup {"type"})
              /\ steps[1] = "review"
              /\ steps[n + 1] = "approve" /\ steps[n + 2] = "reject"
<1> DEFINE T == Laid(handler, t) \cup {"type"}
           fields == BaglFields(handler, t)
           first == <<"review", "type">>
           head == first \o fields
           last == <<"approve", "reject">>
           steps == head \o last
<1>1. PICK k \in 3..6 : IsList(fields, k, Laid(handler, t))
  BY BaglFieldsList
<1> HIDE DEF fields
<1>2. IsList(first, 2, {"review", "type"})
  BY ListOf2, StepsAre, Zenon
<1>3. k \in Nat /\ 2 \in Nat /\ 2 + k \in 5..8 /\ 2 + k \in Nat
  BY <1>1
<1>4. first[1] = "review"
  OBVIOUS
<1> HIDE DEF first
<1>5. IsList(head, 2 + k, {"review", "type"} \cup Laid(handler, t))
  BY <1>1, <1>2, <1>3, ListConcat, Zenon
<1>6. head[1] = "review"
  <2>1. first \in Seq(Steps) /\ fields \in Seq(Steps) /\ Len(first) = 2
    BY <1>1, <1>2 DEF IsList
  <2>2. 1 \in 1..Len(first)
    BY <2>1
  <2> QED BY <1>4, <2>1, <2>2, Concatenated, Zenon
<1> HIDE DEF head
<1>7. Layout(head, 2 + k, T)
  BY <1>3, <1>5, ListIsLayout
<1>8. last \in Seq(Steps) /\ Len(last) = 2
  BY StepsAre
<1>9. last[1] = "approve" /\ last[2] = "reject"
  OBVIOUS
<1> HIDE DEF last
<1>10. head \in Seq(Steps) /\ Len(head) = 2 + k
  BY <1>5 DEF IsList
<1>11. /\ steps \in Seq(Steps) /\ Len(steps) = Len(head) + Len(last)
       /\ \A i \in 1..Len(head) : steps[i] = head[i]
       /\ \A i \in 1..Len(last) : steps[Len(head) + i] = last[i]
  <2>1. head \in Seq(Steps) /\ last \in Seq(Steps)
    BY <1>8, <1>10
  <2>2. steps \in Seq(Steps) /\ Len(steps) = Len(head) + Len(last)
    BY <2>1, Concatenated, Zenon
  <2>3. \A i \in 1..Len(head) : steps[i] = head[i]
    BY <2>1, Concatenated, Zenon
  <2>4. \A i \in 1..Len(last) : steps[Len(head) + i] = last[i]
    BY <2>1
  <2> QED BY <2>2, <2>3, <2>4
<1> HIDE DEF steps
<1>12. /\ \A i \in 1..2 + k : steps[i] = head[i]
       /\ \A i \in 1..2 : steps[2 + k + i] = last[i]
       /\ Len(steps) = 2 + k + 2
  BY <1>8, <1>10, <1>11
<1>13. Layout(steps, 2 + k, T)
  BY <1>7, <1>12 DEF Layout
<1>14. steps[1] = "review"
  BY <1>3, <1>6, <1>12
<1>15. steps[2 + k + 1] = "approve" /\ steps[2 + k + 2] = "reject"
  BY <1>9, <1>12
<1>16. steps = StepsOf(handler, t)
  BY DEF steps, head, first, last, fields, StepsOf
<1> QED BY <1>3, <1>11, <1>12, <1>13, <1>14, <1>15, <1>16

(* A list with one more entry, as BAGL's flows and NBGL's pages end. *)
LEMMA EndedBy ==
    ASSUME NEW s \in Seq(Steps), NEW step \in Steps
    PROVE  /\ s \o <<step>> \in Seq(Steps)
           /\ Len(s \o <<step>>) = Len(s) + 1
           /\ DOMAIN (s \o <<step>>) = 1..Len(s) + 1
           /\ \A i \in 1..Len(s) : (s \o <<step>>)[i] = s[i]
           /\ (s \o <<step>>)[Len(s) + 1] = step
OBVIOUS

LEMMA FlowLayout ==
    ASSUME NEW handler \in Handlers, NEW t
    PROVE  \E n \in 5..8 :
              LET flow == BaglFlow(handler, t)
                  steps == StepsOf(handler, t) IN
              /\ flow \in Seq(Steps) /\ Len(flow) = n + 3
              /\ steps \in Seq(Steps) /\ Len(steps) = n + 2
              /\ \A i \in 1..n + 2 : flow[i] = steps[i]
              /\ Layout(flow, n, Laid(handler, t) \cup {"type"})
              /\ flow[1] = "review"
              /\ flow[n + 1] = "approve" /\ flow[n + 2] = "reject"
              /\ flow[n + 3] = "END"
<1> DEFINE T == Laid(handler, t) \cup {"type"}
           steps == StepsOf(handler, t)
           flow == steps \o <<"END">>
<1>1. PICK n \in 5..8 :
          /\ steps \in Seq(Steps) /\ Len(steps) = n + 2
          /\ Layout(steps, n, T)
          /\ steps[1] = "review"
          /\ steps[n + 1] = "approve" /\ steps[n + 2] = "reject"
  BY StepsLayout, Zenon
<1>2. flow = BaglFlow(handler, t)
  BY DEF BaglFlow
<1> HIDE DEF steps, T
<1>3. "END" \in Steps
  BY StepsAre
<1>4. /\ flow \in Seq(Steps) /\ Len(flow) = Len(steps) + 1
      /\ \A i \in 1..Len(steps) : flow[i] = steps[i]
      /\ flow[Len(steps) + 1] = "END"
  BY <1>1, <1>3, EndedBy, Zenon
<1> HIDE DEF flow
<1>5. n \in Nat /\ n >= 1 /\ n + 2 + 1 = n + 3
  BY <1>1
<1>6. /\ Len(flow) = n + 3 /\ flow[n + 3] = "END"
      /\ \A i \in 1..n + 2 : flow[i] = steps[i]
  BY <1>1, <1>4, <1>5
<1>7. flow[1] = "review" /\ flow[n + 1] = "approve" /\ flow[n + 2] = "reject"
  BY <1>1, <1>5, <1>6
<1>8. Layout(flow, n, T)
  BY <1>1, <1>5, <1>6 DEF Layout
<1> QED BY <1>1, <1>2, <1>4, <1>6, <1>7, <1>8 DEF steps, T

(* n pairs with the titles of T, and an amount whether or not that is one. *)
PairsList(list, n, T) ==
    /\ list \in Seq(Steps) /\ Len(list) = n
    /\ \A i \in 1..n : list[i] \in T \cup {"amount"}
    /\ \A title \in T : \E i \in 1..n : list[i] = title

LEMMA PairsLayout ==
    ASSUME NEW handler \in Handlers, NEW t
    PROVE  \E n \in 5..7 : PairsList(NbglPairs(handler, t), n,
                                     Laid(handler, t) \cup {"type"})
<1> DEFINE first == <<"type", "amount">>
           called == CASE handler \in {"legacy", "value_transfer"} -> <<"to">>
                       [] handler = "execution" -> <<"contract">>
                       [] OTHER -> <<>>
           C == CASE handler \in {"legacy", "value_transfer"} -> {"to"}
                  [] handler = "execution" -> {"contract"}
                  [] OTHER -> {}
           gas == <<"gasPrice", "gasLimit", "nonce">>
           fee == IF handler = "legacy" THEN <<>> ELSE FeeRatio(t)
           F == IF handler = "legacy" THEN {} ELSE RatioTitles(t)
           list == ((first \o called) \o gas) \o fee
           U == (({"type", "amount"} \cup C) \cup {"gasPrice", "gasLimit", "nonce"}) \cup F
<1>1. IsList(first, 2, {"type", "amount"})
  BY ListOf2, StepsAre, Zenon
<1>2. IsList(gas, 3, {"gasPrice", "gasLimit", "nonce"})
  BY ListOf3, StepsAre, Zenon
<1>3. IsList(<<>>, 0, {})
  BY DEF IsList, ToSet
<1>4. IsList(<<"to">>, 1, {"to"}) /\ IsList(<<"contract">>, 1, {"contract"})
  BY ListOf1, StepsAre, Zenon
<1>5. \E n \in {0, 1} : IsList(called, n, C)
  BY <1>3, <1>4
<1>6. PICK c \in {0, 1} : IsList(called, c, C)
  BY <1>5
<1>7. \E n \in {0, 1} : IsList(fee, n, F)
  BY <1>3, FeeRatioList
<1>8. PICK k \in {0, 1} : IsList(fee, k, F)
  BY <1>7
<1>9. Laid(handler, t) \cup {"type"} \subseteq U
  BY DEF Laid, GasTitles, Handlers
<1>10. U \subseteq (Laid(handler, t) \cup {"type"}) \cup {"amount"}
  BY DEF Laid, GasTitles, Handlers
<1>11. list = NbglPairs(handler, t)
  BY DEF NbglPairs
<1> HIDE DEF first, called, gas, fee, C, F
<1>12. 2 \in Nat /\ 3 \in Nat /\ c \in Nat /\ k \in Nat /\ 2 + c \in Nat
       /\ 2 + c + 3 \in Nat /\ 2 + c + 3 + k \in 5..7
  BY <1>6, <1>8
<1>13. IsList(first \o called, 2 + c, {"type", "amount"} \cup C)
  BY <1>1, <1>6, <1>12, ListConcat, Zenon
<1>14. IsList((first \o called) \o gas, 2 + c + 3,
              ({"type", "amount"} \cup C) \cup {"gasPrice", "gasLimit", "nonce"})
  BY <1>2, <1>12, <1>13, ListConcat, Zenon
<1>15. IsList(list, 2 + c + 3 + k, U)
  BY <1>8, <1>12, <1>14, ListConcat, Zenon
<1> HIDE DEF list, U
<1>16. /\ list \in Seq(Steps) /\ Len(list) = 2 + c + 3 + k /\ ToSet(list) = U
  BY <1>15 DEF IsList
<1>17. DOMAIN list = 1..2 + c + 3 + k
  BY <1>16
<1>18. \A i \in 1..2 + c + 3 + k : list[i] \in (Laid(handler, t) \cup {"type"}) \cup {"amount"}
  BY <1>10, <1>16, <1>17 DEF ToSet
<1>19. \A title \in Laid(handler, t) \cup {"type"} :
          \E i \in 1..2 + c + 3 + k : list[i] = title
  BY <1>9, <1>16, <1>17 DEF ToSet
<1>20. PairsList(list, 2 + c + 3 + k, Laid(handler, t) \cup {"type"})
  BY <1>16, <1>18, <1>19 DEF PairsList
<1> QED BY <1>11, <1>12, <1>20

------------------------------------------------------------------------------
(* The fields of a type. *)

LEMMA LegacyHasNoRatio == ~ Has(LEGACY, "ratio")
<1> DEFINE first == <<"nonce", "gasprice", "startgas", "to", "value", "data">>
           last == <<"chainID", "discard", "discard">>
           f == first \o last
<1>1. Fields(LEGACY) = f
  BY DEF Fields, LegacyFields, Trailer
<1>2. \A i \in 1..9 : f[i] # "ratio"
  OBVIOUS
<1>3. DOMAIN f = 1..9
  OBVIOUS
<1> QED BY <1>1, <1>2, <1>3 DEF Has

LEMMA DeployHasNoTo ==
    \A i \in DOMAIN FieldsOfKind("deploy") : FieldsOfKind("deploy")[i] # "to"
<1> DEFINE first == <<"content", "type", "nonce", "gasprice", "startgas">>
           kind == <<"discard", "value", "discard", "data", "discard", "ratio", "discard">>
           last == <<"chainID", "discard", "discard">>
           f == (first \o kind) \o last
<1>1. FieldsOfKind("deploy") = f
  BY DEF FieldsOfKind, Preamble, Trailer
<1>2. \A i \in 1..15 : f[i] # "to"
  OBVIOUS
<1>3. DOMAIN f = 1..15
  OBVIOUS
<1> QED BY <1>1, <1>2, <1>3

LEMMA CancelHasNoToOrValue ==
    \A i \in DOMAIN FieldsOfKind("cancel") : FieldsOfKind("cancel")[i] \notin {"to", "value"}
<1> DEFINE first == <<"content", "type", "nonce", "gasprice", "startgas">>
           kind == <<"discard", "ratio">>
           last == <<"chainID", "discard", "discard">>
           f == (first \o kind) \o last
<1>1. FieldsOfKind("cancel") = f
  BY DEF FieldsOfKind, Preamble, Trailer
<1>2. \A i \in 1..10 : f[i] \notin {"to", "value"}
  OBVIOUS
<1>3. DOMAIN f = 1..10
  OBVIOUS
<1> QED BY <1>1, <1>2, <1>3

LEMMA HandlerIsHandler ==
    ASSUME NEW type, Supported(type)
    PROVE  HandlerOf(type) \in Handlers
<1>1. CASE type = LEGACY
  BY <1>1 DEF HandlerOf, Handlers
<1>2. CASE type # LEGACY
  <2> DEFINE kind == CHOOSE k \in Kinds : type \in TypesOf(k)
  <2>1. kind \in Kinds
    BY <1>2 DEF Supported
  <2>2. HandlerOf(type) = IF kind = "memo" THEN "value_transfer" ELSE kind
    BY <1>2 DEF HandlerOf
  <2> HIDE DEF kind
  <2> QED BY <2>1, <2>2 DEF Kinds, Handlers
<1> QED BY <1>1, <1>2

(* The layouts have a page for every field the owner has to know. *)
LEMMA FieldsAreLaid ==
    ASSUME NEW t, Supported(t.txType)
    PROVE  TitlesFor(t) \subseteq Laid(HandlerOf(t.txType), t) \cup {"type"}
<1> DEFINE type == t.txType
           handler == HandlerOf(type)
           to == IF Has(type, "to")
                 THEN {IF handler = "execution" THEN "contract" ELSE "to"} ELSE {}
           value == IF Has(type, "value") THEN {"amount"} ELSE {}
           ratio == IF Has(type, "ratio") /\ t.ratio # 0 THEN {"feeRatio"} ELSE {}
<1>1. TitlesFor(t) = {"type", "nonce", "gasPrice", "gasLimit"} \cup to \cup value \cup ratio
  BY DEF TitlesFor
<1>2. {"type", "nonce", "gasPrice", "gasLimit"} \subseteq Laid(handler, t) \cup {"type"}
  BY DEF Laid, GasTitles
<1>3. to \cup value \cup ratio \subseteq Laid(handler, t)
  <2>1. CASE type = LEGACY
    <3>1. handler = "legacy" /\ ~ Has(type, "ratio")
      BY <2>1, LegacyHasNoRatio DEF HandlerOf
    <3> HIDE DEF handler
    <3>2. to \subseteq {"to"} /\ value \subseteq {"amount"} /\ ratio = {}
      BY <3>1
    <3> HIDE DEF to, value, ratio
    <3> QED BY <3>1, <3>2 DEF Laid
  <2>2. CASE type # LEGACY
    <3> DEFINE kind == CHOOSE k \in Kinds : type \in TypesOf(k)
    <3>1. kind \in Kinds
      BY <2>2 DEF Supported
    <3>2. handler = IF kind = "memo" THEN "value_transfer" ELSE kind
      BY <2>2 DEF HandlerOf
    <3>3. Fields(type) = FieldsOfKind(kind)
      BY <2>2 DEF Fields
    <3> HIDE DEF kind
    <3>4. kind = "deploy" => ~ Has(type, "to")
      BY <3>3, DeployHasNoTo DEF Has
    <3>5. kind = "cancel" => ~ Has(type, "to") /\ ~ Has(type, "value")
      BY <3>3, CancelHasNoToOrValue DEF Has
    <3> HIDE DEF handler
    <3>6. /\ ratio \subseteq RatioTitles(t)
          /\ value \subseteq {"amount"} /\ (kind = "cancel" => value = {})
          /\ to \subseteq {IF handler = "execution" THEN "contract" ELSE "to"}
          /\ kind \in {"deploy", "cancel"} => to = {}
      BY <3>4, <3>5 DEF RatioTitles
    <3> HIDE DEF to, value, ratio
    <3> QED BY <3>1, <3>2, <3>6 DEF Laid, Kinds
  <2> QED BY <2>1, <2>2
<1> HIDE DEF to, value, ratio, handler
<1>4. TitlesFor(t) \subseteq Laid(handler, t) \cup {"type"}
  BY <1>1, <1>2, <1>3
<1> QED BY <1>4 DEF handler

------------------------------------------------------------------------------
(* The strings. *)

LEMMA OrderOfStrings == \A i \in DOMAIN Order : Order[i] \in Strings
BY DEF Order, Strings

LEMMA FilledAll ==
    ASSUME NEW texts, Formats(texts)
    PROVE  \A f \in Strings : Filled(texts)[f] = texts[f]
BY OrderOfStrings DEF Filled, Formats

LEMMA FormattedIsSupported ==
    ASSUME NEW t, Formats(Texts(t))
    PROVE  Supported(t.txType)
<1>1. Texts(t)["type"] = format_transaction_type(t.txType)
  BY DEF Texts
<1>2. "type" \in Strings
  BY DEF Strings
<1>3. format_transaction_type(t.txType) # Failed
  BY <1>1, <1>2 DEF Formats
<1> QED BY <1>3 DEF format_transaction_type, Supported

------------------------------------------------------------------------------
(* The inductive invariant.  That an approval comes after every page does not *)
(* follow from the pages that are shown but from the way the owner went: the  *)
(* page that approves is behind all those with a field, each of them was on   *)
(* the screen when it was reached, and what it showed is still what the       *)
(* strings of this transaction hold.                                          *)

Typed ==
    /\ ux \in {"BAGL", "NBGL"}
    /\ tx \in Txs \cup {NoTx}
    /\ DOMAIN strings = Strings
    /\ flows \in [Handlers -> [1..MAX_FLOW_STEPS -> Steps]]
    /\ pairs \in [1..MAX_PAIRS -> Steps]
    /\ nbPairs \in 0..MAX_PAIRS
    /\ screen \in {"menu", "start", "pages"}
    /\ reviews \in 0..MAX_REVIEWS

Reviewed ==
    screen # "menu" =>
        /\ tx \in Txs
        /\ Formats(Texts(tx))
        /\ \A f \in Strings : strings[f] = Texts(tx)[f]
        /\ reply = NoReply

Started == screen = "start" => ux = "NBGL" /\ shown = <<>>

Wanted == Laid(HandlerOf(tx.txType), tx) \cup {"type"}

(* n pages, none of a field the transaction has not but an amount, and the one
   that approves. *)
PagesOf(n) ==
    /\ \A i \in 1..n : Current(i) \in Wanted \cup {"amount", "review"}
    /\ \A title \in Wanted : \E i \in 1..n : Current(i) = title
    /\ Current(n + 1) = "approve"
    /\ IF ux = "BAGL" THEN Flow[n + 2] = "reject" /\ Flow[n + 3] = "END"
                      ELSE nbPairs = n

Reached(n) ==
    /\ at \in 1..(IF ux = "BAGL" THEN n + 2 ELSE n + 1)
    /\ \A i \in 1..n : i <= at /\ Current(i) \in Titles => Current(i) \in DOMAIN shown

Paged ==
    IF screen = "pages" THEN \E n \in 5..8 : PagesOf(n) /\ Reached(n) ELSE at = 0

(* The arrays hold this review's entries as far as the owner can get. *)
OwnLayout ==
    screen = "pages" =>
        /\ at \in 1..Len(OwnEntries) /\ OwnEntries \in Seq(Steps)
        /\ \A i \in 1..Len(OwnEntries) : Current(i) = OwnEntries[i]
        /\ IF ux = "BAGL" THEN Flow[Len(OwnEntries) + 1] = "END"
                          ELSE nbPairs + 1 = Len(OwnEntries)

ShownIsString ==
    \A title \in DOMAIN shown :
        title \in Titles /\ shown[title] = strings[StringOf[title]]

(* What was shown is of the transaction in the context. *)
Viewed ==
    DOMAIN shown # {} =>
        /\ tx \in Txs
        /\ Formats(Texts(tx))
        /\ \A f \in Strings : strings[f] = Texts(tx)[f]
        /\ DOMAIN shown \subseteq Wanted \cup {"amount"}

Signed ==
    reply.kind = "signature" =>
        /\ tx \in Txs
        /\ reply.signature \in Signatures
        /\ reply.sent = helper_send_response_sig(tx.chainID, reply.signature.v,
                                                 Der(reply.signature))

ReviewInv ==
    /\ Typed
    /\ Reviewed
    /\ Started
    /\ Paged
    /\ OwnLayout
    /\ ShownIsString
    /\ Viewed
    /\ ApprovalSeesAll
    /\ Signed

LEMMA WantedAreTitles == Wanted \cup {"amount"} \subseteq Titles
BY LaidAreTitles, TitlesAre DEF Wanted

LEMMA OverlaidIsArray ==
    ASSUME NEW list \in Seq(Steps), NEW max \in Nat, Len(list) <= max,
           NEW array \in [1..max -> Steps]
    PROVE  /\ Overlaid(list, array) \in [1..max -> Steps]
           /\ \A i \in 1..Len(list) : Overlaid(list, array)[i] = list[i]
<1>1. DOMAIN list = 1..Len(list) /\ Len(list) \in Nat /\ DOMAIN array = 1..max
  OBVIOUS
<1>2. DOMAIN list \cup DOMAIN array = 1..max
  BY <1>1
<1>3. \A i \in DOMAIN list : list[i] \in Steps
  BY <1>1
<1> QED BY <1>1, <1>2, <1>3 DEF Overlaid

LEMMA InitReview == Init => ReviewInv
<1> SUFFICES ASSUME Init PROVE ReviewInv
  OBVIOUS
<1>1. /\ ux \in {"BAGL", "NBGL"} /\ tx = NoTx /\ strings = Blank /\ nbPairs = 0
      /\ screen = "menu" /\ at = 0 /\ shown = <<>> /\ reply = Status("OK")
      /\ reviews = 0 /\ pairs = [i \in 1..MAX_PAIRS |-> "NULL"]
  BY DEF Init
<1>2. flows \in [Handlers -> [1..MAX_FLOW_STEPS -> Steps]]
  <2> DEFINE none == [i \in 1..MAX_FLOW_STEPS |-> "NULL"]
             flow == BaglFlow("legacy", NoTx)
  <2>1. none \in [1..MAX_FLOW_STEPS -> Steps]
    BY DEF Steps
  <2>2. flow \in Seq(Steps) /\ Len(flow) <= MAX_FLOW_STEPS
    <3>1. "legacy" \in Handlers
      BY DEF Handlers
    <3>2. PICK n \in 5..8 : flow \in Seq(Steps) /\ Len(flow) = n + 3
      BY <3>1, FlowLayout, Zenon
    <3> HIDE DEF flow
    <3> QED BY <3>2 DEF MAX_FLOW_STEPS
  <2>3. <<>> \in Seq(Steps) /\ Len(<<>>) <= MAX_FLOW_STEPS /\ MAX_FLOW_STEPS \in Nat
    BY DEF MAX_FLOW_STEPS
  <2>4. flows = [h \in Handlers |->
                    Overlaid(IF h = "legacy" THEN BaglFlow(h, NoTx) ELSE <<>>, none)]
    BY DEF Init
  <2>5. \A h \in Handlers : flows[h] = IF h = "legacy" THEN Overlaid(flow, none)
                                                      ELSE Overlaid(<<>>, none)
    BY <2>4
  <2> HIDE DEF none, flow
  <2>6. Overlaid(flow, none) \in [1..MAX_FLOW_STEPS -> Steps]
    BY <2>1, <2>2, <2>3, OverlaidIsArray
  <2>7. Overlaid(<<>>, none) \in [1..MAX_FLOW_STEPS -> Steps]
    BY <2>1, <2>3, OverlaidIsArray
  <2> QED BY <2>4, <2>5, <2>6, <2>7
<1>3. Typed
  <2>1. DOMAIN strings = Strings
    BY <1>1 DEF Blank
  <2>2. pairs \in [1..MAX_PAIRS -> Steps]
    BY <1>1 DEF Steps
  <2>3. nbPairs \in 0..MAX_PAIRS /\ reviews \in 0..MAX_REVIEWS
    BY <1>1, ReviewAssumption DEF MAX_PAIRS
  <2> QED BY <1>1, <1>2, <2>1, <2>2, <2>3 DEF Typed
<1>4. Reviewed /\ Started /\ Paged /\ OwnLayout
  BY <1>1 DEF Reviewed, Started, Paged, OwnLayout
<1>5. ShownIsString /\ Viewed
  BY <1>1 DEF ShownIsString, Viewed
<1>6. reply.kind = "OK"
  BY <1>1 DEF Status, NoReply
<1>7. ApprovalSeesAll /\ Signed
  BY <1>6 DEF ApprovalSeesAll, Signed
<1> QED BY <1>3, <1>4, <1>5, <1>7 DEF ReviewInv

LEMMA OpenReview ==
    ASSUME ReviewInv, NEW t \in Txs, Open(t)
    PROVE  ReviewInv'
<1> DEFINE handler == HandlerOf(t.txType)
           texts == Texts(t)
           list == BaglFlow(handler, t)
<1>1. /\ screen = "menu" /\ reviews < MAX_REVIEWS /\ reviews' = reviews + 1
      /\ tx' = t /\ strings' = Filled(texts) /\ shown' = <<>>
      /\ ux' = ux /\ pairs' = pairs /\ nbPairs' = nbPairs
  BY DEF Open
<1>2. Typed /\ Paged
  BY DEF ReviewInv
<1>3. reply' \in {Status("DISPLAY_FAIL"), NoReply}
  BY DEF Open
<1>4. reply'.kind # "signature"
  BY <1>3 DEF Status, NoReply
<1>5. (ApprovalSeesAll /\ Signed)'
  BY <1>4 DEF ApprovalSeesAll, Signed
<1>6. ShownIsString' /\ Viewed'
  BY <1>1 DEF ShownIsString, Viewed
<1>7. DOMAIN strings' = Strings
  BY <1>1 DEF Filled
<1>8. reviews' \in 0..MAX_REVIEWS
  BY <1>1, <1>2, ReviewAssumption DEF Typed
<1>9. CASE ~ Formats(texts)
  <2>1. flows' = flows /\ screen' = screen /\ at' = at
    BY <1>9 DEF Open
  <2>2. Typed'
    BY <1>1, <1>2, <1>7, <1>8, <2>1 DEF Typed
  <2>3. (Reviewed /\ Started /\ Paged /\ OwnLayout)'
    BY <1>1, <1>2, <2>1 DEF Reviewed, Started, Paged, OwnLayout
  <2> QED BY <1>5, <1>6, <2>2, <2>3 DEF ReviewInv
<1>10. CASE Formats(texts)
  <2>1. handler \in Handlers
    BY <1>10, FormattedIsSupported, HandlerIsHandler
  <2>2. \A f \in Strings : strings'[f] = texts[f]
    BY <1>1, <1>10, FilledAll
  <2>3. reply' = NoReply /\ screen' \in {"start", "pages"}
    BY <1>10 DEF Open
  <2>4. Reviewed'
    BY <1>1, <1>10, <2>2, <2>3 DEF Reviewed
  <2>5. CASE ux = "BAGL"
    <3>1. /\ flows' = [flows EXCEPT ![handler] = Overlaid(list, @)]
          /\ screen' = "pages" /\ at' = 1
      BY <1>10, <2>5 DEF Open
    <3> DEFINE T == Laid(handler, t) \cup {"type"}
               steps == StepsOf(handler, t)
    <3>2. PICK n \in 5..8 :
              /\ list \in Seq(Steps) /\ Len(list) = n + 3
              /\ steps \in Seq(Steps) /\ Len(steps) = n + 2
              /\ \A i \in 1..n + 2 : list[i] = steps[i]
              /\ Layout(list, n, T)
              /\ list[1] = "review"
              /\ list[n + 1] = "approve" /\ list[n + 2] = "reject"
              /\ list[n + 3] = "END"
      BY <2>1, FlowLayout
    <3>3. flows \in [Handlers -> [1..MAX_FLOW_STEPS -> Steps]]
      BY <1>2 DEF Typed
    <3>4. MAX_FLOW_STEPS \in Nat /\ n + 3 <= MAX_FLOW_STEPS
      BY DEF MAX_FLOW_STEPS
    <3> HIDE DEF list, handler, steps, T
    <3>16. list \in Seq(Steps) /\ Len(list) <= MAX_FLOW_STEPS /\ Len(list) = n + 3
      BY <3>2, <3>4
    <3>17. flows[handler] \in [1..MAX_FLOW_STEPS -> Steps]
      BY <2>1, <3>3
    <3> DEFINE array == Overlaid(list, flows[handler])
    <3>5. /\ array \in [1..MAX_FLOW_STEPS -> Steps]
          /\ \A i \in 1..n + 3 : array[i] = list[i]
      BY <3>4, <3>16, <3>17, OverlaidIsArray
    <3>6. flows'[handler] = array
      BY <2>1, <3>1, <3>3
    <3>7. flows' \in [Handlers -> [1..MAX_FLOW_STEPS -> Steps]]
      BY <2>1, <3>1, <3>3, <3>5
    <3> HIDE DEF array
    <3>8. Typed'
      BY <1>1, <1>2, <1>7, <1>8, <3>1, <3>7 DEF Typed
    <3>9. \A i : Current(i)' = array[i] /\ Flow' = array
      BY <1>1, <2>5, <3>6 DEF Current, Flow, handler
    <3>10. Wanted' = T
      BY <1>1 DEF Wanted, T, handler
    <3>11. PagesOf(n)'
      <4>1. \A i \in 1..n : array[i] \in T \cup {"amount", "review"}
        BY <3>2, <3>5 DEF Layout
      <4>2. \A title \in T : \E i \in 1..n : array[i] = title
        BY <3>2, <3>5 DEF Layout
      <4>3. array[n + 1] = "approve" /\ array[n + 2] = "reject" /\ array[n + 3] = "END"
        BY <3>2, <3>5
      <4> QED BY <1>1, <2>5, <3>9, <3>10, <4>1, <4>2, <4>3 DEF PagesOf
    <3>12. Reached(n)'
      <4>1. array[1] = "review" /\ "review" \notin Titles
        BY <3>2, <3>5, TitlesAre
      <4> QED BY <1>1, <2>5, <3>1, <3>9, <4>1 DEF Reached
    <3>13. Paged' /\ Started'
      BY <3>1, <3>11, <3>12 DEF Paged, Started
    <3>14. OwnEntries' = steps
      BY <1>1, <2>5 DEF OwnEntries, steps, handler
    <3>15. OwnLayout'
      <4>1. at' \in 1..Len(steps) /\ Len(steps) = n + 2 /\ steps \in Seq(Steps)
        BY <3>1, <3>2
      <4>2. \A i \in 1..Len(steps) : array[i] = steps[i]
        BY <3>2, <3>5
      <4>3. array[Len(steps) + 1] = "END"
        BY <3>2, <3>5
      <4> QED BY <1>1, <2>5, <3>9, <3>14, <4>1, <4>2, <4>3 DEF OwnLayout
    <3> QED BY <1>5, <1>6, <2>4, <3>8, <3>13, <3>15 DEF ReviewInv
  <2>6. CASE ux = "NBGL"
    <3>1. screen' = "start" /\ flows' = flows /\ at' = at
      BY <1>10, <2>6 DEF Open
    <3>2. Typed'
      BY <1>1, <1>2, <1>7, <1>8, <3>1 DEF Typed
    <3>3. Started' /\ Paged' /\ OwnLayout'
      BY <1>1, <1>2, <2>6, <3>1 DEF Started, Paged, OwnLayout
    <3> QED BY <1>5, <1>6, <2>4, <3>2, <3>3 DEF ReviewInv
  <2> QED BY <1>2, <2>5, <2>6 DEF Typed
<1> QED BY <1>9, <1>10

(* A page that comes on the screen shows the string of its title. *)
LEMMA ShowKeepsTrue ==
    ASSUME NEW step, NEW pages,
           \A title \in DOMAIN pages :
               title \in Titles /\ pages[title] = strings[StringOf[title]]
    PROVE  /\ \A title \in DOMAIN Show(step, pages) :
                  title \in Titles /\ Show(step, pages)[title] = strings[StringOf[title]]
           /\ DOMAIN Show(step, pages) = DOMAIN pages \cup ({step} \cap Titles)
<1> DEFINE D == DOMAIN pages \cup ({step} \cap Titles)
<1>1. DOMAIN Show(step, pages) = D
  BY DEF Show
<1>2. \A title \in D : Show(step, pages)[title] =
         IF title = step THEN strings[StringOf[title]] ELSE pages[title]
  BY DEF Show
<1>3. \A title \in D : title \in Titles /\ (title # step => title \in DOMAIN pages)
  OBVIOUS
<1> QED BY <1>1, <1>2, <1>3

LEMMA ContinueReview ==
    ASSUME ReviewInv, ReviewContinue
    PROVE  ReviewInv'
<1> DEFINE handler == HandlerOf(tx.txType)
           list == NbglPairs(handler, tx)
           T == Laid(handler, tx) \cup {"type"}
<1>1. /\ screen = "start" /\ pairs' = Overlaid(list, pairs) /\ nbPairs' = Len(list)
      /\ screen' = "pages" /\ at' = 1 /\ shown' = Show(pairs'[1], <<>>)
      /\ ux' = ux /\ tx' = tx /\ strings' = strings /\ flows' = flows
      /\ reply' = reply /\ reviews' = reviews
  BY DEF ReviewContinue, NbPairs
<1>2. /\ Typed /\ ux = "NBGL" /\ reply = NoReply /\ Formats(Texts(tx)) /\ Reviewed
  BY <1>1 DEF ReviewInv, Started, Reviewed
<1>3. handler \in Handlers
  BY <1>2, FormattedIsSupported, HandlerIsHandler
<1>4. PICK n \in 5..7 : PairsList(list, n, T)
  BY <1>3, PairsLayout
<1>5. pairs \in [1..MAX_PAIRS -> Steps] /\ MAX_PAIRS \in Nat /\ n <= MAX_PAIRS
  BY <1>2 DEF Typed, MAX_PAIRS
<1>6. Wanted' = T
  BY <1>1 DEF Wanted
<1> HIDE DEF list, T
<1>7. /\ list \in Seq(Steps) /\ Len(list) = n
      /\ \A i \in 1..n : list[i] \in T \cup {"amount"}
      /\ \A title \in T : \E i \in 1..n : list[i] = title
  BY <1>4 DEF PairsList
<1>8. pairs' \in [1..MAX_PAIRS -> Steps] /\ \A i \in 1..n : pairs'[i] = list[i]
  BY <1>1, <1>5, <1>7, OverlaidIsArray
<1>9. Typed'
  <2>1. nbPairs' \in 0..MAX_PAIRS
    BY <1>1, <1>7 DEF MAX_PAIRS
  <2> QED BY <1>1, <1>2, <1>8, <2>1 DEF Typed
<1>10. Reviewed' /\ Started'
  BY <1>1, <1>2 DEF Reviewed, Started
<1>11. \A i \in Nat : Current(i)' = IF i <= n THEN pairs'[i] ELSE "approve"
  BY <1>1, <1>2, <1>7 DEF Current
<1>12. PagesOf(n)'
  <2>1. \A i \in 1..n : Current(i)' = list[i]
    BY <1>7, <1>8, <1>11
  <2>2. Current(n + 1)' = "approve"
    BY <1>7, <1>11
  <2> QED BY <1>1, <1>2, <1>7, <1>6, <2>1, <2>2 DEF PagesOf
<1>13. /\ \A title \in DOMAIN shown' :
             title \in Titles /\ shown'[title] = strings[StringOf[title]]
       /\ DOMAIN shown' = {pairs'[1]} \cap Titles
  <2>1. /\ DOMAIN <<>> = {}
        /\ \A title \in DOMAIN <<>> :
              title \in Titles /\ <<>>[title] = strings[StringOf[title]]
    OBVIOUS
  <2> DEFINE page == pairs'[1]
             after == Show(page, <<>>)
  <2>2. /\ \A title \in DOMAIN after :
              title \in Titles /\ after[title] = strings[StringOf[title]]
        /\ DOMAIN after = DOMAIN <<>> \cup ({page} \cap Titles)
    BY <2>1, ShowKeepsTrue, Zenon
  <2> HIDE DEF after
  <2>3. shown' = after
    BY <1>1 DEF after
  <2> QED BY <2>1, <2>2, <2>3
<1>14. ShownIsString'
  BY <1>1, <1>13 DEF ShownIsString
<1>18. Viewed'
  <2>1. pairs'[1] \in T \cup {"amount"}
    BY <1>7, <1>8
  <2>2. DOMAIN shown' \subseteq Wanted' \cup {"amount"}
    BY <1>6, <1>13, <2>1
  <2>3. tx \in Txs /\ \A f \in Strings : strings[f] = Texts(tx)[f]
    BY <1>1, <1>2 DEF Reviewed
  <2> QED BY <1>1, <1>2, <2>2, <2>3 DEF Viewed
<1>15. Reached(n)'
  <2>1. Current(1)' = pairs'[1]
    BY <1>7, <1>11
  <2> QED BY <1>1, <1>2, <1>13, <2>1 DEF Reached
<1>16. Paged'
  BY <1>1, <1>7, <1>12, <1>15 DEF Paged
<1>17. (ApprovalSeesAll /\ Signed)'
  BY <1>1, <1>2 DEF ApprovalSeesAll, Signed, NoReply
<1>19. OwnLayout'
  <2> DEFINE own == list \o <<"approve">>
  <2>1. OwnEntries' = own
    BY <1>1, <1>2 DEF OwnEntries, list
  <2>2. "approve" \in Steps
    BY StepsAre
  <2>3. /\ own \in Seq(Steps) /\ Len(own) = Len(list) + 1
        /\ \A i \in 1..Len(list) : own[i] = list[i]
        /\ own[Len(list) + 1] = "approve"
    BY <1>7, <2>2, EndedBy, Zenon
  <2> HIDE DEF own
  <2>4. Len(own) = n + 1 /\ n \in Nat
    BY <1>7, <2>3
  <2>5. ASSUME NEW i \in 1..Len(own) PROVE Current(i)' = own[i]
    <3>1. CASE i <= n
      BY <1>7, <1>8, <1>11, <2>3, <2>4, <3>1
    <3>2. CASE i = n + 1
      BY <1>7, <1>11, <2>3, <2>4, <3>2
    <3> QED BY <2>4, <3>1, <3>2
  <2>6. at' \in 1..Len(own) /\ nbPairs' + 1 = Len(own)
    BY <1>1, <1>7, <2>4
  <2> QED BY <1>1, <1>2, <2>1, <2>3, <2>5, <2>6 DEF OwnLayout
<1> QED BY <1>9, <1>10, <1>14, <1>16, <1>17, <1>18, <1>19 DEF ReviewInv

LEMMA TurnPage ==
    ASSUME ReviewInv, Forward \/ Back
    PROVE  ReviewInv'
<1>1. /\ screen = "pages" /\ screen' = screen /\ ux' = ux /\ tx' = tx
      /\ strings' = strings /\ flows' = flows /\ pairs' = pairs
      /\ nbPairs' = nbPairs /\ reply' = reply /\ reviews' = reviews
  BY DEF Forward, Back
<1>2. /\ Typed /\ Reviewed /\ reply = NoReply /\ ShownIsString /\ Viewed
      /\ tx \in Txs /\ Formats(Texts(tx))
      /\ \A f \in Strings : strings[f] = Texts(tx)[f]
  BY <1>1 DEF ReviewInv, Reviewed
<1>3. PICK n \in 5..8 : PagesOf(n) /\ Reached(n)
  BY <1>1 DEF ReviewInv, Paged
<1>4. (Typed /\ Reviewed /\ Started)'
  BY <1>1, <1>2 DEF Typed, Reviewed, Started
<1>5. \A i : Current(i)' = Current(i) /\ Flow' = Flow
  BY <1>1 DEF Current, Flow
<1>6. PagesOf(n)'
  BY <1>1, <1>3, <1>5 DEF PagesOf, Wanted
<1>7. (ApprovalSeesAll /\ Signed)'
  BY <1>1, <1>2 DEF ApprovalSeesAll, Signed, NoReply
<1>8. ux \in {"BAGL", "NBGL"} /\ n \in Nat
  BY <1>2, <1>3 DEF Typed
<1>11. OwnLayout'
  <2> DEFINE own == OwnEntries
  <2>1. own' = own
    BY <1>1 DEF OwnEntries
  <2>2. /\ at \in 1..Len(own) /\ own \in Seq(Steps)
        /\ \A i \in 1..Len(own) : Current(i) = own[i]
        /\ IF ux = "BAGL" THEN Flow[Len(own) + 1] = "END"
                          ELSE nbPairs + 1 = Len(own)
    BY <1>1 DEF ReviewInv, OwnLayout
  <2>3. at' \in 1..Len(own)
    <3>1. Len(own) \in Nat /\ nbPairs \in Nat
      BY <1>2, <2>2 DEF Typed, MAX_PAIRS
    <3>2. CASE Forward
      BY <2>2, <3>1, <3>2 DEF Forward
    <3>3. CASE Back
      BY <2>2, <3>1, <3>3 DEF Back
    <3> QED BY <3>2, <3>3
  <2> HIDE DEF own
  <2>4. \A i \in 1..Len(own) : Current(i)' = own[i]
    BY <1>5, <2>2
  <2> QED BY <1>1, <1>5, <2>1, <2>2, <2>3, <2>4 DEF OwnLayout, own
<1>9. CASE Forward
  <2>1. /\ at' = at + 1 /\ shown' = Show(Current(at + 1), shown)
        /\ IF ux = "BAGL" THEN Flow[at + 1] # "END" ELSE at <= nbPairs
    BY <1>9 DEF Forward
  <2>2. /\ \A title \in DOMAIN shown' :
              title \in Titles /\ shown'[title] = strings[StringOf[title]]
        /\ DOMAIN shown' = DOMAIN shown \cup ({Current(at + 1)} \cap Titles)
    <3> DEFINE page == Current(at + 1)
               after == Show(page, shown)
    <3>1. \A title \in DOMAIN shown :
             title \in Titles /\ shown[title] = strings[StringOf[title]]
      BY <1>2 DEF ShownIsString
    <3>2. /\ \A title \in DOMAIN after :
                title \in Titles /\ after[title] = strings[StringOf[title]]
          /\ DOMAIN after = DOMAIN shown \cup ({page} \cap Titles)
      BY <3>1, ShowKeepsTrue, Zenon
    <3>3. shown' = after
      BY <2>1
    <3> HIDE DEF after
    <3> QED BY <3>2, <3>3
  <2>3. ShownIsString'
    BY <1>1, <2>2 DEF ShownIsString
  <2>4. Reached(n)'
    <3>1. at' \in 1..(IF ux = "BAGL" THEN n + 2 ELSE n + 1)
      <4>1. CASE ux = "BAGL"
        <5>1. Flow[n + 3] = "END" /\ at \in 1..n + 2
          BY <1>3, <4>1 DEF PagesOf, Reached
        <5>2. at + 1 # n + 3
          BY <2>1, <4>1, <5>1
        <5> QED BY <1>8, <2>1, <4>1, <5>1, <5>2
      <4>2. CASE ux = "NBGL"
        <5>1. nbPairs = n /\ at \in 1..n + 1
          BY <1>3, <4>2 DEF PagesOf, Reached
        <5> QED BY <1>8, <2>1, <4>2, <5>1
      <4> QED BY <1>8, <4>1, <4>2
    <3>2. ASSUME NEW i \in 1..n, i <= at + 1, Current(i) \in Titles
          PROVE  Current(i) \in DOMAIN shown'
      <4>1. at \in Nat
        BY <1>3, <1>8 DEF Reached
      <4>2. CASE i = at + 1
        BY <2>2, <3>2, <4>2
      <4>3. CASE i <= at
        BY <1>3, <2>2, <3>2, <4>3 DEF Reached
      <4> QED BY <1>8, <3>2, <4>1, <4>2, <4>3
    <3> QED BY <1>1, <1>5, <2>1, <3>1, <3>2 DEF Reached
  <2>5. Paged'
    BY <1>1, <1>3, <1>6, <2>4 DEF Paged
  <2>6. Current(at + 1) \in Titles => Current(at + 1) \in Wanted \cup {"amount"}
    <3>1. "review" \notin Titles /\ "approve" \notin Titles /\ "reject" \notin Titles
      BY TitlesAre
    <3>2. at + 1 \in 1..(IF ux = "BAGL" THEN n + 2 ELSE n + 1)
      BY <1>1, <1>5, <2>1, <2>4 DEF Reached
    <3>3. CASE at + 1 \in 1..n
      BY <1>3, <3>1, <3>3 DEF PagesOf
    <3>4. CASE at + 1 = n + 1
      BY <1>3, <3>1, <3>4 DEF PagesOf
    <3>5. CASE ux = "BAGL" /\ at + 1 = n + 2
      BY <1>3, <3>1, <3>5 DEF PagesOf, Current
    <3> QED BY <1>8, <3>2, <3>3, <3>4, <3>5
  <2>7. Viewed'
    <3>1. DOMAIN shown \subseteq Wanted \cup {"amount"}
      BY <1>2 DEF Viewed
    <3>2. DOMAIN shown' \subseteq Wanted \cup {"amount"}
      BY <2>2, <2>6, <3>1
    <3>3. Wanted' = Wanted
      BY <1>1 DEF Wanted
    <3> QED BY <1>1, <1>2, <3>2, <3>3 DEF Viewed
  <2> QED BY <1>4, <1>7, <1>11, <2>3, <2>5, <2>7 DEF ReviewInv
<1>10. CASE Back
  <2>1. at > 1 /\ at' = at - 1 /\ shown' = shown
    BY <1>10 DEF Back
  <2>2. ShownIsString'
    BY <1>1, <1>2, <2>1 DEF ShownIsString
  <2>3. Reached(n)'
    BY <1>1, <1>3, <1>5, <1>8, <2>1 DEF Reached
  <2>4. Paged'
    BY <1>1, <1>3, <1>6, <2>3 DEF Paged
  <2>5. Viewed'
    BY <1>1, <1>2, <2>1 DEF Viewed, Wanted
  <2> QED BY <1>4, <1>7, <1>11, <2>2, <2>4, <2>5 DEF ReviewInv
<1> QED BY <1>9, <1>10

LEMMA ApproveReview ==
    ASSUME ReviewInv, Approve
    PROVE  ReviewInv'
<1>1. /\ screen = "pages" /\ Current(at) = "approve" /\ screen' = "menu" /\ at' = 0
      /\ ux' = ux /\ tx' = tx /\ strings' = strings /\ flows' = flows
      /\ pairs' = pairs /\ nbPairs' = nbPairs /\ shown' = shown /\ reviews' = reviews
  BY DEF Approve
<1>2. /\ Typed /\ Reviewed /\ ShownIsString /\ Viewed /\ tx \in Txs /\ Formats(Texts(tx))
      /\ \A f \in Strings : strings[f] = Texts(tx)[f]
  BY <1>1 DEF ReviewInv, Reviewed
<1>3. PICK n \in 5..8 : PagesOf(n) /\ Reached(n)
  BY <1>1 DEF ReviewInv, Paged
<1>4. (Typed /\ Reviewed /\ Started /\ Paged /\ OwnLayout /\ ShownIsString /\ Viewed)'
  BY <1>1, <1>2
     DEF Typed, Reviewed, Started, Paged, OwnLayout, ShownIsString, Viewed, Wanted
<1>5. at = n + 1
  <2>1. "approve" \notin Titles \cup {"review"}
    BY TitlesAre
  <2>2. at \notin 1..n
    BY <1>1, <1>3, <2>1, WantedAreTitles DEF PagesOf
  <2>3. CASE ux = "BAGL"
    <3>1. at \in 1..n + 2 /\ Flow[n + 2] = "reject"
      BY <1>3, <2>3 DEF PagesOf, Reached
    <3>2. at # n + 2
      BY <1>1, <2>3, <3>1 DEF Current
    <3> QED BY <2>2, <3>1, <3>2
  <2>4. CASE ux = "NBGL"
    <3>1. at \in 1..n + 1
      BY <1>3, <2>4 DEF Reached
    <3> QED BY <2>2, <3>1
  <2> QED BY <1>2, <2>3, <2>4 DEF Typed
<1>6. ASSUME NEW title \in TitlesFor(tx)
      PROVE  title \in DOMAIN shown /\ shown[title] = Texts(tx)[StringOf[title]]
  <2>1. title \in Wanted
    BY <1>2, FormattedIsSupported, FieldsAreLaid DEF Wanted
  <2>2. PICK i \in 1..n : Current(i) = title
    BY <1>3, <2>1 DEF PagesOf
  <2>3. title \in Titles
    BY <2>1, LaidAreTitles DEF Wanted
  <2>4. title \in DOMAIN shown
    BY <1>3, <1>5, <2>2, <2>3 DEF Reached
  <2>5. shown[title] = strings[StringOf[title]]
    BY <1>2, <2>4 DEF ShownIsString
  <2> QED BY <1>2, <2>3, <2>4, <2>5, StringOfTitles
<1>7. ApprovalSeesAll'
  BY <1>1, <1>6 DEF ApprovalSeesAll
<1>8. Signed'
  <2>1. CASE \E signature \in Signatures :
                reply' = [kind |-> "signature",
                          sent |-> helper_send_response_sig(tx.chainID, signature.v,
                                                            Der(signature)),
                          signature |-> signature]
    BY <1>1, <1>2, <2>1 DEF Signed
  <2>2. CASE reply' = Status("SIGNATURE_FAIL")
    BY <2>2 DEF Signed, Status, NoReply
  <2> QED BY <2>1, <2>2 DEF Approve
<1> QED BY <1>4, <1>7, <1>8 DEF ReviewInv

LEMMA RejectReview ==
    ASSUME ReviewInv, Reject
    PROVE  ReviewInv'
<1>1. /\ screen' = "menu" /\ at' = 0 /\ shown' = <<>> /\ reply' = Status("DENY")
      /\ ux' = ux /\ tx' = tx /\ strings' = strings /\ flows' = flows
      /\ pairs' = pairs /\ nbPairs' = nbPairs /\ reviews' = reviews
  BY DEF Reject
<1>2. Typed'
  BY <1>1 DEF ReviewInv, Typed
<1>3. (Reviewed /\ Started /\ Paged /\ OwnLayout /\ ShownIsString /\ Viewed)'
  BY <1>1 DEF Reviewed, Started, Paged, OwnLayout, ShownIsString, Viewed
<1>4. reply'.kind = "DENY"
  BY <1>1 DEF Status, NoReply
<1>5. (ApprovalSeesAll /\ Signed)'
  BY <1>4 DEF ApprovalSeesAll, Signed
<1> QED BY <1>2, <1>3, <1>5 DEF ReviewInv

LEMMA StutterReview ==
    ASSUME ReviewInv, UNCHANGED vars
    PROVE  ReviewInv'
BY DEF vars, ReviewInv, Typed, Reviewed, Started, Wanted, Current, Flow, PagesOf,
       Reached, Paged, OwnEntries, OwnLayout, ShownIsString, Viewed,
       ApprovalSeesAll, Signed

LEMMA ReviewInvariant == Spec => []ReviewInv
<1>1. Init => ReviewInv
  BY InitReview
<1>2. ReviewInv /\ [Next]_vars => ReviewInv'
  BY OpenReview, ContinueReview, TurnPage, ApproveReview, RejectReview, StutterReview
     DEF Next
<1> QED BY <1>1, <1>2, PTL DEF Spec

------------------------------------------------------------------------------
(* What a text tells. *)

LEMMA KindIs ==
    ASSUME NEW kind \in Kinds, NEW type \in TypesOf(kind)
    PROVE  (CHOOSE k \in Kinds : type \in TypesOf(k)) = kind
<1>1. \A k \in Kinds : type \in TypesOf(k) => k = kind
  BY DEF Kinds, TypesOf, FirstType
<1> QED BY <1>1

LEMMA KindsAre ==
    ASSUME NEW kind \in Kinds, NEW type \in TypesOf(kind)
    PROVE  /\ type # LEGACY
           /\ type - FirstType(kind) + 1 \in 1..3
           /\ FirstType(kind) \in Nat /\ type \in Nat
BY DEF Kinds, TypesOf, FirstType, LEGACY

(* The name of a type that is not legacy. *)
LEMMA NameOfKind ==
    ASSUME NEW kind \in Kinds, NEW type \in TypesOf(kind)
    PROVE  format_transaction_type(type) =
              <<Delegation[type - FirstType(kind) + 1], KindName[kind]>>
<1> DEFINE k == CHOOSE k \in Kinds : type \in TypesOf(k)
<1>1. k = kind
  BY KindIs
<1>2. type # LEGACY /\ Supported(type)
  BY KindsAre DEF Supported
<1>3. format_transaction_type(type) = <<Delegation[type - FirstType(k) + 1], KindName[k]>>
  BY <1>2 DEF format_transaction_type
<1> HIDE DEF k
<1> QED BY <1>1, <1>3

LEMMA NamesDiffer ==
    /\ \A j, k \in Kinds : KindName[j] = KindName[k] => j = k
    /\ \A k \in Kinds : KindName[k] # "Legacy"
    /\ \A i, j \in 1..3 : Delegation[i] = Delegation[j] => i = j
<1>1. /\ KindName["value_transfer"] = "Value Transfer"
      /\ KindName["memo"] = "Value Transfer Memo"
      /\ KindName["deploy"] = "Smart Contract Deploy"
      /\ KindName["execution"] = "Smart Contract Execution"
      /\ KindName["cancel"] = "Cancel"
  BY DEF KindName
<1>2. Delegation[1] = "" /\ Delegation[2] = "Fee Delegated"
      /\ Delegation[3] = "Partial Fee Delegated"
  BY DEF Delegation
<1>3. \A i \in 1..3 : i = 1 \/ i = 2 \/ i = 3
  OBVIOUS
<1> QED BY <1>1, <1>2, <1>3 DEF Kinds

LEMMA TypeTells ==
    ASSUME NEW type \in Types
    PROVE  TypeSays(format_transaction_type(type), type)
<1> SUFFICES ASSUME NEW other \in Types,
                    format_transaction_type(other) = format_transaction_type(type)
             PROVE  other = type
  BY DEF TypeSays
<1>1. format_transaction_type(LEGACY) = <<"", "Legacy">>
  BY DEF format_transaction_type
<1>2. \A k \in Kinds : \A t \in TypesOf(k) :
         /\ format_transaction_type(t) = <<Delegation[t - FirstType(k) + 1], KindName[k]>>
         /\ t - FirstType(k) + 1 \in 1..3 /\ FirstType(k) \in Nat /\ t \in Nat
  BY NameOfKind, KindsAre
<1>3. CASE type = LEGACY
  <2> SUFFICES ASSUME NEW k \in Kinds, other \in TypesOf(k) PROVE FALSE
    BY <1>3 DEF Types
  <2>1. <<Delegation[other - FirstType(k) + 1], KindName[k]>> = <<"", "Legacy">>
    BY <1>1, <1>2, <1>3
  <2>2. KindName[k] = "Legacy"
    BY <2>1
  <2> QED BY <2>2, NamesDiffer
<1>4. CASE other = LEGACY
  <2> SUFFICES ASSUME NEW k \in Kinds, type \in TypesOf(k) PROVE FALSE
    BY <1>4 DEF Types
  <2>1. <<Delegation[type - FirstType(k) + 1], KindName[k]>> = <<"", "Legacy">>
    BY <1>1, <1>2, <1>4
  <2>2. KindName[k] = "Legacy"
    BY <2>1
  <2> QED BY <2>2, NamesDiffer
<1>5. ASSUME NEW j \in Kinds, NEW k \in Kinds, other \in TypesOf(j), type \in TypesOf(k)
      PROVE  other = type
  <2> DEFINE a == other - FirstType(j) + 1
             b == type - FirstType(k) + 1
  <2>1. <<Delegation[a], KindName[j]>> = <<Delegation[b], KindName[k]>>
    BY <1>2, <1>5
  <2>2. a \in 1..3 /\ b \in 1..3 /\ FirstType(k) \in Nat /\ other \in Nat /\ type \in Nat
    BY <1>2, <1>5
  <2> HIDE DEF a, b
  <2>3. Delegation[a] = Delegation[b] /\ KindName[j] = KindName[k]
    BY <2>1
  <2>4. a = b /\ j = k
    BY <2>2, <2>3, NamesDiffer
  <2> QED BY <2>2, <2>4 DEF a, b
<1> QED BY <1>3, <1>4, <1>5 DEF Types

LEMMA AddressTells ==
    ASSUME NEW bytes \in Seq(Byte)
    PROVE  AddressSays(format_hex(bytes), bytes)
<1> DEFINE n == Len(bytes)
           text == format_hex(bytes)
<1>1. n \in Nat /\ \A i \in 1..n : bytes[i] \in Nat
  BY ByteIs
<1>2. text = [i \in 1 .. 2 * n |->
                 IF i % 2 = 1 THEN bytes[(i + 1) \div 2] \div 16 ELSE bytes[i \div 2] % 16]
  BY DEF format_hex
<1> HIDE DEF n, text
<1>3. Len(text) = 2 * n
  BY <1>1, <1>2
<1>4. ASSUME NEW i \in 1..n
      PROVE  16 * text[2 * i - 1] + text[2 * i] = bytes[i]
  <2>1. /\ 2 * i - 1 \in 1 .. 2 * n /\ 2 * i \in 1 .. 2 * n
        /\ (2 * i - 1) % 2 = 1 /\ (2 * i) % 2 # 1
        /\ (2 * i - 1 + 1) \div 2 = i /\ (2 * i) \div 2 = i
    BY <1>1
  <2>2. text[2 * i - 1] = bytes[i] \div 16 /\ text[2 * i] = bytes[i] % 16
    BY <1>2, <2>1
  <2> DEFINE b == bytes[i]
  <2>3. b \in Nat
    BY <1>1
  <2> HIDE DEF b
  <2>4. 16 * (b \div 16) + (b % 16) = b
    BY <2>3
  <2> QED BY <2>2, <2>4 DEF b
<1> QED BY <1>3, <1>4 DEF AddressSays, n, text

LEMMA WholeIs ==
    ASSUME NEW S, NEW s \in Seq(S)
    PROVE  SubSeq(s, 1, Len(s)) = s
<1>1. Len(s) \in 0..Len(s)
  OBVIOUS
<1>2. /\ SubSeq(s, 1, Len(s)) \in Seq(S)
      /\ Len(SubSeq(s, 1, Len(s))) = Len(s)
      /\ \A i \in 1..Len(s) : SubSeq(s, 1, Len(s))[i] = s[i]
  BY <1>1, PrefixIs
<1> QED BY <1>2

(* The least of two numbers. *)
LEMMA LeastOfTwo ==
    ASSUME NEW a \in Nat, NEW b \in Nat
    PROVE  Min({a, b}) = IF a <= b THEN a ELSE b
<1>1. CASE a <= b
  <2>1. {a, b} \subseteq Int /\ a \in {a, b} /\ \A y \in {a, b} : a <= y
    BY <1>1
  <2> QED BY <1>1, <2>1, LeastIs
<1>2. CASE ~(a <= b)
  <2>1. {a, b} \subseteq Int /\ b \in {a, b} /\ \A y \in {a, b} : b <= y
    BY <1>2
  <2> QED BY <1>2, <2>1, LeastIs
<1> QED BY <1>1, <1>2

LEMMA NumberTells ==
    ASSUME NEW bytes \in Seq(Byte)
    PROVE  NumberSays(U64Text(convertUint256ToUint64(bytes)), bytes)
<1> SUFFICES ASSUME Len(bytes) <= U64_BYTES
             PROVE  convertUint256ToUint64(bytes) = bytes
  BY DEF NumberSays
<1>1. Len(bytes) \in Nat /\ U64_BYTES \in Nat
  BY DEF U64_BYTES
<1>2. Min({Len(bytes), U64_BYTES}) = Len(bytes)
  BY <1>1, LeastOfTwo
<1> QED BY <1>2, WholeIs DEF convertUint256ToUint64

LEMMA AmountTells ==
    ASSUME NEW bytes \in Seq(Byte),
           amount_to_string(bytes, EXPONENT_SMALLEST_UNIT, AMOUNT_BUFFER) # Failed
    PROVE  AmountSays(Printed(amount_to_string(bytes, EXPONENT_SMALLEST_UNIT,
                                               AMOUNT_BUFFER)), bytes)
<1> DEFINE full == amount_to_string(bytes, EXPONENT_SMALLEST_UNIT, AMOUNT_BUFFER)
           text == Printed(full)
           e == EXPONENT_SMALLEST_UNIT
           p == PointAt(full)
           digits == InPeb(full)
<1>1. AMOUNT_BUFFER \in Nat \ {0} /\ SHOWN_AMOUNT \in Nat /\ e \in Nat
  BY DEF AMOUNT_BUFFER, SHOWN_AMOUNT, EXPONENT_SMALLEST_UNIT
<1>2. /\ digits \in Seq(Digit)
      /\ Denoted(10, digits) = Denoted(256, bytes)
      /\ full \in Seq(Symbol)
      /\ p \in 1 .. Len(full) + 1
      /\ p <= Len(full) => full[p] = POINT
      /\ Len(full) <= p + e
      /\ p = 2 \/ p + e < AMOUNT_BUFFER - 1
  BY <1>1, AmountDenotesBytes
<1> HIDE DEF full, e, p, digits
<1>3. Len(full) \in Nat
  BY <1>2
<1>4. IF Len(full) <= SHOWN_AMOUNT THEN text = full
      ELSE /\ text = SubSeq(full, 1, SHOWN_AMOUNT)
           /\ \E i \in DOMAIN text : text[i] = POINT
  <2>1. Min({Len(full), SHOWN_AMOUNT})
           = IF Len(full) <= SHOWN_AMOUNT THEN Len(full) ELSE SHOWN_AMOUNT
    BY <1>1, <1>3, LeastOfTwo
  <2>2. CASE Len(full) <= SHOWN_AMOUNT
    BY <1>2, <2>1, <2>2, WholeIs DEF Printed
  <2>3. CASE ~(Len(full) <= SHOWN_AMOUNT)
    <3>1. text = SubSeq(full, 1, SHOWN_AMOUNT)
      BY <2>1, <2>3 DEF Printed
    <3>2. p \in 1..SHOWN_AMOUNT /\ p <= Len(full)
      BY <1>2, <1>3, <2>3 DEF SHOWN_AMOUNT, AMOUNT_BUFFER, e, EXPONENT_SMALLEST_UNIT
    <3>3. SHOWN_AMOUNT \in 0..Len(full)
      BY <1>1, <1>3, <2>3
    <3>4. /\ text \in Seq(Symbol) /\ Len(text) = SHOWN_AMOUNT
          /\ \A i \in 1..SHOWN_AMOUNT : text[i] = full[i]
      BY <1>2, <3>1, <3>3, PrefixIs
    <3> HIDE DEF text
    <3>5. p \in DOMAIN text
      BY <3>2, <3>4
    <3>6. text[p] = POINT
      BY <1>2, <3>2, <3>4
    <3> QED BY <2>3, <3>1, <3>5, <3>6
  <2> QED BY <2>2, <2>3
<1>5. ASSUME NEW m \in Moduli
      PROVE  DenotedModulo(m, 10, digits) = DenotedModulo(m, 256, bytes)
  <2>1. m \in Nat \ {0}
    BY ReviewAssumption
  <2>2. digits \in Seq(Nat) /\ bytes \in Seq(Nat)
    <3>1. \A i \in 1..Len(bytes) : bytes[i] \in Nat
      BY ByteIs
    <3>2. bytes \in Seq(Nat)
      BY <3>1
    <3> QED BY <1>2, <3>2, DigitsAreNumbers
  <2>3. DenotedModulo(m, 10, digits) = Denoted(10, digits) % m
    BY <2>1, <2>2, DenotedModuloIs
  <2>4. DenotedModulo(m, 256, bytes) = Denoted(256, bytes) % m
    BY <2>1, <2>2, DenotedModuloIs
  <2> QED BY <1>2, <2>3, <2>4
<1> QED BY <1>2, <1>4, <1>5 DEF AmountSays, full, e, p, digits

LEMMA FailedIsNotPrinted == Printed(Failed) = Failed
<1>1. SHOWN_AMOUNT \in Nat /\ Len(<<>>) = 0
  BY DEF SHOWN_AMOUNT, AMOUNT_BUFFER
<1>2. Min({Len(<<>>), SHOWN_AMOUNT}) = 0
  BY <1>1, LeastOfTwo
<1> QED BY <1>2 DEF Printed, Failed

(* A page with an address or a ratio is of a type with an address, or of a
   transaction with a ratio. *)
LEMMA RecipientIsHad ==
    ASSUME NEW t, Supported(t.txType),
           {"to", "contract"} \cap (Laid(HandlerOf(t.txType), t) \cup {"type", "amount"}) # {}
    PROVE  Has(t.txType, "to")
<1> DEFINE type == t.txType
           handler == HandlerOf(type)
<1>1. handler \in {"legacy", "value_transfer", "execution"}
  BY DEF Laid, GasTitles, RatioTitles
<1>2. CASE type = LEGACY
  <2> DEFINE first == <<"nonce", "gasprice", "startgas", "to", "value", "data">>
             last == <<"chainID", "discard", "discard">>
             f == first \o last
  <2>1. Fields(type) = f
    BY <1>2 DEF Fields, LegacyFields, Trailer
  <2>2. f[4] = "to"
    OBVIOUS
  <2>3. 4 \in DOMAIN f
    OBVIOUS
  <2> QED BY <2>1, <2>2, <2>3 DEF Has
<1>3. CASE type # LEGACY
  <2> DEFINE kind == CHOOSE k \in Kinds : type \in TypesOf(k)
  <2>1. Fields(type) = FieldsOfKind(kind)
    BY <1>3 DEF Fields
  <2>2. handler = IF kind = "memo" THEN "value_transfer" ELSE kind
    BY <1>3 DEF HandlerOf
  <2>3. kind \in Kinds
    BY <1>3 DEF Supported
  <2> HIDE DEF kind, handler
  <2>4. kind \in {"value_transfer", "memo", "execution"}
    BY <1>1, <2>2, <2>3 DEF Kinds
  <2> DEFINE first == <<"content", "type", "nonce", "gasprice", "startgas">>
             last == <<"chainID", "discard", "discard">>
             short == <<"to", "value", "discard", "ratio">>
             long == <<"to", "value", "discard", "data", "ratio">>
             fs == (first \o short) \o last
             fl == (first \o long) \o last
  <2>5. fs[6] = "to" /\ fl[6] = "to"
    OBVIOUS
  <2>6. 6 \in DOMAIN fs /\ 6 \in DOMAIN fl
    OBVIOUS
  <2>7. FieldsOfKind(kind) = fs \/ FieldsOfKind(kind) = fl
    BY <2>4 DEF FieldsOfKind, Preamble, Trailer
  <2> HIDE DEF fs, fl
  <2> QED BY <2>1, <2>5, <2>6, <2>7 DEF Has
<1> QED BY <1>2, <1>3

LEMMA RatioIsShown ==
    ASSUME NEW t,
           "feeRatio" \in Laid(HandlerOf(t.txType), t) \cup {"type", "amount"}
    PROVE  t.ratio # 0
BY DEF Laid, GasTitles, RatioTitles

------------------------------------------------------------------------------
(* The theorems. *)

(* The static arrays of both user interfaces keep their sizes and their types:
   no review lays out more steps or pairs than they have room for. *)
THEOREM ReviewTypeCorrect == Spec => []TypeOK
<1>1. ReviewInv => TypeOK
  <2> SUFFICES ASSUME ReviewInv PROVE TypeOK
    OBVIOUS
  <2>1. Typed /\ Paged
    BY DEF ReviewInv
  <2>2. at \in 0..MAX_FLOW_STEPS
    <3>1. CASE screen # "pages"
      BY <2>1, <3>1 DEF Paged, MAX_FLOW_STEPS
    <3>2. CASE screen = "pages"
      BY <2>1, <3>2 DEF Paged, Reached, MAX_FLOW_STEPS
    <3> QED BY <3>1, <3>2
  <2> QED BY <2>1, <2>2 DEF Typed, TypeOK
<1> QED BY <1>1, ReviewInvariant, PTL

(* The entry on the screen is one of this review's own, and is what this review
   has written there: what a longer review before it left in the static arrays
   is never reached, in either user interface. *)
THEOREM PageOfReview == Spec => []PageIsOwn
<1>1. ReviewInv => PageIsOwn
  <2> SUFFICES ASSUME ReviewInv, screen = "pages" PROVE PageIsOwn
    BY DEF PageIsOwn
  <2>1. OwnLayout
    BY DEF ReviewInv
  <2>2. /\ at \in 1..Len(OwnEntries) /\ OwnEntries \in Seq(Steps)
        /\ Current(at) = OwnEntries[at]
        /\ ux = "BAGL" => Flow[Len(OwnEntries) + 1] = "END"
    BY <2>1 DEF OwnLayout
  <2>3. DOMAIN OwnEntries = 1..Len(OwnEntries)
    BY <2>2
  <2> QED BY <2>2, <2>3 DEF PageIsOwn
<1> QED BY <1>1, ReviewInvariant, PTL

(* However the owner goes through the pages, and whatever earlier reviews left
   in the static strings and arrays, an approval comes after every field of
   the transaction was on the screen with the text it formats to. *)
THEOREM ApprovalSawAll == Spec => []ApprovalSeesAll
<1>1. ReviewInv => ApprovalSeesAll
  BY DEF ReviewInv
<1> QED BY <1>1, ReviewInvariant, PTL

(* Every page, whichever of the reviews before left what in the strings and the
   arrays, says what the transaction in the context holds: the type by a name
   no other type has, the amount exactly and with its point in sight, the
   recipient of a type that has one digit by digit, the numbers of at most
   eight bytes, and a ratio that is not zero. *)
THEOREM PagesTrue == Spec => []PagesAreTrue
<1>1. ReviewInv => PagesAreTrue
  <2> SUFFICES ASSUME ReviewInv, NEW title \in DOMAIN shown
               PROVE  LET text == shown[title] IN
                      CASE title = "type" -> TypeSays(text, tx.txType)
                        [] title = "amount" -> AmountSays(text, tx.value)
                        [] title \in {"to", "contract"} ->
                               Has(tx.txType, "to") /\ AddressSays(text, tx.to)
                        [] title = "nonce" -> NumberSays(text, tx.nonce)
                        [] title = "gasPrice" -> NumberSays(text, tx.gasprice)
                        [] title = "gasLimit" -> NumberSays(text, tx.startgas)
                        [] title = "feeRatio" ->
                               tx.ratio # 0 /\ text = U64Text(<<tx.ratio>>)
    BY DEF PagesAreTrue
  <2> DEFINE text == shown[title]
             texts == Texts(tx)
  <2>1. /\ tx \in Txs /\ Formats(texts)
        /\ \A f \in Strings : strings[f] = texts[f]
        /\ title \in Laid(HandlerOf(tx.txType), tx) \cup {"type", "amount"}
    BY DEF ReviewInv, Viewed, Wanted
  <2>2. title \in Titles /\ text = strings[StringOf[title]]
    BY DEF ReviewInv, ShownIsString
  <2>3. text = texts[StringOf[title]] /\ text # Failed
    BY <2>1, <2>2, StringOfTitles DEF Formats
  <2>4. tx.nonce \in Seq(Byte) /\ tx.gasprice \in Seq(Byte) /\ tx.startgas \in Seq(Byte)
        /\ tx.to \in Seq(Byte) /\ tx.value \in Seq(Byte)
    BY <2>1, ReviewAssumption DEF Byte
  <2>5. Supported(tx.txType)
    BY <2>1, FormattedIsSupported
  <2> HIDE DEF text, texts
  <2>6. CASE title = "type"
    <3>1. text = format_transaction_type(tx.txType)
      BY <2>3, <2>6 DEF texts, Texts, StringOf
    <3>2. tx.txType \in Types
      BY <2>5 DEF Supported, Types
    <3>3. TypeSays(text, tx.txType)
      BY <3>1, <3>2, TypeTells
    <3> QED BY <2>6, <3>3 DEF text
  <2>7. CASE title = "amount"
    <3> DEFINE full == amount_to_string(tx.value, EXPONENT_SMALLEST_UNIT, AMOUNT_BUFFER)
    <3>1. text = Printed(full)
      BY <2>3, <2>7 DEF texts, Texts, StringOf
    <3>2. full # Failed
      BY <2>3, <3>1, FailedIsNotPrinted
    <3>3. AmountSays(text, tx.value)
      BY <2>4, <3>1, <3>2, AmountTells
    <3> QED BY <2>7, <3>3 DEF text
  <2>8. CASE title \in {"to", "contract"}
    <3>1. text = format_hex(tx.to)
      BY <2>3, <2>8 DEF texts, Texts, StringOf
    <3>2. Has(tx.txType, "to")
      BY <2>1, <2>5, <2>8, RecipientIsHad
    <3>3. AddressSays(text, tx.to)
      BY <2>4, <3>1, AddressTells
    <3> QED BY <2>8, <3>2, <3>3 DEF text
  <2>9. CASE title \in {"nonce", "gasPrice", "gasLimit"}
    <3> DEFINE number == IF title = "nonce" THEN tx.nonce
                         ELSE IF title = "gasPrice" THEN tx.gasprice ELSE tx.startgas
    <3>1. text = U64Text(convertUint256ToUint64(number))
      BY <2>3, <2>9 DEF texts, Texts, StringOf
    <3>2. number \in Seq(Byte)
      BY <2>4
    <3> HIDE DEF number
    <3>3. NumberSays(text, number)
      BY <3>1, <3>2, NumberTells
    <3> QED BY <2>9, <3>3 DEF text, number
  <2>10. CASE title = "feeRatio"
    <3>1. text = U64Text(<<tx.ratio>>)
      BY <2>3, <2>10 DEF texts, Texts, StringOf
    <3>2. tx.ratio # 0
      BY <2>1, <2>10, RatioIsShown
    <3> QED BY <2>10, <3>1, <3>2 DEF text
  <2> QED BY <2>2, <2>6, <2>7, <2>8, <2>9, <2>10, TitlesAre
<1> QED BY <1>1, ReviewInvariant, PTL

(* The parity a response byte tells, and the byte that EIP-155 gives it. *)
LEMMA FirstByteTells ==
    ASSUME NEW chainID \in Seq(0..255), NEW v \in 0..1
    PROVE  /\ (FirstByte(chainID, v) + 1) % 2 = v
           /\ Len(chainID) \in 1..4 =>
                 FirstByte(chainID, v) = (2 * chainID[Len(chainID)] + 35 + v) % 256
<1> DEFINE b == LowestByte(chainID)
<1>1. b \in 0..255
  <2>1. CASE chainID = <<>>
    BY <2>1 DEF LowestByte
  <2>2. CASE chainID # <<>>
    <3>1. Len(chainID) \in Nat /\ Len(chainID) > 0
      BY <2>2
    <3>2. \A i \in 1..Len(chainID) : chainID[i] \in 0..255
      BY ElementOfSeq
    <3>3. (IF Len(chainID) < 4 THEN Len(chainID) ELSE 4) \in 1..Len(chainID)
      BY <3>1
    <3>4. chainID[IF Len(chainID) < 4 THEN Len(chainID) ELSE 4] \in 0..255
      BY <3>2, <3>3
    <3> QED BY <2>2, <3>4 DEF LowestByte
  <2> QED BY <2>1, <2>2
<1>2. Len(chainID) \in 1..4 => b = chainID[Len(chainID)]
  <2> SUFFICES ASSUME Len(chainID) \in 1..4 PROVE b = chainID[Len(chainID)]
    OBVIOUS
  <2>1. chainID # <<>>
    OBVIOUS
  <2>2. CASE Len(chainID) < 4
    BY <2>1, <2>2 DEF LowestByte
  <2>3. CASE Len(chainID) = 4
    BY <2>1, <2>3 DEF LowestByte
  <2> QED BY <2>2, <2>3
<1>3. FirstByte(chainID, v) = (b * 2 + 35 + v) % 256
  BY DEF FirstByte
<1> HIDE DEF b
<1>4. (((b * 2 + 35 + v) % 256) + 1) % 2 = v
  <2> DEFINE n == b * 2 + 35 + v
             q == n \div 256
  <2>1. n \in Nat /\ q \in Int /\ n % 256 = n - 256 * q
    BY <1>1
  <2>2. (n % 256) + 1 = 2 * (b + 18 - 128 * q) + v
    BY <1>1, <2>1
  <2> HIDE DEF n, q
  <2>3. b + 18 - 128 * q \in Int
    BY <1>1, <2>1
  <2>4. \A x \in Int : (2 * x + v) % 2 = v
    OBVIOUS
  <2>5. ((n % 256) + 1) % 2 = v
    BY <2>2, <2>3, <2>4
  <2> QED BY <2>5 DEF n
<1>5. (FirstByte(chainID, v) + 1) % 2 = v
  BY <1>3, <1>4
<1>6. Len(chainID) \in 1..4 =>
         FirstByte(chainID, v) = (2 * chainID[Len(chainID)] + 35 + v) % 256
  <2> SUFFICES ASSUME Len(chainID) \in 1..4
               PROVE  FirstByte(chainID, v) = (2 * chainID[Len(chainID)] + 35 + v) % 256
    OBVIOUS
  <2>1. b = chainID[Len(chainID)]
    BY <1>2
  <2>2. b * 2 = 2 * b
    BY <1>1
  <2> QED BY <1>3, <2>1, <2>2
<1> QED BY <1>5, <1>6

LEMMA NumberIsSequence ==
    ASSUME NEW x \in Number
    PROVE  x \in Seq(Nat) /\ Len(x) = WIDTH
<1>1. WIDTH \in Nat
  BY WidthAssumption
<1>2. x \in [1..WIDTH -> 0..255] /\ 0..255 \subseteq Nat
  BY DEF Number
<1>3. x \in [1..WIDTH -> Nat]
  BY <1>2
<1> QED BY <1>1, <1>3

LEMMA SentIsNumbers ==
    ASSUME NEW sent, NEW first, NEW r \in Number, NEW s \in Number,
           HoldsSignature(sent, first, r, s)
    PROVE  SubSeq(sent, 2, Len(sent)) = r \o s /\ sent[1] = first
<1> DEFINE tail == SubSeq(sent, 2, Len(sent))
           rs == r \o s
<1>1. WIDTH \in Nat \ {0}
  BY WidthAssumption
<1>2. /\ sent \in Seq(Nat) /\ Len(sent) = 1 + 2 * WIDTH /\ sent[1] = first
      /\ \A i \in 1..WIDTH : sent[1 + i] = r[i]
      /\ \A i \in 1..WIDTH : sent[1 + WIDTH + i] = s[i]
  BY DEF HoldsSignature
<1>3. r \in Seq(Nat) /\ Len(r) = WIDTH /\ s \in Seq(Nat) /\ Len(s) = WIDTH
  BY NumberIsSequence
<1>4. /\ rs \in Seq(Nat) /\ Len(rs) = 2 * WIDTH
      /\ \A i \in 1..WIDTH : rs[i] = r[i] /\ rs[WIDTH + i] = s[i]
  <2>1. rs \in Seq(Nat) /\ Len(rs) = Len(r) + Len(s)
    BY <1>3
  <2>2. \A i \in 1..Len(r) : rs[i] = r[i]
    BY <1>3
  <2>3. \A i \in 1..Len(s) : rs[Len(r) + i] = s[i]
    BY <1>3
  <2> HIDE DEF rs
  <2> QED BY <1>1, <1>3, <2>1, <2>2, <2>3
<1> HIDE DEF rs
<1>5. /\ tail \in Seq(Nat) /\ Len(tail) = 2 * WIDTH
      /\ \A i \in 1..2 * WIDTH : tail[i] = sent[1 + i]
  BY <1>1, <1>2
<1> HIDE DEF tail
<1>6. ASSUME NEW i \in 1..2 * WIDTH PROVE tail[i] = rs[i]
  <2>1. CASE i <= WIDTH
    <3>1. i \in 1..WIDTH
      BY <1>1, <2>1
    <3> QED BY <1>2, <1>4, <1>5, <3>1
  <2>2. CASE i > WIDTH
    <3>1. i - WIDTH \in 1..WIDTH /\ WIDTH + (i - WIDTH) = i
          /\ 1 + WIDTH + (i - WIDTH) = 1 + i
      BY <1>1, <2>2
    <3>2. tail[i] = s[i - WIDTH]
      BY <1>2, <1>5, <3>1
    <3>3. rs[i] = s[i - WIDTH]
      BY <1>4, <3>1
    <3> QED BY <3>2, <3>3
  <2>3. i <= WIDTH \/ i > WIDTH
    BY <1>1
  <2> QED BY <2>1, <2>2, <2>3, Zenon
<1>7. tail = rs
  BY <1>4, <1>5, <1>6, SeqEqual
<1> QED BY <1>2, <1>7 DEF tail, rs

(* The bytes of a response: r and s as they are, behind one that tells the
   parity and for a chain id of one to four bytes is EIP-155's. *)
TellsSignature(sent, id, r, s, v) ==
    /\ SubSeq(sent, 2, Len(sent)) = r \o s
    /\ (sent[1] + 1) % 2 = v
    /\ Len(id) \in 1..4 => sent[1] = (2 * id[Len(id)] + 35 + v) % 256

LEMMA ResponseTells ==
    ASSUME NEW id \in Seq(0..255), NEW r \in Number, NEW s \in Number, NEW v \in 0..1,
           NEW sent, sent = helper_send_response_sig(id, v, Der([r |-> r, s |-> s, v |-> v]))
    PROVE  TellsSignature(sent, id, r, s, v)
<1> DEFINE answer == helper_send_response_sig(id, v, Der([r |-> r, s |-> s, v |-> v]))
<1>2. sent = answer
  OBVIOUS
<1>3. HoldsSignature(answer, FirstByte(id, v), r, s)
  BY ResponseHoldsSignature, Zenon
<1> HIDE DEF answer
<1>4. HoldsSignature(sent, FirstByte(id, v), r, s)
  BY <1>2, <1>3
<1>5. SubSeq(sent, 2, Len(sent)) = r \o s /\ sent[1] = FirstByte(id, v)
  BY <1>4, SentIsNumbers, Zenon
<1>6. /\ (sent[1] + 1) % 2 = v
      /\ Len(id) \in 1..4 => sent[1] = (2 * id[Len(id)] + 35 + v) % 256
  BY <1>5, FirstByteTells
<1> QED BY <1>5, <1>6 DEF TellsSignature

(* Numbers of the same width, one behind the other, are told apart. *)
LEMMA NumbersJoined ==
    ASSUME NEW r \in Number, NEW s \in Number, NEW i \in 1..WIDTH
    PROVE  (r \o s)[i] = r[i] /\ (r \o s)[WIDTH + i] = s[i]
<1>1. r \in Seq(Nat) /\ Len(r) = WIDTH /\ s \in Seq(Nat) /\ Len(s) = WIDTH
  BY NumberIsSequence
<1>2. \A j \in 1..Len(r) : (r \o s)[j] = r[j]
  BY <1>1
<1>3. \A j \in 1..Len(s) : (r \o s)[Len(r) + j] = s[j]
  BY <1>1
<1> QED BY <1>1, <1>2, <1>3

LEMMA NumbersTold ==
    ASSUME NEW r \in Number, NEW s \in Number, NEW p \in Number, NEW q \in Number,
           NEW both, both = r \o s, both = p \o q
    PROVE  r = p /\ s = q
<1> DEFINE rs == r \o s
           pq == p \o q
<1>1. \A i \in 1..WIDTH : rs[i] = r[i] /\ rs[WIDTH + i] = s[i]
  BY NumbersJoined
<1>2. \A i \in 1..WIDTH : pq[i] = p[i] /\ pq[WIDTH + i] = q[i]
  BY NumbersJoined
<1>3. rs = pq
  OBVIOUS
<1> HIDE DEF rs, pq
<1>4. \A i \in 1..WIDTH : r[i] = p[i] /\ s[i] = q[i]
  <2> TAKE i \in 1..WIDTH
  <2>1. rs[i] = r[i] /\ rs[WIDTH + i] = s[i]
    BY <1>1, Zenon
  <2>2. rs[i] = p[i] /\ rs[WIDTH + i] = q[i]
    BY <1>2, <1>3, Zenon
  <2> QED BY <2>1, <2>2, Zenon
<1>5. /\ r \in Seq(Nat) /\ Len(r) = WIDTH /\ p \in Seq(Nat) /\ Len(p) = WIDTH
      /\ s \in Seq(Nat) /\ Len(s) = WIDTH /\ q \in Seq(Nat) /\ Len(q) = WIDTH
  BY NumberIsSequence
<1>6. r = p
  <2>1. \A i \in 1..Len(r) : r[i] = p[i]
    BY <1>4, <1>5
  <2> QED BY <1>5, <2>1, SeqEqual
<1>7. s = q
  <2>1. \A i \in 1..Len(s) : s[i] = q[i]
    BY <1>4, <1>5
  <2> QED BY <1>5, <2>1, SeqEqual
<1> QED BY <1>6, <1>7

(* Whatever the DER lengths of its numbers, and whatever the chain id, of all
   signatures only the one that was made gives the response that was sent. *)
THEOREM ResponseOfSignature == Spec => []ResponseTellsSignature
<1>1. ReviewInv => ResponseTellsSignature
  <2> SUFFICES ASSUME ReviewInv, reply.kind = "signature", NEW other \in Signatures,
                      helper_send_response_sig(tx.chainID, other.v, Der(other))
                          = reply.sent
               PROVE  other = reply.signature
    BY DEF ResponseTellsSignature
  <2> DEFINE mine == reply.signature
             sent == reply.sent
  <2>1. /\ tx \in Txs /\ mine \in Signatures
        /\ sent = helper_send_response_sig(tx.chainID, mine.v, Der(mine))
    BY DEF ReviewInv, Signed
  <2>2. tx.chainID \in Seq(0..255)
    BY <2>1, ReviewAssumption
  <2>3. /\ mine \in [r : [1..WIDTH -> 0..255], s : [1..WIDTH -> 0..255], v : 0..1]
        /\ other \in [r : [1..WIDTH -> 0..255], s : [1..WIDTH -> 0..255], v : 0..1]
    BY <2>1, ReviewAssumption
  <2>4. sent = helper_send_response_sig(tx.chainID, other.v, Der(other))
    OBVIOUS
  <2> DEFINE id == tx.chainID
             Sent(r, s, v) == helper_send_response_sig(id, v, Der([r |-> r, s |-> s, v |-> v]))
  <2> HIDE DEF mine, sent
  <2>5. /\ mine.r \in Number /\ mine.s \in Number /\ mine.v \in 0..1
        /\ other.r \in Number /\ other.s \in Number /\ other.v \in 0..1
    BY <2>3 DEF Number
  <2>6. /\ mine = [r |-> mine.r, s |-> mine.s, v |-> mine.v]
        /\ other = [r |-> other.r, s |-> other.s, v |-> other.v]
    BY <2>3
  <2>7. sent = Sent(mine.r, mine.s, mine.v) /\ sent = Sent(other.r, other.s, other.v)
    BY <2>1, <2>4, <2>6
  <2>8. id \in Seq(0..255)
    BY <2>2
  <2> HIDE DEF id
  <2>9. TellsSignature(sent, id, mine.r, mine.s, mine.v)
    BY <2>5, <2>7, <2>8, ResponseTells, Zenon
  <2>10. TellsSignature(sent, id, other.r, other.s, other.v)
    BY <2>5, <2>7, <2>8, ResponseTells, Zenon
  <2>11. mine.r \o mine.s = other.r \o other.s /\ mine.v = other.v
    BY <2>9, <2>10 DEF TellsSignature
  <2>12. PICK r \in Number, s \in Number, p \in Number, q \in Number :
             r = mine.r /\ s = mine.s /\ p = other.r /\ q = other.s
    BY <2>5
  <2>13. mine.r = other.r /\ mine.s = other.s
    <3>1. PICK both : both = r \o s
      OBVIOUS
    <3>2. both = p \o q
      BY <2>11, <2>12, <3>1
    <3>3. ASSUME r \in Number, s \in Number, p \in Number, q \in Number
          PROVE  r = p /\ s = q
      BY <3>1, <3>2, <3>3, NumbersTold
    <3> QED BY <2>12, <3>3
  <2> QED BY <2>6, <2>11, <2>13 DEF mine
<1> QED BY <1>1, ReviewInvariant, PTL

==============================================================================
