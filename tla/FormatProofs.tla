----------------------------- MODULE FormatProofs -----------------------------
(***************************************************************************)
(* What helper/format.c writes denotes the number it was given, for every  *)
(* number of at most 256 bits.                                             *)
(***************************************************************************)
EXTENDS Numerals, Induction, SequenceTheorems

------------------------------------------------------------------------------
(* Numerals. *)

(* What the digits up to each place denote. *)
Partial(h, base, s) ==
    /\ h \in [0..Len(s) -> Nat]
    /\ h[0] = 0
    /\ \A i \in 1..Len(s) : h[i] = base * h[i - 1] + s[i]

LEMMA PartialExists ==
    ASSUME NEW base \in Nat, NEW s \in Seq(Nat)
    PROVE  \E h : Partial(h, base, s)
<1> DEFINE step == [i \in 1..Len(s) |-> [v \in Nat |-> base * v + s[i]]]
<1>1. step \in [1..Len(s) -> [Nat -> Nat]]
  <2>1. ASSUME NEW i \in 1..Len(s), NEW v \in Nat PROVE base * v + s[i] \in Nat
    <3>1. base * v \in Nat /\ s[i] \in Nat
      OBVIOUS
    <3> QED BY <3>1
  <2> QED BY <2>1
<1>2. Len(s) \in Nat /\ 0 \in Nat
  OBVIOUS
<1>3. \A i \in 1..Len(s), v \in Nat : step[i][v] = base * v + s[i]
  OBVIOUS
<1> HIDE DEF step
<1>4. PICK h : Stepwise(h, Len(s), Nat, 0, step)
  BY <1>1, <1>2, StepwiseExists
<1>5. ASSUME NEW i \in 1..Len(s) PROVE h[i] = base * h[i - 1] + s[i]
  <2>1. i - 1 \in 0..Len(s)
    OBVIOUS
  <2>2. h[i - 1] \in Nat
    BY <1>4, <2>1 DEF Stepwise
  <2> QED BY <1>3, <1>4, <2>2 DEF Stepwise
<1> QED BY <1>4, <1>5 DEF Stepwise, Partial

LEMMA DenotedPartial ==
    ASSUME NEW base \in Nat, NEW s \in Seq(Nat)
    PROVE  \E h : Partial(h, base, s) /\ Denoted(base, s) = h[Len(s)]
<1> DEFINE Def(h) == h = [i \in 0..Len(s) |->
                            IF i = 0 THEN 0 ELSE base * h[i - 1] + s[i]]
           h == CHOOSE h : Def(h)
<1>1. PICK g : Partial(g, base, s)
  BY PartialExists
<1>2. Def(g)
  BY <1>1 DEF Partial
<1>3. Def(h)
  BY <1>2
<1>4. Denoted(base, s) = h[Len(s)]
  BY DEF Denoted
<1> HIDE DEF h
<1>5. h[0] = 0 /\ \A i \in 1..Len(s) : h[i] = base * h[i - 1] + s[i]
  <2>1. 0 \in 0..Len(s)
    OBVIOUS
  <2>2. h[0] = 0
    BY <1>3, <2>1
  <2>3. ASSUME NEW i \in 1..Len(s) PROVE h[i] = base * h[i - 1] + s[i]
    <3>1. i \in 0..Len(s) /\ i # 0
      OBVIOUS
    <3> QED BY <1>3, <3>1
  <2> QED BY <2>2, <2>3
<1>6. \A i \in 0..Len(s) : h[i] \in Nat
  <2> DEFINE S == {i \in Nat : h[i] \in Nat}
  <2>1. 0 \in S
    BY <1>5
  <2>2. ASSUME NEW i \in 0 .. Len(s) - 1, i \in S PROVE i + 1 \in S
    <3>1. i + 1 \in 1..Len(s) /\ (i + 1) - 1 = i /\ h[i] \in Nat
      BY <2>2
    <3>2. h[i + 1] = base * h[i] + s[i + 1] /\ s[i + 1] \in Nat
      BY <1>5, <3>1
    <3>3. base * h[i] \in Nat
      BY <3>1
    <3> QED BY <3>2, <3>3
  <2>3. Len(s) \in Nat
    OBVIOUS
  <2>4. \A i \in 0..Len(s) : i \in S
    <3> HIDE DEF S
    <3> QED BY <2>1, <2>2, <2>3, BoundedInduction
  <2> QED BY <2>4
<1>7. h \in [0..Len(s) -> Nat]
  BY <1>3, <1>6
<1> QED BY <1>4, <1>5, <1>7 DEF Partial

(* Two numerals begin with the same n digits. *)
SameDigits(s, t, n) ==
    n \in 0..Len(s) /\ n <= Len(t) /\ \A i \in 1..n : s[i] = t[i]

(* The digits up to a place determine what they denote. *)
LEMMA PartialAgree ==
    ASSUME NEW base \in Nat, NEW s \in Seq(Nat), NEW t \in Seq(Nat),
           NEW n, SameDigits(s, t, n), NEW g, Partial(g, base, s), NEW h, Partial(h, base, t)
    PROVE  g[n] = h[n]
<1> USE DEF SameDigits
<1> DEFINE S == {i \in Nat : g[i] = h[i]}
<1>1. 0 \in S
  BY DEF Partial
<1>2. ASSUME NEW i \in 0 .. n - 1, i \in S PROVE i + 1 \in S
  <2>1. i + 1 \in 1..Len(s) /\ i + 1 \in 1..Len(t) /\ i + 1 \in 1..n /\ (i + 1) - 1 = i
    OBVIOUS
  <2>2. g[i + 1] = base * g[i] + s[i + 1] /\ h[i + 1] = base * h[i] + t[i + 1]
    BY <2>1 DEF Partial
  <2> QED BY <1>2, <2>1, <2>2
<1>3. n \in Nat
  OBVIOUS
<1>4. \A i \in 0..n : i \in S
  <2> HIDE DEF S
  <2> QED BY <1>1, <1>2, <1>3, BoundedInduction
<1> QED BY <1>3, <1>4

LEMMA DenotedAppend ==
    ASSUME NEW base \in Nat
    PROVE  /\ Denoted(base, <<>>) = 0
           /\ \A s \in Seq(Nat), d \in Nat :
                 /\ Denoted(base, s) \in Nat
                 /\ Denoted(base, Append(s, d)) = base * Denoted(base, s) + d
<1>1. Denoted(base, <<>>) = 0
  <2>1. <<>> \in Seq(Nat) /\ Len(<<>>) = 0
    OBVIOUS
  <2> QED BY <2>1, DenotedPartial DEF Partial
<1>2. ASSUME NEW s \in Seq(Nat), NEW d \in Nat
      PROVE  /\ Denoted(base, s) \in Nat
             /\ Denoted(base, Append(s, d)) = base * Denoted(base, s) + d
  <2> DEFINE t == Append(s, d)
  <2>1. /\ t \in Seq(Nat) /\ Len(t) = Len(s) + 1 /\ t[Len(t)] = d /\ Len(s) \in Nat
        /\ Len(s) \in 0..Len(s) /\ Len(s) <= Len(t) /\ \A i \in 1..Len(s) : s[i] = t[i]
        /\ Len(t) \in 1..Len(t) /\ Len(t) - 1 = Len(s)
    OBVIOUS
  <2> HIDE DEF t
  <2>2. PICK g : Partial(g, base, s) /\ Denoted(base, s) = g[Len(s)]
    BY DenotedPartial
  <2>3. PICK h : Partial(h, base, t) /\ Denoted(base, t) = h[Len(t)]
    BY <2>1, DenotedPartial
  <2>4. g[Len(s)] = h[Len(s)]
    <3>1. SameDigits(s, t, Len(s))
      BY <2>1 DEF SameDigits
    <3> QED BY <2>1, <2>2, <2>3, <3>1, PartialAgree
  <2>5. h[Len(t)] = base * h[Len(t) - 1] + t[Len(t)]
    BY <2>1, <2>3 DEF Partial
  <2>6. g[Len(s)] \in Nat
    BY <2>1, <2>2 DEF Partial
  <2>7. Denoted(base, t) = base * Denoted(base, s) + d
    BY <2>1, <2>2, <2>3, <2>4, <2>5
  <2> QED BY <2>2, <2>6, <2>7 DEF t
<1> QED BY <1>1, <1>2

------------------------------------------------------------------------------
(* The limbs, and their division by ten. *)

Limbed == [1..LIMBS -> 0 .. LIMB - 1]

LEMMA LimbedIsSeq ==
    ASSUME NEW n \in Limbed
    PROVE  n \in Seq(Nat) /\ Len(n) = LIMBS
<1>1. LIMBS \in Nat /\ 0 .. LIMB - 1 \subseteq Nat
  <2>1. LIMBS \in Nat /\ LIMB \in Nat
    BY DEF LIMBS, LIMB
  <2> QED BY <2>1
<1>2. n \in [1..LIMBS -> Nat]
  BY <1>1 DEF Limbed
<1>3. n \in Seq(Nat)
  <2>1. [1..LIMBS -> Nat] \in {[1..k -> Nat] : k \in Nat}
    BY <1>1
  <2> QED BY <1>2, <2>1, SeqDef, Zenon
<1>4. Len(n) \in Nat /\ 1..LIMBS = 1..Len(n)
  BY <1>2, <1>3, LenProperties
<1> QED BY <1>1, <1>3, <1>4

(* A step of the division leaves a digit, and a quotient of sixteen bits. *)
LEMMA DivisionStep ==
    ASSUME NEW c \in Digit, NEW limb \in 0 .. LIMB - 1
    PROVE  /\ Rest(c, limb) \in Digit
           /\ Quotient(c, limb) \in 0 .. LIMB - 1
           /\ c * LIMB + limb = 10 * Quotient(c, limb) + Rest(c, limb)
<1> DEFINE w == c * LIMB + limb
           q == w \div 10
           r == w % 10
<1>1. c \in Nat /\ c <= 9 /\ limb \in Nat /\ limb < LIMB /\ LIMB \in Nat
  <2>1. LIMB \in Nat
    BY DEF LIMB
  <2> QED BY <2>1 DEF Digit
<1>2. w \in Nat /\ w < 655360
  <2>1. w \in Nat
    BY <1>1
  <2>2. w < 655360
    BY <1>1 DEF LIMB
  <2> QED BY <2>1, <2>2
<1>3. q \in Nat /\ q < 65536 /\ r \in Nat /\ r < 10 /\ w = 10 * q + r
  <2> HIDE DEF w
  <2> QED BY <1>2
<1>4. q < LIMB /\ q % LIMB = q
  <2> HIDE DEF q
  <2> QED BY <1>3 DEF LIMB
<1>5. q \in 0 .. LIMB - 1
  <2> HIDE DEF q
  <2> QED BY <1>1, <1>3, <1>4
<1>6. r \in Digit
  <2> HIDE DEF r
  <2> QED BY <1>3 DEF Digit
<1>7. Rest(c, limb) = r /\ Quotient(c, limb) = q % LIMB
  BY DEF Rest, Quotient, Wide
<1> HIDE DEF q, r
<1> QED BY <1>3, <1>4, <1>5, <1>6, <1>7

(* What is left over in front of each limb. *)
Carries(c, n) ==
    /\ c \in [0..LIMBS -> Digit]
    /\ c[0] = 0
    /\ \A i \in 1..LIMBS : c[i] = Rest(c[i - 1], n[i])

LEMMA DivideBy10Carries ==
    ASSUME NEW n \in Limbed
    PROVE  \E c : /\ Carries(c, n)
                  /\ DivideBy10(n) =
                       [quotient |-> [i \in 1..LIMBS |-> Quotient(c[i - 1], n[i])],
                        digit    |-> c[LIMBS]]
<1> DEFINE Def(c) == c = [i \in 0..LIMBS |->
                            IF i = 0 THEN 0 ELSE Rest(c[i - 1], n[i])]
           c == CHOOSE c : Def(c)
           step == [i \in 1..LIMBS |-> [v \in Digit |-> Rest(v, n[i])]]
<1>1. LIMBS \in Nat /\ 0 \in Digit
  BY DEF LIMBS, Digit
<1>2. \A i \in 1..LIMBS : n[i] \in 0 .. LIMB - 1
  BY DEF Limbed
<1>3. step \in [1..LIMBS -> [Digit -> Digit]]
  BY <1>2, DivisionStep
<1>4. \A i \in 1..LIMBS, v \in Digit : step[i][v] = Rest(v, n[i])
  OBVIOUS
<1> HIDE DEF step
<1>5. PICK g : Stepwise(g, LIMBS, Digit, 0, step)
  BY <1>1, <1>3, StepwiseExists
<1>6. \A i \in 1..LIMBS : i - 1 \in 0..LIMBS
  BY DEF LIMBS
<1>7. Carries(g, n)
  BY <1>4, <1>5, <1>6 DEF Stepwise, Carries
<1>8. Def(g)
  BY <1>7 DEF Carries
<1>9. Def(c)
  BY <1>8
<1>10. DivideBy10(n) =
         [quotient |-> [i \in 1..LIMBS |-> Quotient(c[i - 1], n[i])],
          digit    |-> c[LIMBS]]
  BY DEF DivideBy10
<1> HIDE DEF c
<1>11. c[0] = 0 /\ \A i \in 1..LIMBS : c[i] = Rest(c[i - 1], n[i])
  BY <1>9 DEF LIMBS
<1>12. \A i \in 0..LIMBS : c[i] = g[i]
  <2> DEFINE S == {i \in Nat : c[i] = g[i]}
  <2>1. 0 \in S
    BY <1>7, <1>11 DEF Carries
  <2>2. ASSUME NEW i \in 0 .. LIMBS - 1, i \in S PROVE i + 1 \in S
    <3>1. i + 1 \in 1..LIMBS /\ (i + 1) - 1 = i
      BY <1>1
    <3> QED BY <1>7, <1>11, <2>2, <3>1 DEF Carries
  <2>3. \A i \in 0..LIMBS : i \in S
    <3> HIDE DEF S
    <3> QED BY <1>1, <2>1, <2>2, BoundedInduction
  <2> QED BY <2>3
<1>13. c \in [0..LIMBS -> Digit]
  BY <1>7, <1>9, <1>12 DEF Carries
<1> QED BY <1>10, <1>11, <1>13 DEF Carries

(* One pass divides by ten: sixteen bits hold each limb of the quotient, and
   the digit is the remainder. *)
LEMMA DividesBy10 ==
    ASSUME NEW n \in Limbed
    PROVE  LET pass == DivideBy10(n) IN
           /\ pass.quotient \in Limbed
           /\ pass.digit \in Digit
           /\ Denoted(LIMB, n) = 10 * Denoted(LIMB, pass.quotient) + pass.digit
<1>1. PICK c : /\ Carries(c, n)
               /\ DivideBy10(n) =
                    [quotient |-> [i \in 1..LIMBS |-> Quotient(c[i - 1], n[i])],
                     digit    |-> c[LIMBS]]
  BY DivideBy10Carries
<1> DEFINE q == [i \in 1..LIMBS |-> Quotient(c[i - 1], n[i])]
<1>2. ASSUME NEW i \in 0 .. LIMBS - 1
      PROVE  /\ i + 1 \in 1..LIMBS /\ (i + 1) - 1 = i
             /\ c[i] \in Digit /\ n[i + 1] \in 0 .. LIMB - 1
             /\ c[i + 1] = Rest(c[i], n[i + 1])
  <2>1. i + 1 \in 1..LIMBS /\ (i + 1) - 1 = i /\ i \in 0..LIMBS
    BY DEF LIMBS
  <2> QED BY <1>1, <2>1 DEF Carries, Limbed
<1>3. ASSUME NEW i \in 1..LIMBS PROVE q[i] \in 0 .. LIMB - 1
  <2>1. i - 1 \in 0..LIMBS - 1 /\ (i - 1) + 1 = i
    BY DEF LIMBS
  <2>2. c[i - 1] \in Digit /\ n[i] \in 0 .. LIMB - 1
    BY <1>2, <2>1
  <2> QED BY <2>2, DivisionStep
<1>4. q \in Limbed
  BY <1>3 DEF Limbed
<1>5. \A i \in 0 .. LIMBS - 1 : q[i + 1] = Quotient(c[i], n[i + 1])
  BY <1>2
<1> HIDE DEF q
<1>6. LIMBS \in Nat /\ LIMBS \in 0..LIMBS /\ LIMB \in Nat
  BY DEF LIMBS, LIMB
<1>7. /\ n \in Seq(Nat) /\ Len(n) = LIMBS
      /\ q \in Seq(Nat) /\ Len(q) = LIMBS
  BY <1>4, LimbedIsSeq
<1>8. PICK g : Partial(g, LIMB, n) /\ Denoted(LIMB, n) = g[LIMBS]
  BY <1>6, <1>7, DenotedPartial
<1>9. PICK h : Partial(h, LIMB, q) /\ Denoted(LIMB, q) = h[LIMBS]
  BY <1>6, <1>7, DenotedPartial
<1>10. \A i \in 0..LIMBS : g[i] = 10 * h[i] + c[i]
  <2> DEFINE S == {i \in Nat : g[i] = 10 * h[i] + c[i]}
  <2>1. 0 \in S
    BY <1>1, <1>8, <1>9 DEF Partial, Carries
  <2>2. ASSUME NEW i \in 0 .. LIMBS - 1, i \in S PROVE i + 1 \in S
    <3>1. /\ i + 1 \in 1..LIMBS /\ (i + 1) - 1 = i /\ i \in 0..LIMBS
          /\ c[i] \in Digit /\ n[i + 1] \in 0 .. LIMB - 1
          /\ c[i + 1] = Rest(c[i], n[i + 1])
      BY <1>2, <1>6
    <3>2. g[i + 1] = LIMB * g[i] + n[i + 1]
      BY <1>7, <1>8, <3>1 DEF Partial
    <3>3. h[i + 1] = LIMB * h[i] + Quotient(c[i], n[i + 1])
      BY <1>5, <1>7, <1>9, <3>1 DEF Partial
    <3>4. /\ Rest(c[i], n[i + 1]) \in Digit
          /\ Quotient(c[i], n[i + 1]) \in 0 .. LIMB - 1
          /\ c[i] * LIMB + n[i + 1] =
               10 * Quotient(c[i], n[i + 1]) + Rest(c[i], n[i + 1])
      BY <3>1, DivisionStep
    <3>5. g[i] = 10 * h[i] + c[i] /\ h[i] \in Nat
      BY <1>7, <1>9, <2>2, <3>1 DEF Partial
    <3>6. g[i + 1] = 10 * h[i + 1] + c[i + 1]
      <4> DEFINE k == Quotient(c[i], n[i + 1])
                 r == Rest(c[i], n[i + 1])
      <4>1. /\ k \in Nat /\ r \in Nat /\ c[i] \in Nat /\ n[i + 1] \in Nat
        BY <1>6, <3>1, <3>4 DEF Digit
      <4> HIDE DEF k, r
      <4>2. LIMB * (10 * h[i] + c[i]) + n[i + 1] = 10 * (LIMB * h[i] + k) + r
        <5>1. LIMB * (10 * h[i] + c[i]) = 10 * (LIMB * h[i]) + c[i] * LIMB
          BY <1>6, <3>5, <4>1
        <5>2. c[i] * LIMB + n[i + 1] = 10 * k + r
          BY <3>4 DEF k, r
        <5>3. LIMB * h[i] \in Nat /\ c[i] * LIMB \in Nat
          BY <1>6, <3>5, <4>1
        <5> QED BY <4>1, <5>1, <5>2, <5>3
      <4> QED BY <3>1, <3>2, <3>3, <3>5, <4>2 DEF k, r
    <3> QED BY <3>6
  <2>3. \A i \in 0..LIMBS : i \in S
    <3> HIDE DEF S
    <3> QED BY <1>6, <2>1, <2>2, BoundedInduction
  <2> QED BY <2>3
<1>11. DivideBy10(n) = [quotient |-> q, digit |-> c[LIMBS]] /\ c[LIMBS] \in Digit
  BY <1>1, <1>6 DEF q, Carries
<1> QED BY <1>4, <1>6, <1>8, <1>9, <1>10, <1>11

(* No number of limbs is larger than the one of the largest limbs. *)
Largest == [i \in 1..LIMBS |-> LIMB - 1]

LEMMA AtMostLargest ==
    ASSUME NEW n \in Limbed
    PROVE  /\ Denoted(LIMB, n) \in Nat
           /\ Denoted(LIMB, Largest) \in Nat
           /\ Denoted(LIMB, n) <= Denoted(LIMB, Largest)
<1>1. LIMBS \in Nat /\ LIMBS \in 0..LIMBS /\ LIMB \in Nat /\ LIMB - 1 \in Nat
  BY DEF LIMBS, LIMB
<1>2. Largest \in Limbed /\ \A i \in 1..LIMBS : Largest[i] = LIMB - 1
  BY <1>1 DEF Largest, Limbed
<1>3. /\ n \in Seq(Nat) /\ Len(n) = LIMBS
      /\ Largest \in Seq(Nat) /\ Len(Largest) = LIMBS
  BY <1>2, LimbedIsSeq
<1>4. PICK g : Partial(g, LIMB, n) /\ Denoted(LIMB, n) = g[LIMBS]
  BY <1>1, <1>3, DenotedPartial
<1>5. PICK h : Partial(h, LIMB, Largest) /\ Denoted(LIMB, Largest) = h[LIMBS]
  BY <1>1, <1>3, DenotedPartial
<1>6. \A i \in 0..LIMBS : g[i] \in Nat /\ h[i] \in Nat
  BY <1>3, <1>4, <1>5 DEF Partial
<1>7. \A i \in 0..LIMBS : g[i] <= h[i]
  <2> DEFINE S == {i \in Nat : g[i] <= h[i]}
  <2>1. 0 \in S
    BY <1>4, <1>5 DEF Partial
  <2>2. ASSUME NEW i \in 0 .. LIMBS - 1, i \in S PROVE i + 1 \in S
    <3>1. /\ i + 1 \in 1..LIMBS /\ (i + 1) - 1 = i /\ i \in 0..LIMBS
          /\ n[i + 1] \in Nat /\ n[i + 1] <= LIMB - 1 /\ g[i] <= h[i]
      BY <1>1, <2>2 DEF Limbed
    <3>2. g[i + 1] = LIMB * g[i] + n[i + 1] /\ h[i + 1] = LIMB * h[i] + (LIMB - 1)
      BY <1>2, <1>3, <1>4, <1>5, <3>1 DEF Partial
    <3>3. LIMB * g[i] <= LIMB * h[i] /\ LIMB * g[i] \in Nat /\ LIMB * h[i] \in Nat
      BY <1>1, <1>6, <3>1
    <3> QED BY <1>1, <3>1, <3>2, <3>3
  <2>3. \A i \in 0..LIMBS : i \in S
    <3> HIDE DEF S
    <3> QED BY <1>1, <2>1, <2>2, BoundedInduction
  <2> QED BY <2>3
<1> QED BY <1>1, <1>4, <1>5, <1>6, <1>7

LEMMA ZeroLimbs ==
    ASSUME NEW n \in Limbed
    PROVE  allzeroes(n) <=> Denoted(LIMB, n) = 0
<1>1. LIMBS \in Nat /\ LIMBS \in 0..LIMBS /\ LIMB \in Nat /\ LIMB # 0
  BY DEF LIMBS, LIMB
<1>2. n \in Seq(Nat) /\ Len(n) = LIMBS
  BY LimbedIsSeq
<1>3. PICK h : Partial(h, LIMB, n) /\ Denoted(LIMB, n) = h[LIMBS]
  BY <1>1, <1>2, DenotedPartial
<1>4. \A i \in 0..LIMBS : h[i] = 0 <=> \A j \in 1..i : n[j] = 0
  <2> DEFINE S == {i \in Nat : h[i] = 0 <=> \A j \in 1..i : n[j] = 0}
  <2>1. 0 \in S
    BY <1>3 DEF Partial
  <2>2. ASSUME NEW i \in 0 .. LIMBS - 1, i \in S PROVE i + 1 \in S
    <3>1. /\ i + 1 \in 1..LIMBS /\ (i + 1) - 1 = i /\ h[i] \in Nat /\ n[i + 1] \in Nat
      BY <1>1, <1>2, <1>3 DEF Partial
    <3>2. h[i + 1] = LIMB * h[i] + n[i + 1]
      BY <1>2, <1>3, <3>1 DEF Partial
    <3>3. LIMB * h[i] \in Nat /\ (LIMB * h[i] = 0 <=> h[i] = 0)
      BY <1>1, <3>1
    <3>4. h[i + 1] = 0 <=> h[i] = 0 /\ n[i + 1] = 0
      BY <3>1, <3>2, <3>3
    <3>5. (\A j \in 1 .. i + 1 : n[j] = 0) <=> (\A j \in 1..i : n[j] = 0) /\ n[i + 1] = 0
      BY <3>1
    <3> QED BY <2>2, <3>4, <3>5
  <2>3. \A i \in 0..LIMBS : i \in S
    <3> HIDE DEF S
    <3> QED BY <1>1, <2>1, <2>2, BoundedInduction
  <2> QED BY <2>3
<1>5. allzeroes(n) <=> \A j \in 1..LIMBS : n[j] = 0
  BY DEF allzeroes, Limbed
<1> QED BY <1>1, <1>3, <1>4, <1>5

------------------------------------------------------------------------------
(* The digits. *)

LEMMA DigitsAreNumbers == \A s \in Seq(Digit) : s \in Seq(Nat)
<1>1. Digit \subseteq Nat
  BY DEF Digit
<1> QED BY <1>1, SeqMonotonic

(* f gives, of a number of limbs, the digits of its quotient by ten and then
   its last one. *)
LastDigitAppended(f, n) ==
    f[n] = IF allzeroes(n) THEN <<>>
           ELSE Append(f[DivideBy10(n).quotient], DivideBy10(n).digit)

LEMMA decimalExists ==
    \E f \in [Limbed -> Seq(Digit)] : \A n \in Limbed : LastDigitAppended(f, n)
<1> DEFINE D(n) == Denoted(LIMB, n)
           Upto(f, m) == /\ f \in [Limbed -> Seq(Digit)]
                         /\ \A n \in Limbed : D(n) <= m => LastDigitAppended(f, n)
           S == {m \in Nat : \E f : Upto(f, m)}
           B == D(Largest)
<1>1. B \in Nat /\ \A n \in Limbed : D(n) \in Nat /\ D(n) <= B
  <2>1. [i \in 1..LIMBS |-> 0] \in Limbed
    BY DEF Limbed, LIMB
  <2> QED BY <2>1, AtMostLargest
<1>2. \A n \in Limbed : allzeroes(n) <=> D(n) = 0
  BY ZeroLimbs
<1>3. \A n \in Limbed :
         /\ DivideBy10(n).quotient \in Limbed
         /\ DivideBy10(n).digit \in Digit
         /\ D(n) = 10 * D(DivideBy10(n).quotient) + DivideBy10(n).digit
  BY DividesBy10
<1> HIDE DEF D
<1>4. \A n \in Limbed : D(n) # 0 => D(DivideBy10(n).quotient) < D(n)
  <2> TAKE n \in Limbed
  <2> DEFINE q == DivideBy10(n).quotient
             d == DivideBy10(n).digit
  <2>1. D(n) = 10 * D(q) + d /\ D(q) \in Nat /\ d \in Nat
    BY <1>1, <1>3 DEF Digit
  <2> HIDE DEF q, d
  <2>2. D(n) # 0 => D(q) < D(n)
    BY <2>1
  <2> QED BY <2>2 DEF q
<1>5. 0 \in S
  <2> DEFINE f == [n \in Limbed |-> <<>>]
  <2>1. f \in [Limbed -> Seq(Digit)]
    OBVIOUS
  <2>2. ASSUME NEW n \in Limbed, D(n) <= 0 PROVE LastDigitAppended(f, n)
    <3>1. allzeroes(n)
      BY <1>1, <1>2, <2>2
    <3>2. f[n] = <<>>
      OBVIOUS
    <3> QED BY <3>1, <3>2 DEF LastDigitAppended
  <2> HIDE DEF f
  <2> QED BY <2>1, <2>2
<1>6. ASSUME NEW m \in Nat, m \in S PROVE m + 1 \in S
  <2>1. PICK f : Upto(f, m)
    BY <1>6
  <2> DEFINE g == [n \in Limbed |->
                     IF D(n) <= m THEN f[n]
                     ELSE Append(f[DivideBy10(n).quotient], DivideBy10(n).digit)]
  <2>2. g \in [Limbed -> Seq(Digit)]
    <3>1. ASSUME NEW n \in Limbed
          PROVE  Append(f[DivideBy10(n).quotient], DivideBy10(n).digit) \in Seq(Digit)
      <4>1. f[DivideBy10(n).quotient] \in Seq(Digit) /\ DivideBy10(n).digit \in Digit
        BY <1>3, <2>1
      <4> QED BY <4>1
    <3>2. \A n \in Limbed : f[n] \in Seq(Digit)
      BY <2>1
    <3> QED BY <3>1, <3>2
  <2>3. \A n \in Limbed :
           g[n] = IF D(n) <= m THEN f[n]
                  ELSE Append(f[DivideBy10(n).quotient], DivideBy10(n).digit)
    OBVIOUS
  <2> HIDE DEF g
  <2>4. ASSUME NEW n \in Limbed, D(n) <= m + 1 PROVE LastDigitAppended(g, n)
    <3> DEFINE q == DivideBy10(n).quotient
    <3>0. q \in Limbed /\ D(n) \in Nat /\ D(q) \in Nat
      BY <1>1, <1>3
    <3>1. CASE D(n) = 0
      <4>1. D(n) <= m
        BY <3>1
      <4>2. g[n] = f[n] /\ LastDigitAppended(f, n) /\ allzeroes(n)
        BY <1>2, <2>1, <2>3, <3>1, <4>1
      <4> QED BY <4>2 DEF LastDigitAppended
    <3>2. CASE D(n) # 0
      <4>1. D(q) < D(n)
        BY <1>4, <3>2
      <4> HIDE DEF q
      <4>2. D(q) <= m
        BY <2>4, <3>0, <4>1
      <4>3. g[q] = f[q]
        BY <2>3, <3>0, <4>2
      <4>4. f[n] = Append(f[q], DivideBy10(n).digit) \/ ~ (D(n) <= m)
        BY <1>2, <2>1, <3>2 DEF LastDigitAppended, q
      <4>5. g[n] = Append(f[q], DivideBy10(n).digit)
        BY <2>3, <4>4 DEF q
      <4> QED BY <1>2, <3>2, <4>3, <4>5 DEF LastDigitAppended, q
    <3> QED BY <3>1, <3>2
  <2>5. Upto(g, m + 1) /\ m + 1 \in Nat
    BY <2>2, <2>4
  <2> HIDE DEF Upto
  <2> QED BY <2>5
<1>7. \A m \in Nat : m \in S
  <2> HIDE DEF S
  <2> QED BY <1>5, <1>6, SetInduction
<1>8. PICK f : Upto(f, B)
  BY <1>1, <1>7
<1> QED BY <1>1, <1>8

LEMMA decimalUnfolds == \A k \in Limbed : LastDigitAppended(decimal, k)
<1> DEFINE Def(f) == f = [k \in [1..LIMBS -> 0 .. LIMB - 1] |->
                            IF allzeroes(k) THEN <<>>
                            ELSE LET pass == DivideBy10(k)
                                 IN  Append(f[pass.quotient], pass.digit)]
<1>1. PICK g \in [Limbed -> Seq(Digit)] : \A k \in Limbed : LastDigitAppended(g, k)
  BY decimalExists
<1>2. Def(g)
  BY <1>1 DEF Limbed, LastDigitAppended
<1>3. decimal = CHOOSE f : Def(f)
  BY DEF decimal
<1>4. Def(decimal)
  <2> HIDE DEF Def
  <2> QED BY <1>2, <1>3
<1> QED BY <1>4 DEF Limbed, LastDigitAppended

(* What the code writes are digits that denote what the limbs do. *)
LEMMA decimalRight ==
    ASSUME NEW n \in Limbed
    PROVE  /\ decimal[n] \in Seq(Digit)
           /\ Denoted(10, decimal[n]) = Denoted(LIMB, n)
<1> DEFINE D(k) == Denoted(LIMB, k)
<1>5. \A k \in Limbed : LastDigitAppended(decimal, k)
  BY decimalUnfolds
<1>6. \A k \in Limbed :
         /\ D(k) \in Nat
         /\ allzeroes(k) <=> D(k) = 0
         /\ DivideBy10(k).quotient \in Limbed
         /\ DivideBy10(k).digit \in Digit
         /\ D(k) = 10 * D(DivideBy10(k).quotient) + DivideBy10(k).digit
  BY AtMostLargest, ZeroLimbs, DividesBy10
<1> HIDE DEF D
<1> DEFINE Right(k) == decimal[k] \in Seq(Digit) /\ Denoted(10, decimal[k]) = D(k)
           S == {m \in Nat : \A k \in Limbed : D(k) <= m => Right(k)}
<1>7. ASSUME NEW k \in Limbed, D(k) = 0 PROVE Right(k)
  <2>1. decimal[k] = <<>>
    BY <1>5, <1>6, <1>7 DEF LastDigitAppended
  <2> QED BY <1>7, <2>1, DenotedAppend
<1>8. 0 \in S
  BY <1>6, <1>7
<1>9. ASSUME NEW m \in Nat, m \in S PROVE m + 1 \in S
  <2> SUFFICES ASSUME NEW k \in Limbed, D(k) <= m + 1, D(k) # 0 PROVE Right(k)
    BY <1>7
  <2> DEFINE q == DivideBy10(k).quotient
             d == DivideBy10(k).digit
  <2>1. decimal[k] = Append(decimal[q], d)
    BY <1>5, <1>6 DEF LastDigitAppended
  <2>2. /\ q \in Limbed /\ d \in Digit /\ d \in Nat
        /\ D(k) = 10 * D(q) + d /\ D(k) \in Nat /\ D(q) \in Nat
    BY <1>6 DEF Digit
  <2> HIDE DEF q, d
  <2>3. D(q) <= m
    BY <2>2
  <2>4. Right(q)
    BY <1>9, <2>2, <2>3
  <2>5. decimal[q] \in Seq(Nat)
    BY <2>4, DigitsAreNumbers
  <2>6. Denoted(10, decimal[k]) = 10 * D(q) + d
    BY <2>1, <2>2, <2>4, <2>5, DenotedAppend
  <2> QED BY <2>1, <2>2, <2>4, <2>6
<1>10. \A m \in Nat : m \in S
  <2> HIDE DEF S
  <2> QED BY <1>8, <1>9, SetInduction
<1> QED BY <1>6, <1>10 DEF D

------------------------------------------------------------------------------
(* The limbs of a number's bytes. *)

Byte == 0..255

LEMMA RangeIs == \A m \in Nat : \A x \in 0..m : x \in Nat /\ x <= m
OBVIOUS

LEMMA ByteIs == \A b \in Byte : b \in Nat /\ b <= 255
<1>1. 255 \in Nat
  OBVIOUS
<1> QED BY <1>1, RangeIs, Zenon DEF Byte

LEMMA ZerosAre ==
    ASSUME NEW k \in Nat
    PROVE  /\ Zeros(k) \in Seq({0}) /\ Len(Zeros(k)) = k
           /\ \A i \in 1..k : Zeros(k)[i] = 0
BY DEF Zeros

(* Leading zeros denote nothing. *)
LEMMA LeadingZeros ==
    ASSUME NEW base \in Nat, NEW k \in Nat, NEW s \in Seq(Nat)
    PROVE  /\ Zeros(k) \o s \in Seq(Nat)
           /\ Denoted(base, Zeros(k) \o s) = Denoted(base, s)
<1> DEFINE t == Zeros(k) \o s
<1>1. Zeros(k) \in Seq(Nat) /\ Len(Zeros(k)) = k /\ \A i \in 1..k : Zeros(k)[i] = 0
  <2>1. Zeros(k) \in Seq(Nat)
    <3>1. {0} \subseteq Nat
      OBVIOUS
    <3> QED BY <3>1, ZerosAre, SeqMonotonic
  <2> QED BY <2>1, ZerosAre
<1>2. Len(s) \in Nat /\ k \in 0..k
  OBVIOUS
<1>3. /\ t \in Seq(Nat) /\ Len(t) = k + Len(s)
      /\ \A i \in 1 .. k + Len(s) : t[i] = IF i <= k THEN Zeros(k)[i] ELSE s[i - k]
  <2>1. t \in Seq(Nat) /\ Len(t) = Len(Zeros(k)) + Len(s)
    BY <1>1, ConcatProperties
  <2>2. \A i \in 1 .. Len(Zeros(k)) + Len(s) :
           t[i] = IF i <= Len(Zeros(k)) THEN Zeros(k)[i] ELSE s[i - Len(Zeros(k))]
    BY <1>1, ConcatProperties
  <2> HIDE DEF t
  <2> QED BY <1>1, <2>1, <2>2
<1> HIDE DEF t
<1>4. PICK g : Partial(g, base, t) /\ Denoted(base, t) = g[Len(t)]
  BY <1>3, DenotedPartial
<1>5. PICK h : Partial(h, base, s) /\ Denoted(base, s) = h[Len(s)]
  BY DenotedPartial
<1>6. \A i \in 0..k : g[i] = 0
  <2> DEFINE S == {i \in Nat : g[i] = 0}
  <2>1. 0 \in S
    BY <1>4 DEF Partial
  <2>2. ASSUME NEW i \in 0 .. k - 1, i \in S PROVE i + 1 \in S
    <3>1. i + 1 \in 1 .. k + Len(s) /\ i + 1 \in 1..k /\ (i + 1) - 1 = i
      BY <1>2
    <3>2. t[i + 1] = 0
      BY <1>1, <1>3, <3>1
    <3>3. g[i + 1] = base * g[i] + t[i + 1]
      BY <1>3, <1>4, <3>1 DEF Partial
    <3>4. base * 0 + 0 = 0
      OBVIOUS
    <3> QED BY <2>2, <3>2, <3>3, <3>4
  <2>3. \A i \in 0..k : i \in S
    <3> HIDE DEF S
    <3> QED BY <2>1, <2>2, BoundedInduction
  <2> QED BY <2>3
<1>7. \A i \in 0..Len(s) : g[k + i] = h[i]
  <2> DEFINE S == {i \in Nat : g[k + i] = h[i]}
  <2>1. 0 \in S
    <3>1. k + 0 = k
      OBVIOUS
    <3> QED BY <1>2, <1>5, <1>6, <3>1 DEF Partial
  <2>2. ASSUME NEW i \in 0 .. Len(s) - 1, i \in S PROVE i + 1 \in S
    <3>1. /\ i + 1 \in 1..Len(s) /\ (i + 1) - 1 = i
          /\ k + (i + 1) \in 1 .. k + Len(s) /\ (k + (i + 1)) - 1 = k + i
          /\ ~(k + (i + 1) <= k) /\ (k + (i + 1)) - k = i + 1
      BY <1>2
    <3>2. t[k + (i + 1)] = s[i + 1]
      BY <1>3, <3>1
    <3>3. g[k + (i + 1)] = base * g[k + i] + t[k + (i + 1)]
      BY <1>3, <1>4, <3>1 DEF Partial
    <3>4. h[i + 1] = base * h[i] + s[i + 1]
      BY <1>5, <3>1 DEF Partial
    <3> QED BY <2>2, <3>2, <3>3, <3>4
  <2>3. \A i \in 0..Len(s) : i \in S
    <3> HIDE DEF S
    <3> QED BY <1>2, <2>1, <2>2, BoundedInduction
  <2> QED BY <2>3
<1>8. g[Len(t)] = h[Len(s)]
  <2>1. Len(s) \in 0..Len(s)
    BY <1>2
  <2> QED BY <1>3, <1>7, <2>1
<1> QED BY <1>3, <1>4, <1>5, <1>8 DEF t

(* The limbs of a number's bytes denote what its bytes do. *)
LEMMA LimbsRight ==
    ASSUME NEW value \in Seq(Byte), Len(value) <= MAX_INT256
    PROVE  /\ Limbs(value) \in Limbed
           /\ Denoted(LIMB, Limbs(value)) = Denoted(256, value)
<1> DEFINE k == MAX_INT256 - Len(value)
           n == Zeros(k) \o value
           L == [i \in 1..LIMBS |-> 256 * n[2 * i - 1] + n[2 * i]]
<1>1. /\ k \in Nat /\ k + Len(value) = 32 /\ LIMBS = 16 /\ LIMB = 65536
      /\ Len(value) \in Nat
  BY DEF MAX_INT256, LIMBS, LIMB
<1>2. value \in Seq(Nat)
  <2>1. Byte \subseteq Nat
    BY DEF Byte
  <2> QED BY <2>1, SeqMonotonic
<1> HIDE DEF k
<1>3. n \in Seq(Byte) /\ Len(n) = 32
  <2>1. Zeros(k) \in Seq(Byte) /\ Len(Zeros(k)) = k
    <3>1. {0} \subseteq Byte
      BY DEF Byte
    <3> QED BY <1>1, <3>1, ZerosAre, SeqMonotonic
  <2> QED BY <1>1, <2>1, ConcatProperties
<1>4. n \in Seq(Nat) /\ Denoted(256, n) = Denoted(256, value)
  BY <1>1, <1>2, LeadingZeros
<1>5. Limbs(value) = L
  BY DEF Limbs, k
<1> HIDE DEF n
<1>6. ASSUME NEW i \in 1..LIMBS
      PROVE  /\ 2 * i - 1 \in 1..32 /\ 2 * i \in 1..32
             /\ n[2 * i - 1] \in Byte /\ n[2 * i] \in Byte
             /\ L[i] = 256 * n[2 * i - 1] + n[2 * i]
             /\ L[i] \in 0 .. LIMB - 1
  <2>1. 2 * i - 1 \in 1..32 /\ 2 * i \in 1..32
    BY <1>1
  <2>2. n[2 * i - 1] \in Byte /\ n[2 * i] \in Byte
    BY <1>3, <2>1, ElementOfSeq
  <2> DEFINE a == n[2 * i - 1]
             b == n[2 * i]
  <2>3. a \in Nat /\ b \in Nat /\ a <= 255 /\ b <= 255
    BY <2>2, ByteIs
  <2> HIDE DEF a, b
  <2>4. 256 * a + b \in Nat /\ 256 * a + b < 65536
    BY <2>3
  <2>5. LIMB \in Nat /\ 256 * a + b < LIMB
    BY <1>1, <2>4
  <2>6. 256 * a + b \in 0 .. LIMB - 1
    BY <2>4, <2>5
  <2> QED BY <2>1, <2>2, <2>6 DEF a, b
<1>7. L \in Limbed
  BY <1>6 DEF Limbed
<1> HIDE DEF L
<1>8. L \in Seq(Nat) /\ Len(L) = 16
  BY <1>1, <1>7, LimbedIsSeq
<1>9. LIMB \in Nat /\ 256 \in Nat /\ 16 \in Nat
  BY <1>1
<1>10. PICK g : Partial(g, LIMB, L) /\ Denoted(LIMB, L) = g[16]
  BY <1>8, <1>9, DenotedPartial
<1>11. PICK h : Partial(h, 256, n) /\ Denoted(256, n) = h[32]
  <2>1. n \in Seq(Nat) /\ Len(n) = 32
    BY <1>3, <1>4
  <2>2. \A base \in Nat : \E h : Partial(h, base, n) /\ Denoted(base, n) = h[Len(n)]
    BY <2>1, DenotedPartial
  <2>3. \E h : Partial(h, 256, n) /\ Denoted(256, n) = h[Len(n)]
    BY <1>9, <2>2, Zenon
  <2> QED BY <2>1, <2>3, Zenon
<1>12. \A i \in 0..16 : g[i] = h[2 * i]
  <2> DEFINE S == {i \in Nat : g[i] = h[2 * i]}
  <2>1. 0 \in S
    BY <1>10, <1>11 DEF Partial
  <2>2. ASSUME NEW i \in 0 .. 16 - 1, i \in S PROVE i + 1 \in S
    <3>1. /\ i + 1 \in 1..16 /\ (i + 1) - 1 = i
          /\ 2 * (i + 1) \in 1..32 /\ 2 * (i + 1) - 1 \in 1..32
          /\ 2 * i \in 0..32 /\ (2 * (i + 1) - 1) - 1 = 2 * i
      OBVIOUS
    <3>2. g[i + 1] = LIMB * g[i] + L[i + 1]
      BY <1>8, <1>10, <3>1 DEF Partial
    <3>3. /\ h[2 * (i + 1)] = 256 * h[2 * (i + 1) - 1] + n[2 * (i + 1)]
          /\ h[2 * (i + 1) - 1] = 256 * h[2 * i] + n[2 * (i + 1) - 1]
      BY <1>3, <1>11, <3>1 DEF Partial
    <3>4. /\ L[i + 1] = 256 * n[2 * (i + 1) - 1] + n[2 * (i + 1)]
          /\ n[2 * (i + 1) - 1] \in Nat /\ n[2 * (i + 1)] \in Nat
      <4>1. i + 1 \in 1..LIMBS
        BY <1>1, <3>1
      <4>2. n[2 * (i + 1) - 1] \in Byte /\ n[2 * (i + 1)] \in Byte
        BY <1>6, <4>1
      <4> QED BY <1>6, <4>1, <4>2, ByteIs
    <3>5. h[2 * i] \in Nat /\ g[i] = h[2 * i]
      BY <1>3, <1>11, <2>2, <3>1 DEF Partial
    <3> DEFINE a == n[2 * (i + 1) - 1]
               b == n[2 * (i + 1)]
               u == h[2 * i]
               v == h[2 * (i + 1)]
    <3>6. /\ a \in Nat /\ b \in Nat /\ u \in Nat
          /\ g[i + 1] = 65536 * u + (256 * a + b)
          /\ v = 256 * (256 * u + a) + b
      BY <1>1, <3>2, <3>3, <3>4, <3>5
    <3> HIDE DEF a, b, u, v
    <3>7. g[i + 1] = v
      <4>1. 256 * (256 * u + a) + b = 65536 * u + (256 * a + b)
        BY <3>6
      <4> QED BY <3>6, <4>1
    <3> QED BY <3>7 DEF v
  <2>3. \A i \in 0..16 : i \in S
    <3> HIDE DEF S
    <3> QED BY <1>9, <2>1, <2>2, BoundedInduction
  <2> QED BY <2>3
<1>13. g[16] = h[32]
  BY <1>12
<1> QED BY <1>4, <1>5, <1>7, <1>10, <1>11, <1>13

(* uint256_to_decimal: the digits written denote the number the bytes are, for
   every number of at most 256 bits. *)
THEOREM DecimalDenotesBytes ==
    ASSUME NEW value \in Seq(Byte), NEW out_len \in Nat,
           uint256_to_decimal(value, out_len) # Failed
    PROVE  LET text == uint256_to_decimal(value, out_len) IN
           /\ text \in Seq(Digit) /\ Len(text) \in 1..out_len
           /\ Denoted(10, text) = Denoted(256, value)
<1> DEFINE text == uint256_to_decimal(value, out_len)
<1>1. Len(value) <= MAX_INT256
  <2>1. Len(value) \in Nat /\ MAX_INT256 \in Nat
    BY DEF MAX_INT256
  <2> QED BY <2>1 DEF uint256_to_decimal
<1>2. Limbs(value) \in Limbed /\ Denoted(LIMB, Limbs(value)) = Denoted(256, value)
  BY <1>1, LimbsRight
<1>3. ~(Len(value) > MAX_INT256)
  BY <1>1 DEF MAX_INT256
<1>4. CASE allzeroes(Limbs(value))
  <2>1. text = <<0>> /\ out_len >= 2
    BY <1>3, <1>4 DEF uint256_to_decimal
  <2>2. Denoted(256, value) = 0
    BY <1>2, <1>4, ZeroLimbs
  <2>3. Denoted(10, <<0>>) = 0
    <3>1. <<0>> = Append(<<>>, 0) /\ <<>> \in Seq(Nat) /\ 0 \in Nat /\ 10 \in Nat
      OBVIOUS
    <3>2. Denoted(10, Append(<<>>, 0)) = 10 * Denoted(10, <<>>) + 0
      BY <3>1, DenotedAppend
    <3>3. Denoted(10, <<>>) = 0
      BY <3>1, DenotedAppend
    <3> QED BY <3>1, <3>2, <3>3
  <2>4. <<0>> \in Seq(Digit) /\ Len(<<0>>) \in 1..out_len
    BY <2>1 DEF Digit
  <2> QED BY <2>1, <2>2, <2>3, <2>4
<1>5. CASE ~allzeroes(Limbs(value))
  <2>1. text = decimal[Limbs(value)] /\ ~(Len(text) > out_len)
    BY <1>3, <1>5 DEF uint256_to_decimal, Failed
  <2>2. text \in Seq(Digit) /\ Denoted(10, text) = Denoted(256, value)
    BY <1>2, <2>1, decimalRight
  <2>3. text # <<>>
    BY DEF Failed
  <2> HIDE DEF text
  <2>4. Len(text) \in 1..out_len
    BY <2>1, <2>2, <2>3
  <2> QED BY <2>2, <2>4 DEF text
<1> QED BY <1>4, <1>5

------------------------------------------------------------------------------
(* The decimal point. *)

LEMMA PrefixIs ==
    ASSUME NEW S, NEW s \in Seq(S), NEW n \in 0..Len(s)
    PROVE  /\ SubSeq(s, 1, n) \in Seq(S)
           /\ Len(SubSeq(s, 1, n)) = n
           /\ \A i \in 1..n : SubSeq(s, 1, n)[i] = s[i]
<1>1. n \in Int /\ 1 \in Int /\ \A i \in 1..n : s[i] \in S
  BY ElementOfSeq
<1>2. /\ SubSeq(s, 1, n) \in Seq(S)
      /\ Len(SubSeq(s, 1, n)) = IF 1 <= n THEN n - 1 + 1 ELSE 0
      /\ \A i \in 1 .. n - 1 + 1 : SubSeq(s, 1, n)[i] = s[1 + i - 1]
  BY <1>1, SubSeqProperties
<1>3. n - 1 + 1 = n /\ \A i \in 1..n : 1 + i - 1 = i
  BY <1>1
<1> QED BY <1>1, <1>2, <1>3

LEMMA LeastIs ==
    ASSUME NEW S, S \subseteq Int, NEW x \in S, \A y \in S : x <= y
    PROVE  Min(S) = x
<1>1. Min(S) \in S /\ \A y \in S : Min(S) <= y
  BY DEF Min
<1>2. Min(S) <= x /\ x <= Min(S) /\ Min(S) \in Int /\ x \in Int
  BY <1>1
<1> QED BY <1>2

LEMMA GreatestIs ==
    ASSUME NEW n \in Nat, NEW S, S \subseteq 0..n, 0 \in S
    PROVE  Max(S) \in S /\ \A y \in S : y <= Max(S)
<1> DEFINE Upto(k) == \E x \in S : x <= k /\ \A y \in S : y <= k => y <= x
           T == {k \in Nat : Upto(k)}
<1>1. 0 \in T
  OBVIOUS
<1>2. ASSUME NEW k \in 0 .. n - 1, k \in T PROVE k + 1 \in T
  <2>1. PICK x \in S : x <= k /\ \A y \in S : y <= k => y <= x
    BY <1>2
  <2>2. x \in Nat /\ k \in Nat /\ k + 1 \in Nat /\ \A y \in S : y \in Nat
    OBVIOUS
  <2>3. CASE k + 1 \in S
    BY <2>2, <2>3
  <2>4. CASE k + 1 \notin S
    <3>1. \A y \in S : y <= k + 1 => y <= k
      BY <2>2, <2>4
    <3> QED BY <2>1, <2>2, <3>1
  <2> QED BY <2>3, <2>4
<1>3. \A k \in 0..n : k \in T
  <2> HIDE DEF T
  <2> QED BY <1>1, <1>2, BoundedInduction
<1>4. PICK x \in S : \A y \in S : y <= n => y <= x
  <2>1. n \in 0..n
    OBVIOUS
  <2>2. n \in T
    <3> HIDE DEF T
    <3> QED BY <1>3, <2>1
  <2> QED BY <2>2
<1>5. \A y \in S : x >= y
  BY <1>4
<1>6. Max(S) \in S /\ \A y \in S : Max(S) >= y
  <2> HIDE DEF Upto, T
  <2> QED BY <1>5 DEF Max
<1> QED BY <1>6

LEMMA LastNonZeroIs ==
    ASSUME NEW digits \in Seq(Digit)
    PROVE  /\ LastNonZero(digits) \in 0..Len(digits)
           /\ \A i \in 1..Len(digits) : LastNonZero(digits) < i => digits[i] = 0
<1> DEFINE S == {0} \cup {i \in DOMAIN digits : digits[i] # 0}
<1>1. Len(digits) \in Nat /\ DOMAIN digits = 1..Len(digits)
  OBVIOUS
<1>2. S \subseteq 0..Len(digits) /\ 0 \in S
  BY <1>1
<1>3. LastNonZero(digits) = Max(S)
  BY DEF LastNonZero
<1>4. \A i \in 1..Len(digits) : digits[i] # 0 => i \in S
  BY <1>1
<1> HIDE DEF S
<1>5. Max(S) \in S /\ \A y \in S : y <= Max(S)
  BY <1>1, <1>2, GreatestIs
<1>6. Max(S) \in 0..Len(digits)
  BY <1>2, <1>5
<1>7. ASSUME NEW i \in 1..Len(digits), Max(S) < i PROVE digits[i] = 0
  <2>1. i \in S => i <= Max(S)
    BY <1>5
  <2>2. ~(i <= Max(S))
    BY <1>1, <1>6, <1>7
  <2> QED BY <1>4, <2>1, <2>2
<1> QED BY <1>3, <1>6, <1>7

Symbol == 0..10

LEMMA DigitIsSymbol ==
    /\ Digit \subseteq Symbol
    /\ POINT \in Symbol
    /\ POINT \notin Digit
    /\ EXPONENT_SMALLEST_UNIT \in Nat
BY DEF Digit, Symbol, POINT, EXPONENT_SMALLEST_UNIT

(* The digits of an amount in peb, all of them, with a point among them: whole
   ends at the point or behind it, the fraction is what follows. *)
Split(all, p, whole, fraction) ==
    /\ all \in Seq(Digit) /\ whole \in Seq(Symbol) /\ fraction \in Seq(Digit)
    /\ p \in 1..Len(whole)
    /\ whole[p] = POINT
    /\ Len(all) = p - 1 + EXPONENT_SMALLEST_UNIT
    /\ Len(whole) + Len(fraction) = Len(all) + 1
    /\ \A i \in 1..Len(whole) : /\ i < p => whole[i] = all[i]
                                /\ p < i => whole[i] = all[i - 1]
    /\ \A j \in 1..Len(fraction) : fraction[j] = all[Len(whole) - 1 + j]

(* A text whose point is at p and that reads as all the digits. *)
Reads(text, p, all) ==
    /\ text \in Seq(Symbol)
    /\ p \in 1 .. Len(text) + 1
    /\ PointAt(text) = p
    /\ InPeb(text) = all
    /\ p <= Len(text) => text[p] = POINT
    /\ Len(text) <= p + EXPONENT_SMALLEST_UNIT

LEMMA ReadsIf ==
    ASSUME NEW text \in Seq(Symbol), NEW p \in 1 .. Len(text) + 1,
           NEW all \in Seq(Digit),
           Len(all) = p - 1 + EXPONENT_SMALLEST_UNIT, Len(text) <= Len(all) + 1,
           p <= Len(text) => text[p] = POINT,
           \A i \in 1..Len(text) : i < p => text[i] = all[i],
           \A i \in 1..Len(text) : p < i => text[i] = all[i - 1],
           \A i \in 1..Len(all) : p <= i /\ Len(text) <= i => all[i] = 0
    PROVE  Reads(text, p, all)
<1> DEFINE S == {i \in DOMAIN text : text[i] = POINT} \cup {Len(text) + 1}
           e == EXPONENT_SMALLEST_UNIT
<1>1. Len(text) \in Nat /\ DOMAIN text = 1..Len(text) /\ Len(all) \in Nat
  OBVIOUS
<1>2. e \in Nat
  BY DigitIsSymbol
<1>3. \A i \in 1..Len(all) : all[i] # POINT
  BY DigitIsSymbol
<1>4. p \in S
  BY <1>1
<1>5. ASSUME NEW i \in S PROVE p <= i
  <2> SUFFICES ASSUME i \in 1..Len(text), text[i] = POINT, i < p PROVE FALSE
    BY <1>1, <1>5
  <2>1. i \in 1..Len(all) /\ text[i] = all[i]
    BY <1>1, <1>2
  <2> QED BY <1>3, <2>1
<1>6. S \subseteq Int
  BY <1>1
<1>7. PointAt(text) = p
  <2>1. PointAt(text) = Min(S)
    BY DEF PointAt
  <2> HIDE DEF S
  <2> QED BY <1>4, <1>5, <1>6, <2>1, LeastIs
<1>8. InPeb(text) = all
  <2> DEFINE d == [i \in 1..Len(all) |->
                     IF i < p THEN text[i]
                     ELSE IF i < Len(text) THEN text[i + 1] ELSE 0]
  <2>1. InPeb(text) = d
    BY <1>7 DEF InPeb
  <2>2. ASSUME NEW i \in 1..Len(all) PROVE d[i] = all[i]
    <3>1. CASE i < p
      <4>1. i \in 1..Len(text)
        BY <1>1, <3>1
      <4> QED BY <3>1, <4>1
    <3>2. CASE ~(i < p) /\ i < Len(text)
      <4>1. i + 1 \in 1..Len(text) /\ p < i + 1 /\ (i + 1) - 1 = i
        BY <1>1, <3>2
      <4>2. text[i + 1] = all[i]
        BY <4>1
      <4> QED BY <3>2, <4>2
    <3>3. CASE ~(i < p) /\ ~(i < Len(text))
      <4>1. p <= i /\ Len(text) <= i
        BY <1>1, <3>3
      <4> QED BY <3>3, <4>1
    <3> QED BY <3>1, <3>2, <3>3
  <2>3. DOMAIN d = 1..Len(all) /\ DOMAIN all = 1..Len(all)
    OBVIOUS
  <2>4. d = all
    <3>1. d = [i \in 1..Len(all) |-> d[i]] /\ all = [i \in 1..Len(all) |-> all[i]]
      OBVIOUS
    <3> HIDE DEF d
    <3> QED BY <2>2, <3>1
  <2> QED BY <2>1, <2>4
<1> QED BY <1>1, <1>2, <1>7, <1>8 DEF Reads

(* Only zeros behind the last other digit are cut, and the point with the last
   of them. *)
LEMMA CutZerosReads ==
    ASSUME NEW all, NEW p, NEW whole, NEW fraction, Split(all, p, whole, fraction)
    PROVE  Reads(CutZeros(whole, fraction), p, all)
<1> DEFINE m == LastNonZero(fraction)
           text == CutZeros(whole, fraction)
           e == EXPONENT_SMALLEST_UNIT
<1> USE DEF Split
<1>1. /\ Len(all) \in Nat /\ Len(whole) \in Nat /\ Len(fraction) \in Nat
      /\ m \in 0..Len(fraction) /\ e \in Nat
      /\ \A i \in 1..Len(fraction) : m < i => fraction[i] = 0
  BY LastNonZeroIs, DigitIsSymbol
<1>2. ASSUME NEW i \in 1..Len(all), Len(whole) + m <= i PROVE all[i] = 0
  <2> DEFINE j == i - (Len(whole) - 1)
  <2>1. j \in 1..Len(fraction) /\ m < j /\ Len(whole) - 1 + j = i
    BY <1>1, <1>2
  <2> QED BY <1>1, <2>1
<1>3. \A i \in 1..Len(all) : all[i] # POINT
  BY DigitIsSymbol
<1> HIDE DEF m
<1>4. CASE m = 0 /\ fraction # <<>> /\ Last(whole) = POINT
  <2>1. text = SubSeq(whole, 1, Len(whole) - 1)
    BY <1>4 DEF CutZeros, m, Front
  <2>2. whole[Len(whole)] = POINT
    BY <1>4 DEF Last
  <2>3. p = Len(whole)
    <3> SUFFICES ASSUME p < Len(whole) PROVE FALSE
      BY <1>1
    <3>1. Len(whole) \in 1..Len(whole) /\ Len(whole) - 1 \in 1..Len(all)
      BY <1>1
    <3>2. whole[Len(whole)] = all[Len(whole) - 1]
      BY <3>1
    <3> QED BY <1>3, <2>2, <3>1, <3>2
  <2>4. /\ text \in Seq(Symbol) /\ Len(text) = Len(whole) - 1
        /\ \A i \in 1..Len(text) : text[i] = whole[i]
    <3>1. whole \in Seq(Symbol) /\ Len(whole) >= 1
      BY <1>1
    <3> HIDE DEF Split
    <3>2. /\ SubSeq(whole, 1, Len(whole) - 1) \in Seq(Symbol)
          /\ Len(SubSeq(whole, 1, Len(whole) - 1)) = Len(whole) - 1
          /\ \A i \in 1 .. Len(whole) - 1 :
                SubSeq(whole, 1, Len(whole) - 1)[i] = whole[i]
      <4>1. Len(whole) - 1 \in 0..Len(whole)
        BY <1>1, <3>1
      <4> QED BY <3>1, <4>1, PrefixIs
    <3> HIDE DEF text
    <3> QED BY <2>1, <3>2
  <2> HIDE DEF text, Split
  <2>5. p \in 1 .. Len(text) + 1 /\ ~(p <= Len(text)) /\ Len(text) <= Len(all) + 1
    BY <1>1, <2>3, <2>4 DEF Split
  <2>6. \A i \in 1..Len(text) : i < p => text[i] = all[i]
    BY <1>1, <2>4 DEF Split
  <2>7. \A i \in 1..Len(text) : ~(p < i)
    BY <2>3, <2>4, <1>1
  <2>8. \A i \in 1..Len(all) : p <= i => all[i] = 0
    BY <1>1, <1>2, <1>4, <2>3
  <2>9. all \in Seq(Digit) /\ Len(all) = p - 1 + EXPONENT_SMALLEST_UNIT
    BY DEF Split
  <2>10. Reads(text, p, all)
    BY <2>4, <2>5, <2>6, <2>7, <2>8, <2>9, ReadsIf
  <2> QED BY <2>10 DEF text
<1>5. CASE ~(m = 0 /\ fraction # <<>> /\ Last(whole) = POINT)
  <2> DEFINE cut == SubSeq(fraction, 1, m)
  <2>1. text = whole \o cut
    BY <1>5 DEF CutZeros, m
  <2>2. cut \in Seq(Digit) /\ Len(cut) = m /\ \A j \in 1..m : cut[j] = fraction[j]
    BY <1>1
  <2>3. cut \in Seq(Symbol)
    BY <2>2, DigitIsSymbol, SeqMonotonic
  <2> HIDE DEF cut
  <2>4. /\ text \in Seq(Symbol) /\ Len(text) = Len(whole) + m
        /\ \A i \in 1..Len(text) :
              text[i] = IF i <= Len(whole) THEN whole[i] ELSE cut[i - Len(whole)]
    <3>1. /\ whole \o cut \in Seq(Symbol) /\ Len(whole \o cut) = Len(whole) + Len(cut)
          /\ \A i \in 1 .. Len(whole) + Len(cut) :
               (whole \o cut)[i] = IF i <= Len(whole) THEN whole[i]
                                   ELSE cut[i - Len(whole)]
      BY <2>3, ConcatProperties
    <3> HIDE DEF text
    <3> QED BY <2>1, <2>2, <3>1
  <2> HIDE DEF text, Split
  <2>5. p \in 1..Len(text) /\ text[p] = POINT /\ Len(text) <= Len(all) + 1
    BY <1>1, <2>4 DEF Split
  <2>6. ASSUME NEW i \in 1..Len(text), i < p PROVE text[i] = all[i]
    <3>1. i \in 1..Len(whole) /\ i <= Len(whole)
      BY <1>1, <2>4, <2>6 DEF Split
    <3>2. whole[i] = all[i]
      BY <2>6, <3>1 DEF Split
    <3>3. text[i] = whole[i]
      BY <2>4, <3>1
    <3> QED BY <3>2, <3>3
  <2>7. ASSUME NEW i \in 1..Len(text), p < i PROVE text[i] = all[i - 1]
    <3>1. CASE i <= Len(whole)
      <4>1. i \in 1..Len(whole)
        BY <3>1
      <4> QED BY <2>4, <2>7, <3>1, <4>1 DEF Split
    <3>2. CASE ~(i <= Len(whole))
      <4> DEFINE j == i - Len(whole)
      <4>1. j \in 1..m /\ j \in 1..Len(fraction) /\ Len(whole) - 1 + j = i - 1
        BY <1>1, <2>4, <3>2
      <4> HIDE DEF j
      <4>2. text[i] = fraction[j]
        BY <2>2, <2>4, <3>2, <4>1 DEF j
      <4>3. fraction[j] = all[i - 1]
        BY <4>1 DEF Split
      <4> QED BY <4>2, <4>3
    <3> QED BY <3>1, <3>2
  <2>8. \A i \in 1..Len(all) : p <= i /\ Len(text) <= i => all[i] = 0
    BY <1>2, <2>4
  <2>9. all \in Seq(Digit) /\ Len(all) = p - 1 + EXPONENT_SMALLEST_UNIT
    BY DEF Split
  <2>10. p \in 1 .. Len(text) + 1
    BY <1>1, <2>4, <2>5
  <2>11. Reads(text, p, all)
    BY <2>4, <2>5, <2>6, <2>7, <2>8, <2>9, <2>10, ReadsIf
  <2> QED BY <2>11 DEF text
<1> QED BY <1>4, <1>5

(* Where the point goes, and the zeros in front of the digits that reach it. *)
PointOf(src) ==
    IF Len(src) <= EXPONENT_SMALLEST_UNIT THEN 2
    ELSE Len(src) - EXPONENT_SMALLEST_UNIT + 1

LeadingOf(src) ==
    IF Len(src) <= EXPONENT_SMALLEST_UNIT THEN EXPONENT_SMALLEST_UNIT + 1 - Len(src)
    ELSE 0

LEMMA ZerosBefore ==
    ASSUME NEW k \in Nat, NEW src \in Seq(Digit)
    PROVE  /\ Zeros(k) \o src \in Seq(Digit)
           /\ Len(Zeros(k) \o src) = k + Len(src)
           /\ \A i \in 1 .. k + Len(src) :
                 (Zeros(k) \o src)[i] = IF i <= k THEN 0 ELSE src[i - k]
<1>1. Len(Zeros(k)) = k /\ \A i \in 1..k : Zeros(k)[i] = 0
  BY ZerosAre
<1>2. Zeros(k) \in Seq(Digit)
  <2>1. {0} \subseteq Digit
    BY DEF Digit
  <2> QED BY <2>1, ZerosAre, SeqMonotonic
<1> DEFINE z == Zeros(k)
           t == z \o src
<1> HIDE DEF z
<1>3. t \in Seq(Digit) /\ Len(t) = Len(z) + Len(src)
  BY <1>2, ConcatProperties DEF z
<1>4. \A i \in 1 .. Len(z) + Len(src) : t[i] = IF i <= Len(z) THEN z[i] ELSE src[i - Len(z)]
  BY <1>2, ConcatProperties DEF z
<1> HIDE DEF t
<1>5. \A i \in 1 .. k + Len(src) : t[i] = IF i <= k THEN 0 ELSE src[i - k]
  BY <1>1, <1>4 DEF z
<1> QED BY <1>1, <1>3, <1>5 DEF t, z

LEMMA ShortSplit ==
    ASSUME NEW src \in Seq(Digit), src # <<>>, Len(src) <= EXPONENT_SMALLEST_UNIT
    PROVE  Split(Zeros(LeadingOf(src)) \o src, PointOf(src),
                 Whole(src, EXPONENT_SMALLEST_UNIT), Fraction(src, EXPONENT_SMALLEST_UNIT))
<1> DEFINE e == EXPONENT_SMALLEST_UNIT
           L == Len(src)
           k == e + 1 - L
           all == Zeros(k) \o src
           front == <<0, POINT>>
           z == Zeros(e - L)
           whole == front \o z
<1>1. L \in Nat /\ L # 0 /\ e \in Nat /\ k \in Nat /\ e - L \in Nat /\ k + L = e + 1
  BY DigitIsSymbol
<1>2. /\ LeadingOf(src) = k /\ PointOf(src) = 2
      /\ Whole(src, e) = whole /\ Fraction(src, e) = src
  BY DEF LeadingOf, PointOf, Whole, Fraction
<1>3. /\ all \in Seq(Digit) /\ Len(all) = k + L
      /\ \A i \in 1 .. k + L : all[i] = IF i <= k THEN 0 ELSE src[i - k]
  BY <1>1, ZerosBefore
<1>4. front \in Seq(Symbol) /\ Len(front) = 2 /\ front[1] = 0 /\ front[2] = POINT
  BY DEF Symbol, POINT
<1>5. z \in Seq(Symbol) /\ Len(z) = e - L /\ \A i \in 1 .. e - L : z[i] = 0
  <2>1. {0} \subseteq Symbol
    BY DEF Symbol
  <2> QED BY <1>1, <2>1, ZerosAre, SeqMonotonic
<1> HIDE DEF front, z, all
<1>6. /\ whole \in Seq(Symbol) /\ Len(whole) = 2 + (e - L)
      /\ \A i \in 1 .. 2 + (e - L) : whole[i] = IF i <= 2 THEN front[i] ELSE z[i - 2]
  <2>1. /\ whole \in Seq(Symbol) /\ Len(whole) = Len(front) + Len(z)
        /\ \A i \in 1 .. Len(front) + Len(z) :
              whole[i] = IF i <= Len(front) THEN front[i] ELSE z[i - Len(front)]
    BY <1>4, <1>5, ConcatProperties
  <2> HIDE DEF whole
  <2> QED BY <1>4, <1>5, <2>1
<1> HIDE DEF whole, k, e, L
<1>7. 2 \in 1..Len(whole) /\ whole[2] = POINT /\ whole[1] = 0
  BY <1>1, <1>4, <1>6
<1>8. Len(all) = 2 - 1 + e /\ Len(whole) + L = Len(all) + 1
  BY <1>1, <1>3, <1>6
<1>9. ASSUME NEW i \in 1..Len(whole), i < 2 PROVE whole[i] = all[i]
  <2>1. i = 1 /\ 1 \in 1 .. k + L /\ 1 <= k
    BY <1>1, <1>6, <1>9 DEF k, L, e
  <2> QED BY <1>3, <1>7, <2>1
<1>10. ASSUME NEW i \in 1..Len(whole), 2 < i PROVE whole[i] = all[i - 1]
  <2>1. i - 2 \in 1 .. e - L /\ i - 1 \in 1 .. k + L /\ i - 1 <= k /\ ~(i <= 2)
    BY <1>1, <1>6, <1>10 DEF k
  <2> QED BY <1>3, <1>5, <1>6, <2>1
<1>11. ASSUME NEW j \in 1..L PROVE src[j] = all[Len(whole) - 1 + j]
  <2> DEFINE i == Len(whole) - 1 + j
  <2>1. i \in 1 .. k + L /\ ~(i <= k) /\ i - k = j
    BY <1>1, <1>6
  <2> HIDE DEF i
  <2>2. all[i] = src[j]
    BY <1>3, <2>1
  <2> QED BY <2>2 DEF i
<1>12. Split(all, 2, whole, src)
  BY <1>3, <1>6, <1>7, <1>8, <1>9, <1>10, <1>11 DEF Split, e, L
<1> QED BY <1>2, <1>12 DEF all, e

LEMMA LongSplit ==
    ASSUME NEW src \in Seq(Digit), ~(Len(src) <= EXPONENT_SMALLEST_UNIT)
    PROVE  Split(Zeros(LeadingOf(src)) \o src, PointOf(src),
                 Whole(src, EXPONENT_SMALLEST_UNIT), Fraction(src, EXPONENT_SMALLEST_UNIT))
<1> DEFINE e == EXPONENT_SMALLEST_UNIT
           L == Len(src)
           n == L - e
           all == Zeros(0) \o src
           front == SubSeq(src, 1, n)
           whole == front \o <<POINT>>
           fraction == SubSeq(src, n + 1, L)
<1>1. L \in Nat /\ e \in Nat /\ e # 0 /\ n \in Nat /\ n # 0 /\ n \in 0..L /\ n + e = L
      /\ Len(src) = L
  <2>1. L \in Nat /\ e \in Nat /\ e # 0 /\ ~(L <= e)
    BY DEF EXPONENT_SMALLEST_UNIT
  <2> HIDE DEF L, e
  <2>2. n \in Nat /\ n # 0 /\ n \in 0..L /\ n + e = L
    BY <2>1
  <2> QED BY <2>1, <2>2 DEF L
<1>2. /\ LeadingOf(src) = 0 /\ PointOf(src) = n + 1
      /\ Whole(src, e) = whole /\ Fraction(src, e) = fraction
  BY <1>1 DEF LeadingOf, PointOf, Whole, Fraction
<1> HIDE DEF n, e, L
<1>3. /\ all \in Seq(Digit) /\ Len(all) = L /\ \A i \in 1..L : all[i] = src[i]
  <2>1. 0 \in Nat
    OBVIOUS
  <2>2. /\ all \in Seq(Digit) /\ Len(all) = 0 + Len(src)
        /\ \A i \in 1 .. 0 + Len(src) : all[i] = IF i <= 0 THEN 0 ELSE src[i - 0]
    BY <2>1, ZerosBefore, Zenon
  <2> HIDE DEF all
  <2> QED BY <1>1, <2>2
<1>4. front \in Seq(Digit) /\ Len(front) = n /\ \A i \in 1..n : front[i] = src[i]
  BY <1>1, PrefixIs
<1>5. front \in Seq(Symbol)
  BY <1>4, DigitIsSymbol, SeqMonotonic
<1>6. fraction \in Seq(Digit) /\ Len(fraction) = e /\ \A j \in 1..e : fraction[j] = src[n + j]
  <2>1. \A i \in n + 1 .. L : src[i] \in Digit
    BY <1>1
  <2>2. n + 1 \in Int /\ L \in Int /\ n + 1 <= L
    BY <1>1
  <2>3. /\ fraction \in Seq(Digit)
        /\ Len(fraction) = IF n + 1 <= L THEN L - (n + 1) + 1 ELSE 0
        /\ \A j \in 1 .. L - (n + 1) + 1 : fraction[j] = src[(n + 1) + j - 1]
    BY <2>1, <2>2, SubSeqProperties
  <2> HIDE DEF fraction
  <2>4. L - (n + 1) + 1 = e /\ \A j \in 1..e : (n + 1) + j - 1 = n + j
    BY <1>1
  <2> QED BY <2>2, <2>3, <2>4
<1> HIDE DEF all, front, fraction
<1>7. /\ whole \in Seq(Symbol) /\ Len(whole) = n + 1
      /\ \A i \in 1..n : whole[i] = front[i]
      /\ whole[n + 1] = POINT
  <2> DEFINE last == <<POINT>>
  <2>1. last \in Seq(Symbol) /\ Len(last) = 1 /\ last[1] = POINT
    BY DigitIsSymbol
  <2> HIDE DEF last
  <2>2. /\ front \o last \in Seq(Symbol) /\ Len(front \o last) = Len(front) + Len(last)
        /\ \A i \in 1 .. Len(front) + Len(last) :
              (front \o last)[i] = IF i <= Len(front) THEN front[i]
                                   ELSE last[i - Len(front)]
    BY <1>5, <2>1, ConcatProperties
  <2>3. whole = front \o last
    BY DEF last
  <2> HIDE DEF whole
  <2>4. Len(whole) = n + 1
    BY <1>4, <2>1, <2>2, <2>3
  <2>5. \A i \in 1..n : whole[i] = front[i]
    <3> TAKE i \in 1..n
    <3>1. i \in 1 .. Len(front) + Len(last) /\ i <= Len(front)
      BY <1>1, <1>4, <2>1
    <3> QED BY <2>2, <2>3, <3>1
  <2>6. whole[n + 1] = POINT
    <3>1. /\ n + 1 \in 1 .. Len(front) + Len(last) /\ ~(n + 1 <= Len(front))
          /\ n + 1 - Len(front) = 1
      BY <1>1, <1>4, <2>1
    <3> QED BY <2>1, <2>2, <2>3, <3>1
  <2> QED BY <2>2, <2>3, <2>4, <2>5, <2>6
<1> HIDE DEF whole
<1>8. /\ n + 1 \in 1..Len(whole) /\ Len(all) = (n + 1) - 1 + e
      /\ Len(whole) + Len(fraction) = Len(all) + 1
  BY <1>1, <1>3, <1>6, <1>7
<1>9. ASSUME NEW i \in 1..Len(whole), i < n + 1 PROVE whole[i] = all[i]
  <2>1. i \in 1..n /\ i \in 1..L
    BY <1>1, <1>7, <1>9
  <2> QED BY <1>3, <1>4, <1>7, <2>1
<1>10. \A i \in 1..Len(whole) : ~(n + 1 < i)
  BY <1>1, <1>7
<1>11. ASSUME NEW j \in 1..Len(fraction) PROVE fraction[j] = all[Len(whole) - 1 + j]
  <2>1. j \in 1..e /\ Len(whole) - 1 + j = n + j /\ n + j \in 1..L
    BY <1>1, <1>6, <1>7
  <2> QED BY <1>3, <1>6, <2>1
<1>12. Split(all, n + 1, whole, fraction)
  BY <1>3, <1>6, <1>7, <1>8, <1>9, <1>10, <1>11 DEF Split, e
<1> QED BY <1>2, <1>12 DEF all, e

(* adjustDecimals: the text reads as the digits it was made of, and the NUL
   behind it fits the target. *)
LEMMA AdjustReads ==
    ASSUME NEW src \in Seq(Digit), src # <<>>, NEW target \in Nat,
           adjustDecimals(src, target, EXPONENT_SMALLEST_UNIT) # Failed
    PROVE  LET text == adjustDecimals(src, target, EXPONENT_SMALLEST_UNIT) IN
           /\ Reads(text, PointOf(src), Zeros(LeadingOf(src)) \o src)
           /\ Len(text) < target
           /\ PointOf(src) = 2 \/ PointOf(src) + EXPONENT_SMALLEST_UNIT < target
<1> DEFINE e == EXPONENT_SMALLEST_UNIT
           text == adjustDecimals(src, target, e)
           p == PointOf(src)
           k == LeadingOf(src)
           all == Zeros(k) \o src
<1>1. e \in Nat /\ e >= 1 /\ Len(src) \in Nat /\ Len(src) # 0
  BY DEF EXPONENT_SMALLEST_UNIT
<1>2. CASE src = <<0>>
  <2>1. text = <<0>> /\ target >= 2
    BY <1>2 DEF adjustDecimals, Failed
  <2>2. Len(src) = 1 /\ src[1] = 0 /\ src \in Seq(Symbol)
    BY <1>2 DEF Symbol
  <2>3. p = 2 /\ k = e /\ text = src
    BY <1>1, <1>2, <2>1, <2>2 DEF PointOf, LeadingOf
  <2> HIDE DEF p, k, text
  <2>4. /\ all \in Seq(Digit) /\ Len(all) = k + 1
        /\ \A i \in 1 .. k + 1 : all[i] = IF i <= k THEN 0 ELSE src[i - k]
    BY <1>1, <2>2, <2>3, ZerosBefore
  <2> HIDE DEF all, e
  <2>5. \A i \in 1 .. k + 1 : all[i] = 0
    <3> TAKE i \in 1 .. k + 1
    <3>1. i <= k \/ i - k = 1
      BY <1>1, <2>3
    <3> QED BY <2>2, <2>4, <3>1
  <2>6. /\ src \in Seq(Symbol) /\ 2 \in 1 .. Len(src) + 1
        /\ Len(all) = 2 - 1 + e /\ Len(src) <= Len(all) + 1
        /\ ~(2 <= Len(src))
    BY <1>1, <2>2, <2>3, <2>4
  <2>7. \A i \in 1..Len(src) : (i < 2 => src[i] = all[i]) /\ ~(2 < i)
    <3> TAKE i \in 1..Len(src)
    <3>1. i = 1 /\ i \in 1 .. k + 1
      BY <1>1, <2>2, <2>3
    <3> QED BY <2>2, <2>5, <3>1
  <2>8. \A i \in 1..Len(all) : all[i] = 0
    BY <2>4, <2>5
  <2>9. Reads(src, 2, all)
    BY <2>4, <2>6, <2>7, <2>8, ReadsIf DEF e
  <2> QED BY <2>1, <2>2, <2>3, <2>9 DEF all, e, p, k, text
<1>3. CASE src # <<0>>
  <2>1. /\ ~(target < Room(src, e))
        /\ text = CutZeros(Whole(src, e), Fraction(src, e))
    BY <1>3 DEF adjustDecimals, Failed
  <2>2. Split(all, p, Whole(src, e), Fraction(src, e))
    BY ShortSplit, LongSplit
  <2>3. Reads(text, p, all)
    BY <2>1, <2>2, CutZerosReads
  <2>4. Len(text) \in Nat /\ Len(text) <= p + e
    <3> HIDE DEF text, all, p
    <3> QED BY <2>3 DEF Reads
  <2> HIDE DEF text
  <2>5. p + e < target /\ (p = 2 \/ p + e < target)
    <3>1. CASE Len(src) <= e
      <4>1. Room(src, e) = Len(src) + 3 + (e - Len(src)) /\ p = 2
        BY <3>1 DEF Room, PointOf
      <4> QED BY <1>1, <2>1, <4>1
    <3>2. CASE ~(Len(src) <= e)
      <4>1. Room(src, e) = Len(src) + 2 /\ p = Len(src) - e + 1
        BY <3>2 DEF Room, PointOf
      <4> QED BY <1>1, <2>1, <4>1
    <3> QED BY <3>1, <3>2
  <2>6. p \in Nat
    BY <1>1 DEF PointOf
  <2>7. Len(text) < target
    BY <1>1, <2>4, <2>5, <2>6
  <2> QED BY <2>3, <2>5, <2>7 DEF text
<1> QED BY <1>2, <1>3

(* amount_to_string: an amount's text is, in peb, exactly the number its bytes
   are, and the text and its NUL fit the buffer. *)
THEOREM AmountDenotesBytes ==
    ASSUME NEW bytes \in Seq(Byte), NEW size \in Nat \ {0},
           amount_to_string(bytes, EXPONENT_SMALLEST_UNIT, size) # Failed
    PROVE  LET text == amount_to_string(bytes, EXPONENT_SMALLEST_UNIT, size) IN
           /\ InPeb(text) \in Seq(Digit)
           /\ Denoted(10, InPeb(text)) = Denoted(256, bytes)
           /\ text \in Seq(Symbol)
           /\ PointAt(text) \in 1 .. Len(text) + 1
           /\ PointAt(text) <= Len(text) => text[PointAt(text)] = POINT
           /\ Len(text) < size - 1
           /\ Len(text) <= PointAt(text) + EXPONENT_SMALLEST_UNIT
           /\ \/ PointAt(text) = 2
              \/ PointAt(text) + EXPONENT_SMALLEST_UNIT < size - 1
<1> DEFINE e == EXPONENT_SMALLEST_UNIT
           text == amount_to_string(bytes, e, size)
           src == uint256_to_decimal(bytes, DECIMAL_BUFFER)
<1>1. src # Failed /\ text = adjustDecimals(src, size - 1, e)
  BY DEF amount_to_string
<1>2. DECIMAL_BUFFER \in Nat /\ size - 1 \in Nat
  BY DEF DECIMAL_BUFFER
<1>3. src \in Seq(Digit) /\ src # <<>> /\ Denoted(10, src) = Denoted(256, bytes)
  BY <1>1, <1>2, DecimalDenotesBytes DEF Failed
<1> HIDE DEF src
<1> DEFINE p == PointOf(src)
           k == LeadingOf(src)
           all == Zeros(k) \o src
<1>4. adjustDecimals(src, size - 1, e) # Failed
  BY <1>1
<1>5. /\ Reads(text, p, all) /\ Len(text) < size - 1
      /\ p = 2 \/ p + e < size - 1
  BY <1>1, <1>2, <1>3, <1>4, AdjustReads
<1>6. k \in Nat
  BY <1>3, DigitIsSymbol DEF LeadingOf
<1>7. src \in Seq(Nat) /\ 10 \in Nat
  BY <1>3, DigitsAreNumbers
<1> HIDE DEF k
<1>8. all \in Seq(Digit) /\ Denoted(10, all) = Denoted(10, src)
  <2>1. all \in Seq(Digit)
    BY <1>3, <1>6, ZerosBefore
  <2>2. Denoted(10, all) = Denoted(10, src)
    BY <1>6, <1>7, LeadingZeros
  <2> QED BY <2>1, <2>2
<1> HIDE DEF all, p, text, e
<1>9. /\ PointAt(text) = p /\ InPeb(text) = all /\ Len(text) <= p + e
      /\ text \in Seq(Symbol) /\ p \in 1 .. Len(text) + 1
      /\ p <= Len(text) => text[p] = POINT
  BY <1>5 DEF Reads, e
<1>10. /\ InPeb(text) \in Seq(Digit)
       /\ Denoted(10, InPeb(text)) = Denoted(256, bytes)
  BY <1>3, <1>8, <1>9
<1>11. /\ Len(text) < size - 1 /\ Len(text) <= PointAt(text) + e
       /\ PointAt(text) = 2 \/ PointAt(text) + e < size - 1
  BY <1>5, <1>9
<1> QED BY <1>9, <1>10, <1>11 DEF text, e

------------------------------------------------------------------------------
(* Remainders. *)

LEMMA DividedIs ==
    ASSUME NEW x \in Nat, NEW m \in Nat \ {0}
    PROVE  /\ x \div m \in Nat /\ x % m \in Nat /\ x % m < m
           /\ x = m * (x \div m) + (x % m)
<1>1. x \div m \in Nat
  BY SMT
<1>2. x % m \in Nat /\ x % m < m
  BY SMT
<1>3. x = m * (x \div m) + (x % m)
  BY SMT
<1> QED BY <1>1, <1>2, <1>3

LEMMA RemainderIs ==
    ASSUME NEW m \in Nat \ {0}, NEW k \in Nat, NEW r \in Nat, r < m
    PROVE  (m * k + r) % m = r
BY SMT

LEMMA MultiplesVanish ==
    ASSUME NEW m \in Nat \ {0}, NEW k \in Nat, NEW y \in Nat
    PROVE  (m * k + y) % m = y % m
<1> DEFINE q == y \div m
           r == y % m
<1>1. q \in Nat /\ r \in Nat /\ r < m /\ y = m * q + r
  BY DividedIs
<1> HIDE DEF q, r
<1>2. m * k + y = m * (k + q) + r
  BY <1>1
<1>3. (m * (k + q) + r) % m = r
  BY <1>1, RemainderIs
<1> QED BY <1>2, <1>3 DEF r

LEMMA RemainderStep ==
    ASSUME NEW m \in Nat \ {0}, NEW base \in Nat, NEW x \in Nat, NEW d \in Nat
    PROVE  (base * x + d) % m = (base * (x % m) + d) % m
<1> DEFINE q == x \div m
           r == x % m
<1>1. q \in Nat /\ r \in Nat /\ x = m * q + r
  BY DividedIs
<1> HIDE DEF q, r
<1>2. base * q \in Nat /\ base * r \in Nat
  BY <1>1
<1>3. base * x = m * (base * q) + base * r
  BY <1>1
<1>4. (m * (base * q) + (base * r + d)) % m = (base * r + d) % m
  <2> DEFINE k == base * q
             y == base * r + d
  <2>1. k \in Nat /\ y \in Nat
    BY <1>2
  <2> HIDE DEF k, y
  <2>2. (m * k + y) % m = y % m
    BY <2>1, MultiplesVanish
  <2> QED BY <2>2 DEF k, y
<1>5. base * x + d = m * (base * q) + (base * r + d)
  BY <1>1, <1>2, <1>3
<1> QED BY <1>4, <1>5 DEF r

LEMMA DenotedModuloIs ==
    ASSUME NEW m \in Nat \ {0}, NEW base \in Nat, NEW s \in Seq(Nat)
    PROVE  DenotedModulo(m, base, s) = Denoted(base, s) % m
<1> DEFINE Def(f) == f = [i \in 0..Len(s) |->
                            IF i = 0 THEN 0 ELSE (base * f[i - 1] + s[i]) % m]
           f == CHOOSE f : Def(f)
<1>1. Len(s) \in Nat /\ Len(s) \in 0..Len(s) /\ 0 \in 0..Len(s)
  OBVIOUS
<1>2. PICK h : Partial(h, base, s) /\ Denoted(base, s) = h[Len(s)]
  BY DenotedPartial
<1>3. \A i \in 1..Len(s) :
         /\ i \in 0..Len(s) /\ i # 0 /\ i - 1 \in 0..Len(s)
         /\ h[i - 1] \in Nat /\ s[i] \in Nat
         /\ h[i] = base * h[i - 1] + s[i]
  <2> TAKE i \in 1..Len(s)
  <2> HIDE DEF f
  <2>1. i \in 0..Len(s) /\ i # 0 /\ i - 1 \in 0..Len(s)
    BY <1>1
  <2>2. h[i - 1] \in Nat /\ h[i] = base * h[i - 1] + s[i]
    BY <1>2, <2>1 DEF Partial
  <2>3. s[i] \in Nat
    BY ElementOfSeq
  <2> QED BY <2>1, <2>2, <2>3
<1> DEFINE g == [i \in 0..Len(s) |-> h[i] % m]
<1>4. g[0] = 0
  <2>1. 0 % m = 0
    BY SMT
  <2> QED BY <1>1, <1>2, <2>1 DEF Partial
<1>5. \A i \in 1..Len(s) : g[i] = (base * g[i - 1] + s[i]) % m
  <2> TAKE i \in 1..Len(s)
  <2>1. g[i] = h[i] % m /\ g[i - 1] = h[i - 1] % m
    BY <1>3
  <2>2. (base * h[i - 1] + s[i]) % m = (base * (h[i - 1] % m) + s[i]) % m
    BY <1>3, RemainderStep
  <2> QED BY <1>3, <2>1, <2>2
<1>6. Def(g)
  <2>1. ASSUME NEW i \in 0..Len(s)
        PROVE  g[i] = IF i = 0 THEN 0 ELSE (base * g[i - 1] + s[i]) % m
    <3> HIDE DEF g, f
    <3>1. CASE i = 0
      BY <1>4, <3>1
    <3>2. CASE i # 0
      <4>1. i \in 1..Len(s)
        BY <1>1, <3>2
      <4> QED BY <1>5, <3>2, <4>1
    <3> QED BY <3>1, <3>2
  <2>2. g = [i \in 0..Len(s) |-> g[i]]
    OBVIOUS
  <2> HIDE DEF g
  <2> QED BY <2>1, <2>2
<1>7. Def(f)
  BY <1>6
<1>8. DenotedModulo(m, base, s) = f[Len(s)]
  BY DEF DenotedModulo
<1> HIDE DEF f
<1>9. f[0] = 0 /\ \A i \in 1..Len(s) : f[i] = (base * f[i - 1] + s[i]) % m
  BY <1>1, <1>3, <1>7
<1> HIDE DEF g
<1>10. \A i \in 0..Len(s) : f[i] = g[i]
  <2> DEFINE S == {i \in Nat : f[i] = g[i]}
  <2>1. 0 \in S
    BY <1>4, <1>9
  <2>2. ASSUME NEW i \in 0 .. Len(s) - 1, i \in S PROVE i + 1 \in S
    <3>1. i + 1 \in 1..Len(s) /\ (i + 1) - 1 = i
      BY <1>1
    <3>2. f[i + 1] = (base * f[i] + s[i + 1]) % m
      BY <1>9, <3>1
    <3>3. g[i + 1] = (base * g[i] + s[i + 1]) % m
      BY <1>5, <3>1
    <3> QED BY <2>2, <3>1, <3>2, <3>3
  <2>3. \A i \in 0..Len(s) : i \in S
    <3> HIDE DEF S
    <3> QED BY <1>1, <2>1, <2>2, BoundedInduction
  <2> QED BY <2>3
<1>11. g[Len(s)] = h[Len(s)] % m
  BY <1>1 DEF g
<1> QED BY <1>1, <1>2, <1>8, <1>10, <1>11

------------------------------------------------------------------------------
(* How many digits. *)

(* The powers of ten up to the n-th. *)
Tens == [i \in 1..DECIMAL_BUFFER |-> [v \in Nat |-> 10 * v]]

LEMMA TensExist == \E P : Stepwise(P, DECIMAL_BUFFER, Nat, 1, Tens)
<1>1. DECIMAL_BUFFER \in Nat /\ 1 \in Nat
  BY DEF DECIMAL_BUFFER
<1>2. Tens \in [1..DECIMAL_BUFFER -> [Nat -> Nat]]
  BY DEF Tens
<1> QED BY <1>1, <1>2, StepwiseExists

(* Sixteen limbs have at most eighty digits: a limb is less than 10^5. *)
LEMMA LimbsBelow ==
    ASSUME NEW P, Stepwise(P, DECIMAL_BUFFER, Nat, 1, Tens), NEW n \in Limbed
    PROVE  Denoted(LIMB, n) < P[80]
<1>1. \A i \in 1..100 : i - 1 \in 0..100 /\ P[i - 1] \in Nat /\ P[i] = 10 * P[i - 1]
  <2> TAKE i \in 1..100
  <2>1. i - 1 \in 0..100
    OBVIOUS
  <2>2. P[i - 1] \in Nat
    BY <2>1 DEF Stepwise, DECIMAL_BUFFER
  <2>3. P[i] = Tens[i][P[i - 1]]
    BY DEF Stepwise, DECIMAL_BUFFER
  <2>4. Tens[i][P[i - 1]] = 10 * P[i - 1]
    BY <2>2 DEF Tens, DECIMAL_BUFFER
  <2> QED BY <2>1, <2>2, <2>3, <2>4
<1>2. P[0] = 1
  BY DEF Stepwise
<1>3. LIMBS \in Nat /\ LIMB \in Nat
  BY DEF LIMBS, LIMB
<1>4. n \in Seq(Nat) /\ Len(n) = LIMBS /\ \A i \in 1..LIMBS : n[i] \in Nat /\ n[i] < LIMB
  <2>1. \A i \in 1..LIMBS : n[i] \in 0 .. LIMB - 1
    BY DEF Limbed
  <2>2. \A i \in 1..LIMBS : n[i] \in Nat /\ n[i] < LIMB
    BY <1>3, <2>1
  <2> QED BY <2>2, LimbedIsSeq
<1>5. PICK h : Partial(h, LIMB, n) /\ Denoted(LIMB, n) = h[LIMBS]
  BY <1>3, <1>4, DenotedPartial
<1>6. \A i \in 0..16 : h[i] < P[5 * i]
  <2> DEFINE S == {i \in Nat : h[i] < P[5 * i]}
  <2>1. 0 \in S
    BY <1>2, <1>5 DEF Partial
  <2>2. ASSUME NEW i \in 0 .. 16 - 1, i \in S PROVE i + 1 \in S
    <3>1. i + 1 \in 1..LIMBS /\ (i + 1) - 1 = i /\ i \in 0..LIMBS
      BY DEF LIMBS
    <3>2. h[i + 1] = LIMB * h[i] + n[i + 1] /\ h[i] \in Nat /\ n[i + 1] \in Nat
      BY <1>4, <1>5, <3>1 DEF Partial
    <3>3. /\ 5 * i + 1 \in 1..100 /\ 5 * i + 2 \in 1..100 /\ 5 * i + 3 \in 1..100
          /\ 5 * i + 4 \in 1..100 /\ 5 * i + 5 \in 1..100
          /\ (5 * i + 1) - 1 = 5 * i /\ (5 * i + 2) - 1 = 5 * i + 1
          /\ (5 * i + 3) - 1 = 5 * i + 2 /\ (5 * i + 4) - 1 = 5 * i + 3
          /\ (5 * i + 5) - 1 = 5 * i + 4 /\ 5 * (i + 1) = 5 * i + 5
      OBVIOUS
    <3>4. /\ P[5 * i] \in Nat /\ P[5 * i + 1] = 10 * P[5 * i]
          /\ P[5 * i + 2] = 10 * P[5 * i + 1] /\ P[5 * i + 3] = 10 * P[5 * i + 2]
          /\ P[5 * i + 4] = 10 * P[5 * i + 3] /\ P[5 * i + 5] = 10 * P[5 * i + 4]
      BY <1>1, <3>3
    <3> DEFINE p == P[5 * i]
               x == h[i]
               d == n[i + 1]
    <3>5. P[5 * (i + 1)] = 100000 * p
      BY <3>3, <3>4
    <3>6. p \in Nat /\ x \in Nat /\ d \in Nat /\ d < LIMB /\ x < p
      <4>1. d \in Nat /\ d < LIMB
        BY <1>4, <3>1
      <4> QED BY <2>2, <3>2, <3>4, <4>1
    <3> HIDE DEF p, x, d
    <3>7. 65536 * x + d < 100000 * p
      <4>1. d < 65536
        BY <3>6 DEF LIMB
      <4> QED BY <3>6, <4>1
    <3>8. h[i + 1] = 65536 * x + d
      BY <3>2 DEF x, d, LIMB
    <3> QED BY <3>5, <3>7, <3>8
  <2>3. \A i \in 0..16 : i \in S
    <3>1. 16 \in Nat
      OBVIOUS
    <3> HIDE DEF S
    <3> QED BY <2>1, <2>2, <3>1, BoundedInduction
  <2> QED BY <2>3
<1>7. h[16] < P[80]
  <2>1. 16 \in 0..16 /\ 5 * 16 = 80
    OBVIOUS
  <2> QED BY <1>6, <2>1
<1> QED BY <1>5, <1>7 DEF LIMBS

(* A number below a power of ten has no more digits than zeros that has. *)
LEMMA DigitsBelow ==
    ASSUME NEW P, Stepwise(P, DECIMAL_BUFFER, Nat, 1, Tens),
           NEW k \in 0..DECIMAL_BUFFER, NEW n \in Limbed, Denoted(LIMB, n) < P[k]
    PROVE  Len(decimal[n]) <= k
<1> DEFINE D(l) == Denoted(LIMB, l)
           Below(i) == \A l \in Limbed : D(l) < P[i] => Len(decimal[l]) <= i
           S == {i \in Nat : Below(i)}
<1>1. DECIMAL_BUFFER \in Nat
  BY DEF DECIMAL_BUFFER
<1>2. ASSUME NEW l \in Limbed
      PROVE  /\ D(l) \in Nat
             /\ D(l) = 0 => Len(decimal[l]) = 0
             /\ D(l) # 0 =>
                  \E q \in Limbed, d \in Nat :
                     /\ D(l) = 10 * D(q) + d /\ D(q) \in Nat
                     /\ Len(decimal[l]) = Len(decimal[q]) + 1
                     /\ Len(decimal[q]) \in Nat
  <2> DEFINE q == DivideBy10(l).quotient
             d == DivideBy10(l).digit
  <2>1. /\ D(l) \in Nat /\ D(q) \in Nat
        /\ allzeroes(l) <=> D(l) = 0
        /\ q \in Limbed /\ d \in Digit
        /\ D(l) = 10 * D(q) + d
    BY AtMostLargest, ZeroLimbs, DividesBy10
  <2>2. LastDigitAppended(decimal, l) /\ decimal[q] \in Seq(Digit)
    BY <2>1, decimalUnfolds, decimalRight
  <2>3. decimal[l] = IF D(l) = 0 THEN <<>> ELSE Append(decimal[q], d)
    BY <2>1, <2>2 DEF LastDigitAppended
  <2> HIDE DEF q, d, D
  <2>4. d \in Nat
    BY <2>1 DEF Digit
  <2>5. D(l) = 0 => Len(decimal[l]) = 0
    BY <2>3
  <2>6. D(l) # 0 => Len(decimal[l]) = Len(decimal[q]) + 1
    BY <2>1, <2>2, <2>3
  <2>7. Len(decimal[q]) \in Nat
    BY <2>2
  <2> QED BY <2>1, <2>4, <2>5, <2>6, <2>7
<1>3. \A i \in 0 .. DECIMAL_BUFFER - 1 :
         /\ i + 1 \in 1..DECIMAL_BUFFER /\ (i + 1) - 1 = i
         /\ P[i] \in Nat /\ P[i + 1] = 10 * P[i]
  <2> TAKE i \in 0 .. DECIMAL_BUFFER - 1
  <2>1. i + 1 \in 1..DECIMAL_BUFFER /\ (i + 1) - 1 = i /\ i \in 0..DECIMAL_BUFFER
    BY <1>1
  <2>2. P[i] \in Nat /\ P[i + 1] = Tens[i + 1][P[i]]
    BY <2>1 DEF Stepwise
  <2>3. Tens[i + 1][P[i]] = 10 * P[i]
    BY <2>1, <2>2 DEF Tens
  <2> QED BY <2>1, <2>2, <2>3
<1>4. P[0] = 1
  BY DEF Stepwise
<1> HIDE DEF D
<1>5. 0 \in S
  <2>1. ASSUME NEW l \in Limbed, D(l) < P[0] PROVE Len(decimal[l]) <= 0
    <3>1. D(l) = 0
      BY <1>2, <1>4, <2>1
    <3> QED BY <1>2, <3>1
  <2> QED BY <2>1
<1>6. ASSUME NEW i \in 0 .. DECIMAL_BUFFER - 1, i \in S PROVE i + 1 \in S
  <2>1. ASSUME NEW l \in Limbed, D(l) < P[i + 1] PROVE Len(decimal[l]) <= i + 1
    <3>1. CASE D(l) = 0
      BY <1>2, <3>1
    <3>2. CASE D(l) # 0
      <4>1. PICK q \in Limbed, d \in Nat :
               /\ D(l) = 10 * D(q) + d /\ D(q) \in Nat
               /\ Len(decimal[l]) = Len(decimal[q]) + 1
               /\ Len(decimal[q]) \in Nat
        BY <1>2, <3>2
      <4>2. D(q) < P[i]
        BY <1>3, <2>1, <4>1
      <4>3. Len(decimal[q]) <= i
        BY <1>6, <4>2
      <4> QED BY <4>1, <4>3
    <3> QED BY <3>1, <3>2
  <2>2. i + 1 \in Nat /\ Below(i + 1)
    BY <2>1
  <2> HIDE DEF Below
  <2> QED BY <2>2
<1>7. \A i \in 0..DECIMAL_BUFFER : i \in S
  <2> HIDE DEF S
  <2> QED BY <1>1, <1>5, <1>6, BoundedInduction
<1> QED BY <1>7 DEF D

(* uint256_to_decimal: the buffer of amount_to_string holds the digits of every
   number of at most 256 bits and the NUL that is written behind them, which the
   code asks no room for; no number is refused for its length. *)
THEOREM DecimalFitsBuffer ==
    ASSUME NEW value \in Seq(Byte), Len(value) <= MAX_INT256
    PROVE  LET text == uint256_to_decimal(value, DECIMAL_BUFFER) IN
           text # Failed /\ Len(text) < DECIMAL_BUFFER
<1> DEFINE digits == decimal[Limbs(value)]
<1>1. Limbs(value) \in Limbed
  BY LimbsRight
<1>2. ~(Len(value) > MAX_INT256) /\ DECIMAL_BUFFER = 100
  <2>1. Len(value) \in Nat
    OBVIOUS
  <2> QED BY <2>1 DEF MAX_INT256, DECIMAL_BUFFER
<1>3. CASE allzeroes(Limbs(value))
  <2>1. uint256_to_decimal(value, DECIMAL_BUFFER) = <<0>>
    BY <1>2, <1>3 DEF uint256_to_decimal
  <2> DEFINE zero == <<0>>
  <2>2. zero # <<>> /\ Len(zero) = 1
    OBVIOUS
  <2>3. uint256_to_decimal(value, DECIMAL_BUFFER) = zero
    BY <2>1
  <2> HIDE DEF zero
  <2>4. zero # Failed
    BY <2>2 DEF Failed
  <2>5. Len(zero) < DECIMAL_BUFFER
    BY <1>2, <2>2
  <2> QED BY <2>3, <2>4, <2>5
<1>4. CASE ~allzeroes(Limbs(value))
  <2>1. PICK P : Stepwise(P, DECIMAL_BUFFER, Nat, 1, Tens)
    BY TensExist
  <2>2. Len(digits) <= 80
    <3>1. Denoted(LIMB, Limbs(value)) < P[80] /\ 80 \in 0..DECIMAL_BUFFER
      BY <1>1, <1>2, <2>1, LimbsBelow
    <3> QED BY <1>1, <2>1, <3>1, DigitsBelow
  <2>3. digits \in Seq(Digit) /\ digits # <<>>
    <3>1. digits \in Seq(Digit) /\ LastDigitAppended(decimal, Limbs(value))
      BY <1>1, decimalRight, decimalUnfolds
    <3> DEFINE pass == DivideBy10(Limbs(value))
    <3>2. digits = Append(decimal[pass.quotient], pass.digit)
      BY <1>4, <3>1 DEF LastDigitAppended
    <3>3. decimal[pass.quotient] \in Seq(Digit) /\ pass.digit \in Digit
      BY <1>1, DividesBy10, decimalRight
    <3> HIDE DEF pass, digits
    <3>4. Len(digits) = Len(decimal[pass.quotient]) + 1 /\ Len(decimal[pass.quotient]) \in Nat
      BY <3>2, <3>3
    <3> QED BY <3>1, <3>4
  <2>4. ~(Len(digits) > DECIMAL_BUFFER) /\ Len(digits) < DECIMAL_BUFFER
    <3>1. Len(digits) \in Nat
      <4> HIDE DEF digits
      <4> QED BY <2>3
    <3> HIDE DEF digits
    <3> QED BY <1>2, <2>2, <3>1
  <2>5. uint256_to_decimal(value, DECIMAL_BUFFER) = digits
    BY <1>2, <1>4, <2>4 DEF uint256_to_decimal
  <2> QED BY <2>3, <2>4, <2>5 DEF Failed
<1> QED BY <1>3, <1>4
==============================================================================
