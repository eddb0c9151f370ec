------------------------------ MODULE Induction ------------------------------
(***************************************************************************)
(* Induction over the natural numbers, stated with the set of the numbers  *)
(* for which something holds, so that no operator has to be instantiated.  *)
(***************************************************************************)
EXTENDS Naturals, WellFoundedInduction, TLAPS

(* What holds of 0, and of n + 1 whenever it holds of n, holds of all. *)
LEMMA SetInduction ==
    ASSUME NEW S, 0 \in S, \A n \in Nat : n \in S => n + 1 \in S
    PROVE  \A n \in Nat : n \in S
<1> DEFINE R == OpToRel(<, Nat)
           T == {n \in Nat : n \notin S}
<1>1. IsWellFoundedOn(R, Nat)
  BY NatLessThanWellFounded
<1>2. \A x, y \in Nat : x < y => <<x, y>> \in R
  BY DEF OpToRel
<1>3. T \subseteq Nat /\ \A n \in Nat : n \in T <=> n \notin S
  OBVIOUS
<1> HIDE DEF R, T
<1>4. SUFFICES ASSUME T # {} PROVE FALSE
  BY <1>3
<1>5. \E x \in T : \A y \in T : ~(<<y, x>> \in R)
  BY <1>1, <1>3, <1>4, WFMin
<1>6. PICK x \in T : \A y \in T : ~(y < x)
  BY <1>2, <1>3, <1>5
<1>7. x \in Nat /\ x # 0
  BY <1>3, <1>6
<1>8. x - 1 \in Nat /\ x - 1 < x /\ (x - 1) + 1 = x
  BY <1>7
<1>9. x - 1 \in S
  BY <1>3, <1>6, <1>8
<1> QED BY <1>3, <1>6, <1>8, <1>9

(* The same up to a bound. *)
LEMMA BoundedInduction ==
    ASSUME NEW m \in Nat, NEW S, 0 \in S,
           \A n \in 0 .. m - 1 : n \in S => n + 1 \in S
    PROVE  \A n \in 0..m : n \in S
<1> DEFINE T == {n \in Nat : n <= m => n \in S}
<1>1. 0 \in T
  OBVIOUS
<1>2. ASSUME NEW n \in Nat, n \in T PROVE n + 1 \in T
  <2>1. n + 1 <= m => n \in 0 .. m - 1 /\ n \in S
    BY <1>2
  <2> QED BY <2>1
<1>3. \A n \in Nat : n \in T
  <2> HIDE DEF T
  <2> QED BY <1>1, <1>2, SetInduction
<1> QED BY <1>3

(* What is built from the start one step after the other exists. *)
Stepwise(f, m, X, x, step) ==
    f \in [0..m -> X] /\ f[0] = x /\ \A i \in 1..m : f[i] = step[i][f[i - 1]]

LEMMA StepwiseExists ==
    ASSUME NEW m \in Nat, NEW X, NEW x \in X, NEW step \in [1..m -> [X -> X]]
    PROVE  \E f : Stepwise(f, m, X, x, step)
<1> DEFINE S == {n \in Nat : \E f : Stepwise(f, n, X, x, step)}
<1>1. 0 \in S
  <2> DEFINE f == [i \in 0..0 |-> x]
  <2>1. Stepwise(f, 0, X, x, step)
    BY DEF Stepwise
  <2> HIDE DEF f
  <2> QED BY <2>1
<1>2. ASSUME NEW n \in 0 .. m - 1, n \in S PROVE n + 1 \in S
  <2>1. PICK f : Stepwise(f, n, X, x, step)
    BY <1>2
  <2> DEFINE new == step[n + 1][f[n]]
             g == [i \in 0 .. n + 1 |-> IF i <= n THEN f[i] ELSE new]
  <2>2. n \in 0..n /\ n + 1 \in 1..m /\ f \in [0..n -> X]
    BY <2>1 DEF Stepwise
  <2>3. new \in X
    BY <2>2
  <2>4. ASSUME NEW i \in 1 .. n + 1 PROVE g[i] = step[i][g[i - 1]]
    <3>1. CASE i = n + 1
      BY <3>1
    <3>2. CASE i # n + 1
      <4>1. i \in 1..n /\ i - 1 \in 0..n /\ g[i] = f[i] /\ g[i - 1] = f[i - 1]
        BY <3>2
      <4> QED BY <2>1, <4>1 DEF Stepwise
    <3> QED BY <3>1, <3>2
  <2>5. g \in [0 .. n + 1 -> X] /\ g[0] = x
    <3> HIDE DEF new
    <3> QED BY <2>1, <2>2, <2>3 DEF Stepwise
  <2>6. Stepwise(g, n + 1, X, x, step)
    BY <2>4, <2>5, Zenon DEF Stepwise
  <2>7. n + 1 \in Nat
    OBVIOUS
  <2> HIDE DEF g
  <2> QED BY <2>6, <2>7
<1>3. \A n \in 0..m : n \in S
  <2> HIDE DEF S
  <2> QED BY <1>1, <1>2, BoundedInduction
<1>4. m \in S
  <2> HIDE DEF S
  <2> QED BY <1>3
<1> QED BY <1>4
==============================================================================
