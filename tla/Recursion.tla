----------------------------- MODULE Recursion -----------------------------
(***************************************************************************)
(* Induction on Nat with sets and functions in the place of operators: a   *)
(* set that has 0 and every successor of its members has every number, and *)
(* a first value and a step have a function on Nat that takes them.  The   *)
(* proofs about the loops of the other modules rest on these two.          *)
(***************************************************************************)
EXTENDS Integers, WellFoundedInduction, TLAPS

LEMMA Least ==
  ASSUME NEW T \in SUBSET Nat, T # {}
  PROVE  \E n \in T : \A m \in T : n <= m
<1> DEFINE R == {ss \in Nat \X Nat : ss[1] < ss[2]}
<1>1. IsWellFoundedOn(R, Nat)
  BY Zenon, NatLessThanWellFounded DEF OpToRel
<1>2. \E x \in T : \A y \in T : <<y, x>> \notin R
  BY <1>1, WFMin, Zenon
<1>3. ASSUME NEW x \in Nat, NEW y \in Nat, <<y, x>> \notin R
      PROVE  x <= y
  <2>1. <<y, x>> \in Nat \X Nat /\ <<y, x>>[1] = y /\ <<y, x>>[2] = x
    OBVIOUS
  <2>2. ~(y < x)
    BY <1>3, <2>1, Zenon
  <2> QED  BY <2>2
<1> HIDE DEF R
<1> QED  BY <1>2, <1>3

(* The induction principle. *)
THEOREM SetInduction ==
  ASSUME NEW T, 0 \in T, \A n \in Nat : n \in T => n + 1 \in T
  PROVE  Nat \subseteq T
<1>1. SUFFICES ASSUME Nat \ T # {} PROVE FALSE
      OBVIOUS
<1>2. PICK n \in Nat \ T : \A m \in Nat \ T : n <= m
  BY <1>1, Least
<1>3. n # 0 /\ n - 1 \in Nat
  OBVIOUS
<1>4. n - 1 \in T
  BY <1>2, <1>3
<1> QED  BY <1>2, <1>3, <1>4

(* The sequences of the first n iterates of a step g from a value a. *)
Iterates(S, a, g, n) ==
  {h \in [0..n -> S] : h[0] = a /\ \A i \in 0..(n - 1) : h[i + 1] = g[<<i, h[i]>>]}

LEMMA IteratesExist ==
  ASSUME NEW S, NEW a \in S, NEW g \in [Nat \X S -> S], NEW n \in Nat
  PROVE  Iterates(S, a, g, n) # {}
<1> DEFINE T == {m \in Nat : Iterates(S, a, g, m) # {}}
<1>1. 0 \in T
  <2>1. [i \in 0..0 |-> a] \in Iterates(S, a, g, 0)
    BY DEF Iterates
  <2> QED  BY <2>1
<1>2. ASSUME NEW m \in Nat, m \in T
      PROVE  m + 1 \in T
  <2>1. PICK h : h \in Iterates(S, a, g, m)
    BY <1>2
  <2>2. /\ h \in [0..m -> S] /\ h[0] = a
        /\ \A i \in 0..(m - 1) : h[i + 1] = g[<<i, h[i]>>]
    BY <2>1 DEF Iterates
  <2> DEFINE k == [i \in 0..(m + 1) |-> IF i <= m THEN h[i] ELSE g[<<m, h[m]>>]]
  <2>3. k \in [0..(m + 1) -> S] /\ k[0] = a
    BY <2>2
  <2>4. ASSUME NEW i \in 0..m
        PROVE  k[i + 1] = g[<<i, k[i]>>]
    <3>1. k[i] = h[i]
      OBVIOUS
    <3>2. CASE i = m
      BY <3>1, <3>2
    <3>3. CASE i # m
      <4>1. i \in 0..(m - 1) /\ k[i + 1] = h[i + 1]
        BY <3>3
      <4> QED  BY <2>2, <3>1, <4>1
    <3> QED  BY <3>2, <3>3
  <2> HIDE DEF k
  <2>5. k \in Iterates(S, a, g, m + 1)
    BY <2>3, <2>4 DEF Iterates
  <2> QED  BY <2>5
<1> HIDE DEF T
<1>3. n \in T
  BY <1>1, <1>2, SetInduction
<1> QED  BY <1>3 DEF T

LEMMA IteratesAgree ==
  ASSUME NEW S, NEW a, NEW g, NEW m \in Nat, NEW n \in Nat,
         NEW h \in Iterates(S, a, g, m), NEW k \in Iterates(S, a, g, n),
         NEW i \in Nat, i <= m, i <= n
  PROVE  h[i] = k[i]
<1> DEFINE T == {j \in Nat : j <= m /\ j <= n => h[j] = k[j]}
<1>1. 0 \in T
  BY DEF Iterates
<1>2. ASSUME NEW j \in Nat, j \in T
      PROVE  j + 1 \in T
  <2>1. SUFFICES ASSUME j + 1 <= m, j + 1 <= n PROVE h[j + 1] = k[j + 1]
        OBVIOUS
  <2>2. h[j] = k[j] /\ j \in 0..(m - 1) /\ j \in 0..(n - 1)
    BY <1>2, <2>1
  <2> QED  BY <2>2 DEF Iterates
<1> HIDE DEF T
<1>3. i \in T
  BY <1>1, <1>2, SetInduction
<1> QED  BY <1>3 DEF T

(* A step from a value has the sequence of its iterates: what a loop that
   counts has computed after each of its rounds. *)
StepsOn(S) == [Nat \X S -> S]
Iterations(S, a, g) ==
  {f \in [Nat -> S] : f[0] = a /\ \A n \in Nat : f[n + 1] = g[<<n, f[n]>>]}

THEOREM Iteration ==
  ASSUME NEW S, NEW a \in S, NEW g \in StepsOn(S)
  PROVE  \E f : f \in Iterations(S, a, g)
<1> DEFINE h(n) == CHOOSE k : k \in Iterates(S, a, g, n)
           f == [n \in Nat |-> h(n)[n]]
<1>1. \A n \in Nat : h(n) \in Iterates(S, a, g, n)
  BY IteratesExist DEF StepsOn
<1> HIDE DEF h
<1>2. f \in [Nat -> S] /\ f[0] = a
  BY <1>1 DEF Iterates
<1>3. ASSUME NEW n \in Nat
      PROVE  f[n + 1] = g[<<n, f[n]>>]
  <2>1. h(n + 1) \in Iterates(S, a, g, n + 1) /\ h(n) \in Iterates(S, a, g, n)
    BY <1>1
  <2>2. h(n + 1)[n] = h(n)[n]
    BY <2>1, IteratesAgree
  <2>3. h(n + 1)[n + 1] = g[<<n, h(n + 1)[n]>>]
    BY <2>1 DEF Iterates
  <2> QED  BY <2>2, <2>3
<1> HIDE DEF f
<1> QED  BY <1>2, <1>3 DEF Iterations
=============================================================================
