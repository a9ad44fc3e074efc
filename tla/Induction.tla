------------------------------- MODULE Induction -------------------------------
(***************************************************************************)
(* Induction over the natural numbers, stated with sets: what is to be     *)
(* proved of n is that n is in S; and functions defined by recursion.      *)
(***************************************************************************)
EXTENDS Integers, WellFoundedInduction, TLAPS

\* What holds of 0, and of n + 1 if it holds of n, holds of all numbers.
LEMMA SetInduction ==
  ASSUME NEW S, 0 \in S, \A n \in Nat : n \in S => n + 1 \in S
  PROVE  Nat \subseteq S
<1> DEFINE T == Nat \ S
<1> SUFFICES ASSUME T # {} PROVE FALSE
  OBVIOUS
<1>1. PICK x \in T : \A y \in T : <<y, x>> \notin OpToRel(<, Nat)
  <2>1. T \subseteq Nat
    OBVIOUS
  <2> HIDE DEF T
  <2> QED  BY <2>1, WFMin, NatLessThanWellFounded
<1>2. x # 0 /\ x \in Nat /\ x \notin S
  OBVIOUS
<1>3. x - 1 \in Nat /\ x - 1 < x /\ x - 1 + 1 = x
  BY <1>2
<1>4. x - 1 \in T
  BY <1>2, <1>3
<1>5. <<x - 1, x>> \in OpToRel(<, Nat)
  BY <1>2, <1>3 DEF OpToRel
<1> QED  BY <1>1, <1>4, <1>5

\* Among numbers there is a least one.
LEMMA LeastNumber ==
  ASSUME NEW S, S \subseteq Nat, S # {}
  PROVE  \E n \in S : \A m \in S : n <= m
<1>1. PICK n \in S : \A m \in S : <<m, n>> \notin OpToRel(<, Nat)
  BY WFMin, NatLessThanWellFounded
<1>2. ASSUME NEW m \in S PROVE n <= m
  <2>1. m \in Nat /\ n \in Nat
    OBVIOUS
  <2>2. ~(m < n)
    BY <1>1, <2>1 DEF OpToRel
  <2> QED  BY <2>1, <2>2
<1> QED  BY <1>2

\* f is defined by its value for the number before.
Repeats(f, n, e, G) == f = [i \in 0..n |-> IF i = 0 THEN e ELSE G[<<i, f[i - 1]>>]]

\* Such a function exists.
LEMMA PrimitiveRecursion ==
  ASSUME NEW X, NEW e \in X, NEW G \in [Nat \X X -> X], NEW n \in Nat
  PROVE  \E f \in [0..n -> X] : Repeats(f, n, e, G)
<1> USE DEF Repeats
<1> DEFINE Def(f, m) == \A i \in 0..m : f[i] = IF i = 0 THEN e ELSE G[<<i, f[i - 1]>>]
           S == {m \in Nat : \E f \in [Nat -> X] : Def(f, m)}
<1>1. 0 \in S
  <2> DEFINE f == [i \in Nat |-> e]
  <2>1. f \in [Nat -> X] /\ Def(f, 0)
    OBVIOUS
  <2> QED  BY <2>1
<1>2. ASSUME NEW m \in Nat, m \in S PROVE m + 1 \in S
  <2>1. PICK f \in [Nat -> X] : Def(f, m)
    BY <1>2
  <2> DEFINE g == [i \in Nat |-> IF i = m + 1 THEN G[<<m + 1, f[m]>>] ELSE f[i]]
  <2>2. G[<<m + 1, f[m]>>] \in X
    OBVIOUS
  <2>3. g \in [Nat -> X] /\ g[m + 1] = G[<<m + 1, f[m]>>] /\ \A i \in 0..m : g[i] = f[i]
    BY <2>2
  <2> HIDE DEF g
  <2>4. ASSUME NEW i \in 0..m+1 PROVE g[i] = IF i = 0 THEN e ELSE G[<<i, g[i - 1]>>]
    <3>1. CASE i = m + 1
      <4>1. i - 1 = m /\ i # 0 /\ m \in 0..m
        BY <3>1
      <4> QED  BY <2>3, <3>1, <4>1
    <3>2. CASE i # m + 1
      <4>1. i \in 0..m /\ (i # 0 => i - 1 \in 0..m)
        BY <3>2
      <4> QED  BY <2>1, <2>3, <4>1
    <3> QED  BY <3>1, <3>2
  <2> QED  BY <2>3, <2>4
<1>3. Nat \subseteq S
  <2> HIDE DEF S
  <2> QED  BY <1>1, <1>2, SetInduction
<1>4. PICK f \in [Nat -> X] : Def(f, n)
  BY <1>3
<1> DEFINE h == [i \in 0..n |-> f[i]]
<1>5. h \in [0..n -> X] /\ h = [i \in 0..n |-> h[i]] /\ \A i \in 0..n : h[i] = f[i]
  OBVIOUS
<1> HIDE DEF h
<1>6. ASSUME NEW i \in 0..n PROVE h[i] = IF i = 0 THEN e ELSE G[<<i, h[i - 1]>>]
  <2>1. i # 0 => i - 1 \in 0..n
    OBVIOUS
  <2> QED  BY <1>4, <1>5, <2>1
<1> QED  BY <1>5, <1>6

\* From below N next leads upwards.
GoesUp(next, N) == \A p \in 0..N-1 : next[p] \in Nat /\ next[p] > p

\* f is defined by its value for the next number, up to N.
Recurs(f, N, e, G, next) == \A p \in Nat : f[p] = IF p >= N THEN e ELSE G[<<p, f[next[p]]>>]

\* Such a function exists, too.
LEMMA UpwardRecursion ==
  ASSUME NEW X, NEW e \in X, NEW G \in [Nat \X X -> X], NEW N \in Nat,
         NEW next, GoesUp(next, N)
  PROVE  \E f \in [Nat -> X] : Recurs(f, N, e, G, next)
<1> USE DEF GoesUp, Recurs
<1> DEFINE Val(f, p) == IF p >= N THEN e ELSE G[<<p, f[next[p]]>>]
           S == {m \in Nat : \E f \in [Nat -> X] : \A p \in Nat : p + m >= N => f[p] = Val(f, p)}
<1>1. 0 \in S
  <2> DEFINE f == [i \in Nat |-> e]
  <2>1. f \in [Nat -> X] /\ \A p \in Nat : p + 0 >= N => f[p] = Val(f, p)
    OBVIOUS
  <2> QED  BY <2>1
<1>2. ASSUME NEW m \in Nat, m \in S PROVE m + 1 \in S
  <2>1. PICK f \in [Nat -> X] : \A p \in Nat : p + m >= N => f[p] = Val(f, p)
    BY <1>2
  <2>2. CASE m + 1 > N
    <3>1. \A p \in Nat : p + m + 1 >= N => p + m >= N
      BY <2>2
    <3> QED  BY <2>1, <3>1
  <2>3. CASE ~(m + 1 > N)
    <3>1. PICK q \in 0..N-1 : q + m + 1 = N
      <4>1. N - m - 1 \in 0..N-1 /\ N - m - 1 + m + 1 = N
        BY <2>3
      <4> QED  BY <4>1
    <3>2. next[q] \in Nat /\ next[q] > q
      OBVIOUS
    <3> DEFINE v == G[<<q, f[next[q]]>>]
               g == [f EXCEPT ![q] = v]
    <3>3. v \in X
      BY <3>2
    <3>4. g \in [Nat -> X] /\ g[q] = v /\ \A p \in Nat : p # q => g[p] = f[p]
      <4> HIDE DEF v
      <4> QED  BY <3>3
    <3> HIDE DEF g
    <3>5. ASSUME NEW p \in Nat, p + (m + 1) >= N PROVE g[p] = Val(g, p)
      <4>1. CASE p = q
        <5>1. next[q] # q /\ ~(q >= N)
          BY <3>2
        <5> QED  BY <3>2, <3>4, <4>1, <5>1
      <4>2. CASE p # q
        <5>1. p + m >= N /\ (p < N => next[p] \in Nat /\ next[p] > p /\ next[p] # q)
          BY <3>1, <3>5, <4>2
        <5>2. g[p] = f[p] /\ f[p] = Val(f, p)
          BY <2>1, <3>4, <4>2, <5>1
        <5>3. p < N => g[next[p]] = f[next[p]]
          BY <3>4, <5>1
        <5> QED  BY <5>2, <5>3
      <4> QED  BY <4>1, <4>2
    <3> QED  BY <3>4, <3>5
  <2> QED  BY <2>2, <2>3
<1>3. Nat \subseteq S
  <2> HIDE DEF S
  <2> QED  BY <1>1, <1>2, SetInduction
<1>4. PICK f \in [Nat -> X] : \A p \in Nat : p + N >= N => f[p] = Val(f, p)
  BY <1>3
<1>5. \A p \in Nat : p + N >= N
  OBVIOUS
<1> QED  BY <1>4, <1>5
================================================================================
