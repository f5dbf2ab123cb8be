--------------------------- MODULE RecursionLemmas ---------------------------
(***************************************************************************)
(* Induction over the natural numbers, for sets, and what it says of a     *)
(* function that is defined by recursion along a sequence: it exists, has  *)
(* its type, is the only one, and may be computed piece by piece.  The     *)
(* loops over bytes, lines and retransmissions are modelled by such        *)
(* functions.                                                              *)
(***************************************************************************)
EXTENDS Integers, WellFoundedInduction, TLAPS

(* Every set of numbers has a least one.                                   *)
LEMMA Least ==
    ASSUME NEW T, T \subseteq Nat, T # {}
    PROVE  \E x \in T : \A y \in T : x <= y
  <1>1. PICK x \in T : \A y \in T : ~(<<y, x>> \in OpToRel(<, Nat))
    BY NatLessThanWellFounded, WFMin
  <1>2. ASSUME NEW y \in T PROVE x <= y
    <2>1. x \in Nat /\ y \in Nat
      OBVIOUS
    <2>2. ~(y < x)
      BY <1>1, <2>1, Zenon DEF OpToRel
    <2> QED
      BY <2>1, <2>2
  <1> QED
    BY <1>2

(* A set that has 0, and with every number the next, has them all: a least *)
(* one that it has not would have a predecessor in it.                     *)
LEMMA Induction ==
    ASSUME NEW S, 0 \in S, \A n \in Nat : n \in S => n + 1 \in S
    PROVE  Nat \subseteq S
  <1> DEFINE T == Nat \ S
  <1>1. ASSUME T # {} PROVE FALSE
    <2>1. T \subseteq Nat
      OBVIOUS
    <2> HIDE DEF T
    <2>2. PICK x \in T : \A y \in T : x <= y
      BY <1>1, <2>1, Least
    <2>3. x \in Nat /\ x # 0
      BY DEF T
    <2>4. x - 1 \in Nat /\ ~(x <= x - 1) /\ (x - 1) + 1 = x
      BY <2>3
    <2>5. x - 1 \in S
      BY <2>2, <2>4 DEF T
    <2>6. x \in S
      BY <2>4, <2>5
    <2> QED
      BY <2>6 DEF T
  <1> QED
    BY <1>1

(* The same up to a bound.                                                 *)
LEMMA BoundedInduction ==
    ASSUME NEW m \in Nat, NEW S, 0 \in S,
           \A k \in 1 .. m : k - 1 \in S => k \in S
    PROVE  0 .. m \subseteq S
  <1> DEFINE R == {n \in Nat : n <= m => n \in S}
  <1>1. 0 \in R
    OBVIOUS
  <1>2. ASSUME NEW n \in Nat, n \in R PROVE n + 1 \in R
    <2>1. CASE n + 1 <= m
      <3>1. n \in S /\ n + 1 \in 1 .. m /\ (n + 1) - 1 = n
        BY <1>2, <2>1
      <3>2. n + 1 \in S
        BY <3>1
      <3> QED
        BY <3>2
    <2>2. CASE ~(n + 1 <= m)
      BY <2>2
    <2> QED
      BY <2>1, <2>2
  <1>3. Nat \subseteq R
    <2> HIDE DEF R
    <2> QED
      BY <1>1, <1>2, Induction
  <1> QED
    BY <1>3
----------------------------------------------------------------------------
(* f is what T makes of a, step by step, up to step m.                     *)
IsRun(f, a, T, m) == f = [k \in 0 .. m |-> IF k = 0 THEN a ELSE T[<<f[k - 1], k>>]]

LEMMA RunExists ==
    ASSUME NEW A, NEW m \in Nat, NEW a \in A, NEW T \in [A \X (1 .. m) -> A]
    PROVE  \E f \in [0 .. m -> A] : IsRun(f, a, T, m)
  <1> DEFINE S == {n \in 0 .. m : \E f \in [0 .. n -> A] : IsRun(f, a, T, n)}
  <1>1. 0 \in S
    <2> DEFINE f == [k \in 0 .. 0 |-> a]
    <2>1. f \in [0 .. 0 -> A] /\ IsRun(f, a, T, 0)
      BY DEF IsRun
    <2> QED
      BY <2>1
  <1>2. ASSUME NEW n \in 1 .. m, n - 1 \in S PROVE n \in S
    <2>1. PICK f \in [0 .. n - 1 -> A] : IsRun(f, a, T, n - 1)
      BY <1>2
    <2> DEFINE x == T[<<f[n - 1], n>>]
               g == [k \in 0 .. n |-> IF k = n THEN x ELSE f[k]]
    <2>2. n - 1 \in 0 .. n - 1 /\ x \in A
      <3>1. n - 1 \in 0 .. n - 1
        OBVIOUS
      <3>2. <<f[n - 1], n>> \in A \X (1 .. m)
        BY <3>1
      <3> QED
        BY <3>1, <3>2
    <2> HIDE DEF x
    <2>3. g \in [0 .. n -> A]
      BY <2>2
    <2>4. ASSUME NEW k \in 0 .. n
          PROVE  g[k] = IF k = 0 THEN a ELSE T[<<g[k - 1], k>>]
      <3>1. CASE k = n
        <4>1. g[k] = x /\ k # 0 /\ g[k - 1] = f[n - 1]
          BY <3>1
        <4> QED
          BY <3>1, <4>1 DEF x
      <3>2. CASE k # n
        <4>1. k \in 0 .. n - 1 /\ g[k] = f[k] /\ (k # 0 => g[k - 1] = f[k - 1])
          BY <3>2
        <4>2. f[k] = IF k = 0 THEN a ELSE T[<<f[k - 1], k>>]
          BY <2>1, <4>1 DEF IsRun
        <4> QED
          BY <4>1, <4>2
      <3> QED
        BY <3>1, <3>2
    <2> HIDE DEF g
    <2>5. IsRun(g, a, T, n)
      BY <2>3, <2>4 DEF IsRun
    <2> QED
      BY <2>3, <2>5
  <1> HIDE DEF S
  <1>3. 0 .. m \subseteq S
    BY <1>1, <1>2, BoundedInduction
  <1> QED
    BY <1>3 DEF S

(* What starts in A and never leaves it by a step is in A.                 *)
LEMMA StaysIn ==
    ASSUME NEW m \in Nat, NEW A, NEW f, f[0] \in A,
           \A k \in 1 .. m : f[k - 1] \in A => f[k] \in A
    PROVE  \A k \in 0 .. m : f[k] \in A
  <1> DEFINE S == {k \in 0 .. m : f[k] \in A}
  <1>1. 0 \in S
    OBVIOUS
  <1>2. ASSUME NEW k \in 1 .. m, k - 1 \in S PROVE k \in S
    BY <1>2
  <1> HIDE DEF S
  <1>3. 0 .. m \subseteq S
    BY <1>1, <1>2, BoundedInduction
  <1> QED
    BY <1>3 DEF S

(* What starts alike and goes on alike is alike.                           *)
LEMMA Agree ==
    ASSUME NEW m \in Nat, NEW f, NEW g, f[0] = g[0],
           \A k \in 1 .. m : f[k - 1] = g[k - 1] => f[k] = g[k]
    PROVE  \A k \in 0 .. m : f[k] = g[k]
  <1> DEFINE S == {k \in 0 .. m : f[k] = g[k]}
  <1>1. 0 \in S
    OBVIOUS
  <1>2. ASSUME NEW k \in 1 .. m, k - 1 \in S PROVE k \in S
    BY <1>2
  <1> HIDE DEF S
  <1>3. 0 .. m \subseteq S
    BY <1>1, <1>2, BoundedInduction
  <1> QED
    BY <1>3 DEF S
=============================================================================
