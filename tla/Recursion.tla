----------------------------- MODULE Recursion ------------------------------
(***************************************************************************)
(* What recursive functions compute, for inputs of any length.  The        *)
(* induction theorems of the library take an operator, which the installed *)
(* provers cannot instantiate; here the formula to be proved is a set, the *)
(* step of a recursion is a function, and induction itself comes from the  *)
(* pigeonhole principle of finite sets.                                    *)
(***************************************************************************)
EXTENDS Integers, Sequences, FiniteSetTheorems, TLAPS

(***************************************************************************)
(* Induction: if T had no m, adding one would take the finite set of its   *)
(* elements below m into itself without 0, which is too small for that.    *)
(***************************************************************************)
LEMMA Induction ==
  ASSUME NEW T, 0 \in T, \A n \in Nat : n \in T => n + 1 \in T
  PROVE  \A n \in Nat : n \in T
<1> SUFFICES ASSUME NEW m \in Nat, m \notin T PROVE FALSE
  OBVIOUS
<1> DEFINE A == {n \in 0 .. m : n \in T}
           f == [n \in A |-> n + 1]
<1>1. IsFiniteSet(A) /\ 0 \in A
  <2>1. IsFiniteSet(0 .. m)
    BY FS_Interval
  <2>2. A \in SUBSET (0 .. m)
    OBVIOUS
  <2>3. IsFiniteSet(A)
    <3> HIDE DEF A
    <3> QED
      BY <2>1, <2>2, FS_Subset
  <2> QED
    BY <2>3
<1>2. IsFiniteSet(A \ {0}) /\ Cardinality(A \ {0}) < Cardinality(A)
  <2> HIDE DEF A
  <2>1. Cardinality(A) \in Nat
    BY <1>1, FS_CardinalityType
  <2>2. /\ IsFiniteSet(A \ {0})
        /\ Cardinality(A \ {0}) =
             IF 0 \in A THEN Cardinality(A) - 1 ELSE Cardinality(A)
    BY <1>1, FS_RemoveElement
  <2> QED
    BY <1>1, <2>1, <2>2
<1>3. f \in [A -> A \ {0}]
  <2>1. ASSUME NEW n \in A PROVE n + 1 \in A \ {0}
    BY <2>1
  <2> QED
    BY <2>1
<1>4. PICK x, y \in A : x # y /\ f[x] = f[y]
  <2> HIDE DEF A, f
  <2> QED
    BY <1>1, <1>2, <1>3, FS_PigeonHole
<1>5. x \in Nat /\ y \in Nat /\ x + 1 = y + 1
  BY <1>4
<1> QED
  BY <1>4, <1>5

LEMMA InductionUpTo ==
  ASSUME NEW N \in Nat, NEW T, 0 \in T,
         \A n \in 1 .. N : n - 1 \in T => n \in T
  PROVE  \A n \in 0 .. N : n \in T
<1> DEFINE U == {n \in Nat : n <= N => n \in T}
<1>1. 0 \in U
  OBVIOUS
<1>2. ASSUME NEW n \in Nat, n \in U PROVE n + 1 \in U
  <2>1. CASE n + 1 <= N
    <3>1. n + 1 \in 1 .. N /\ (n + 1) - 1 = n /\ n \in T
      BY <1>2, <2>1
    <3> QED
      BY <3>1
  <2>2. CASE ~ (n + 1 <= N)
    BY <2>2
  <2> QED
    BY <2>1, <2>2
<1>3. \A n \in Nat : n \in U
  <2> HIDE DEF U
  <2> QED
    BY <1>1, <1>2, Induction
<1> QED
  BY <1>3

LEMMA InductionDownFrom ==
  ASSUME NEW N \in Nat, NEW T, N \in T,
         \A n \in 1 .. N : n \in T => n - 1 \in T
  PROVE  \A n \in 0 .. N : n \in T
<1> DEFINE U == {k \in Nat : k <= N => N - k \in T}
<1>1. 0 \in U
  OBVIOUS
<1>2. ASSUME NEW k \in Nat, k \in U PROVE k + 1 \in U
  <2>1. CASE k + 1 <= N
    <3>1. N - k \in 1 .. N /\ (N - k) - 1 = N - (k + 1) /\ N - k \in T
      BY <1>2, <2>1
    <3> QED
      BY <3>1
  <2>2. CASE ~ (k + 1 <= N)
    BY <2>2
  <2> QED
    BY <2>1, <2>2
<1>3. \A k \in Nat : k \in U
  <2> HIDE DEF U
  <2> QED
    BY <1>1, <1>2, Induction
<1>4. ASSUME NEW n \in 0 .. N PROVE n \in T
  <2>1. N - n \in Nat /\ N - n <= N /\ N - (N - n) = n
    OBVIOUS
  <2>2. N - n \in U
    BY <1>3, <2>1
  <2> QED
    BY <2>1, <2>2
<1> QED
  BY <1>4

\* A set of natural numbers has a least element.
LEMMA LeastExists ==
  ASSUME NEW T, T \subseteq Nat, T # {}
  PROVE  \E n \in T : \A m \in T : n <= m
<1> SUFFICES ASSUME \A n \in T : \E m \in T : ~ (n <= m) PROVE FALSE
  OBVIOUS
<1> DEFINE B == {n \in Nat : \A m \in T : n <= m}
<1>1. 0 \in B
  OBVIOUS
<1>2. ASSUME NEW n \in Nat, n \in B PROVE n + 1 \in B
  <2>1. n \notin T
    BY <1>2
  <2> QED
    BY <1>2, <2>1
<1>3. \A n \in Nat : n \in B
  <2> HIDE DEF B
  <2> QED
    BY <1>1, <1>2, Induction
<1>4. PICK n \in T : TRUE
  OBVIOUS
<1> QED
  BY <1>3, <1>4

\* One that is bounded has a greatest.
LEMMA GreatestExists ==
  ASSUME NEW N \in Nat, NEW T, T \subseteq 0 .. N, T # {}
  PROVE  \E n \in T : \A m \in T : m <= n
<1> DEFINE U == {k \in Nat : N - k \in T}
<1>1. \A n \in T : N - n \in U /\ N - (N - n) = n
  OBVIOUS
<1>2. PICK k \in U : \A j \in U : k <= j
  <2>1. U \subseteq Nat /\ U # {}
    BY <1>1
  <2> HIDE DEF U
  <2> QED
    BY <2>1, LeastExists
<1>3. N - k \in T /\ k \in Nat
  OBVIOUS
<1>4. ASSUME NEW m \in T PROVE m <= N - k
  <2>1. k <= N - m /\ m \in Nat
    BY <1>1, <1>2
  <2> QED
    BY <1>3, <2>1
<1> QED
  BY <1>3, <1>4

(***************************************************************************)
(* A recursion from 0 to N with the values in S has a solution.            *)
(***************************************************************************)
StepTable(N, S, base, step) ==
  N \in Nat /\ base \in S /\ step \in [(1 .. N) \X S -> S]

StepsUp(N, base, step, f) ==
  /\ f[0] = base
  /\ \A n \in 1 .. N : f[n] = step[<<n, f[n - 1]>>]

LEMMA RecursionUpTo ==
  ASSUME NEW N, NEW S, NEW base, NEW step, StepTable(N, S, base, step)
  PROVE  \E f \in [0 .. N -> S] : StepsUp(N, base, step, f)
<1> USE DEF StepTable
<1> DEFINE Upto(k, f) == StepsUp(k, base, step, f)
           T == {k \in 0 .. N : \E f \in [0 .. k -> S] : Upto(k, f)}
<1>1. 0 \in T
  <2> DEFINE g == [n \in 0 .. 0 |-> base]
  <2>1. g \in [0 .. 0 -> S]
    OBVIOUS
  <2>2. Upto(0, g)
    BY DEF StepsUp
  <2> HIDE DEF g, Upto
  <2> QED
    BY <2>1, <2>2
<1>2. ASSUME NEW k \in 1 .. N, k - 1 \in T PROVE k \in T
  <2>1. PICK f \in [0 .. k - 1 -> S] : Upto(k - 1, f)
    BY <1>2
  <2> DEFINE v == step[<<k, f[k - 1]>>]
             g == [n \in 0 .. k |-> IF n = k THEN v ELSE f[n]]
  <2>2. k - 1 \in 0 .. k - 1 /\ 0 \in 0 .. k - 1 /\ k # 0
    OBVIOUS
  <2>3. v \in S
    BY <2>2
  <2>4. g \in [0 .. k -> S]
    <3>1. ASSUME NEW n \in 0 .. k, n # k PROVE n \in 0 .. k - 1
      BY <3>1
    <3> HIDE DEF v
    <3> QED
      BY <2>3, <3>1
  <2>5. g[0] = base
    BY <2>1, <2>2 DEF StepsUp
  <2>6. ASSUME NEW n \in 1 .. k PROVE g[n] = step[<<n, g[n - 1]>>]
    <3>1. n - 1 \in 0 .. k - 1 /\ n - 1 # k /\ g[n - 1] = f[n - 1]
      OBVIOUS
    <3>2. CASE n = k
      <4>1. g[n] = v
        BY <3>2
      <4>2. v = step[<<n, g[n - 1]>>]
        BY <3>1, <3>2
      <4> QED
        BY <4>1, <4>2
    <3>3. CASE n # k
      <4>1. n \in 1 .. k - 1 /\ g[n] = f[n]
        BY <3>3
      <4> QED
        BY <2>1, <3>1, <4>1 DEF StepsUp
    <3> QED
      BY <3>2, <3>3
  <2> HIDE DEF g, v
  <2>7. Upto(k, g)
    BY <2>5, <2>6 DEF StepsUp
  <2> HIDE DEF Upto
  <2> QED
    BY <2>4, <2>7
<1>3. \A k \in 0 .. N : k \in T
  <2> HIDE DEF T
  <2> QED
    BY <1>1, <1>2, InductionUpTo
<1> QED
  BY <1>3

(***************************************************************************)
(* The items that are found by going on from one place to a later one, for *)
(* as long as there is more.                                               *)
(***************************************************************************)
JumpTable(N, X, item, more, next) ==
  /\ N \in Nat
  /\ item \in [1 .. N -> X]
  /\ more \subseteq 1 .. N
  /\ next \in [more -> 1 .. N]
  /\ \A p \in more : p < next[p]

Jumps(N, item, more, next, f) ==
  \A p \in 1 .. N :
    f[p] = IF p \in more THEN <<item[p]>> \o f[next[p]] ELSE <<item[p]>>

LEMMA RecursionByJumps ==
  ASSUME NEW N, NEW X, NEW item, NEW more, NEW next,
         JumpTable(N, X, item, more, next)
  PROVE  \E f \in [1 .. N -> Seq(X)] :
           /\ Jumps(N, item, more, next, f)
           /\ \A g : Jumps(N, item, more, next, g) =>
                      \A p \in 1 .. N : g[p] = f[p]
<1> USE DEF JumpTable
<1> DEFINE Here(f, p) == f[p] = IF p \in more THEN <<item[p]>> \o f[next[p]]
                                              ELSE <<item[p]>>
           T == {k \in 0 .. N : \E f \in [k + 1 .. N -> Seq(X)] :
                                  \A p \in k + 1 .. N : Here(f, p)}
<1>1. N \in T
  <2> DEFINE g == [p \in N + 1 .. N |-> <<>>]
  <2>1. g \in [N + 1 .. N -> Seq(X)]
    OBVIOUS
  <2>2. \A p \in N + 1 .. N : Here(g, p)
    OBVIOUS
  <2> HIDE DEF g, Here
  <2> QED
    BY <2>1, <2>2
<1>2. ASSUME NEW k \in 1 .. N, k \in T PROVE k - 1 \in T
  <2>1. PICK f \in [k + 1 .. N -> Seq(X)] : \A p \in k + 1 .. N : Here(f, p)
    BY <1>2
  <2> DEFINE v == IF k \in more THEN <<item[k]>> \o f[next[k]]
                                ELSE <<item[k]>>
             g == [p \in k .. N |-> IF p = k THEN v ELSE f[p]]
  <2>2. \A p \in more : p >= k => next[p] \in k + 1 .. N /\ next[p] # k
    OBVIOUS
  <2>3. v \in Seq(X)
    <3>1. item[k] \in X /\ <<item[k]>> \in Seq(X)
      OBVIOUS
    <3>2. CASE k \in more
      <4>1. f[next[k]] \in Seq(X)
        BY <2>2, <3>2
      <4>2. <<item[k]>> \o f[next[k]] \in Seq(X)
        BY <3>1, <4>1
      <4> QED
        BY <3>2, <4>2
    <3> QED
      BY <3>1, <3>2
  <2>4. g \in [k .. N -> Seq(X)]
    <3>1. ASSUME NEW p \in k .. N, p # k PROVE p \in k + 1 .. N
      BY <3>1
    <3> HIDE DEF v
    <3> QED
      BY <2>3, <3>1
  <2>5. ASSUME NEW p \in k .. N PROVE Here(g, p)
    <3>1. p \in more => g[next[p]] = f[next[p]]
      BY <2>2
    <3>2. CASE p = k
      BY <3>1, <3>2
    <3>3. CASE p # k
      <4>1. p \in k + 1 .. N /\ g[p] = f[p]
        BY <3>3
      <4> QED
        BY <2>1, <3>1, <4>1
    <3> QED
      BY <3>2, <3>3
  <2>6. (k - 1) + 1 = k /\ k - 1 \in 0 .. N
    OBVIOUS
  <2> HIDE DEF g, v, Here
  <2> QED
    BY <2>4, <2>5, <2>6
<1>3. \A k \in 0 .. N : k \in T
  <2> HIDE DEF T
  <2> QED
    BY <1>1, <1>2, InductionDownFrom
<1>4. 0 \in T
  <2> HIDE DEF T
  <2> QED
    BY <1>3
<1>5. 0 + 1 = 1
  OBVIOUS
<1>6. PICK f \in [1 .. N -> Seq(X)] : Jumps(N, item, more, next, f)
  BY <1>4, <1>5 DEF Jumps
<1>7. ASSUME NEW g, Jumps(N, item, more, next, g)
      PROVE  \A p \in 1 .. N : g[p] = f[p]
  <2> DEFINE Same == {k \in 0 .. N : \A p \in k + 1 .. N : g[p] = f[p]}
  <2>1. N \in Same
    OBVIOUS
  <2>2. ASSUME NEW k \in 1 .. N, k \in Same PROVE k - 1 \in Same
    <3>1. k \in more => next[k] \in k + 1 .. N
      OBVIOUS
    <3>2. g[k] = f[k]
      BY <1>6, <1>7, <2>2, <3>1 DEF Jumps
    <3>3. \A p \in (k - 1) + 1 .. N : p = k \/ p \in k + 1 .. N
      OBVIOUS
    <3> QED
      BY <2>2, <3>2, <3>3
  <2>3. \A k \in 0 .. N : k \in Same
    <3> HIDE DEF Same
    <3> QED
      BY <2>1, <2>2, InductionDownFrom
  <2>4. 0 \in Same
    <3> HIDE DEF Same
    <3> QED
      BY <2>3
  <2> QED
    BY <1>5, <2>4
<1> QED
  BY <1>6, <1>7
=============================================================================
