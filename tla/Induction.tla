----------------------------- MODULE Induction -----------------------------
(***************************************************************************)
(* Induction over the naturals for the proofs of this project, with the    *)
(* set of the numbers that satisfy a claim in place of the claim: a set    *)
(* can be given to a lemma where an operator cannot.  For the same reason  *)
(* the step of a recursion is a function.                                  *)
(***************************************************************************)
EXTENDS Integers, Sequences, FiniteSets, SequenceTheorems, FiniteSetTheorems,
        WellFoundedInduction, TLAPS

(* A set of naturals that is not empty has a least element.                *)
LEMMA LeastElement ==
    ASSUME NEW T \in SUBSET Nat, T # {}
    PROVE  \E x \in T : \A y \in T : x <= y
  <1>1. PICK x \in T : \A y \in T : ~(<<y, x>> \in OpToRel(<, Nat))
    BY WFMin, NatLessThanWellFounded
  <1>2. ASSUME NEW y \in T, ~(x <= y) PROVE FALSE
    <2>1. x \in Nat /\ y \in Nat /\ y < x
      BY <1>2
    <2> QED BY <1>1, <2>1 DEF OpToRel
  <1> QED BY <1>2

(* What holds of 0, and of every successor below a bound, holds up to the  *)
(* bound.                                                                  *)
LEMMA UpToInduction ==
    ASSUME NEW N \in Nat, NEW T, 0 \in T,
           \A n \in 0 .. N - 1 : n \in T => n + 1 \in T
    PROVE  0 .. N \subseteq T
  <1> DEFINE missing == {n \in 0 .. N : n \notin T}
  <1> SUFFICES ASSUME missing # {} PROVE FALSE
    OBVIOUS
  <1>1. missing \in SUBSET Nat
    OBVIOUS
  <1>2. PICK x \in missing : \A y \in missing : x <= y
    BY <1>1, LeastElement
  <1>3. x # 0 /\ x \in 0 .. N /\ x - 1 \in 0 .. N - 1 /\ ~(x <= x - 1)
    BY <1>2
  <1>4. x - 1 \in T
    BY <1>2, <1>3
  <1>5. (x - 1) + 1 \in T
    BY <1>3, <1>4
  <1> QED BY <1>3, <1>5

(* The same with no bound.                                                 *)
LEMMA SetInduction ==
    ASSUME NEW T, 0 \in T, \A n \in Nat : n \in T => n + 1 \in T
    PROVE  Nat \subseteq T
  <1> SUFFICES ASSUME NEW n \in Nat PROVE n \in T
    OBVIOUS
  <1>1. 0 .. n \subseteq T
    BY UpToInduction
  <1> QED BY <1>1

(* A set of numbers from 1 that leaves out none is 1 .. its cardinality.   *)
LEMMA InitialSegment ==
    ASSUME NEW N \in Nat, NEW P \in SUBSET (1 .. N), \A n \in P : \A m \in 1 .. n : m \in P
    PROVE  P = 1 .. Cardinality(P) /\ Cardinality(P) \in 0 .. N
  <1> DEFINE Below(n, k) == P \cap (1 .. n) = 1 .. k
             T == {n \in 0 .. N : \E k \in 0 .. n : Below(n, k)}
  <1>1. 0 \in T
    <2>1. 0 \in 0 .. 0 /\ Below(0, 0)
      OBVIOUS
    <2> QED BY <2>1
  <1>2. ASSUME NEW n \in 0 .. N - 1, n \in T PROVE n + 1 \in T
    <2>1. n \in Nat /\ n + 1 \in 0 .. N
      OBVIOUS
    <2>2. PICK k \in 0 .. n : Below(n, k)
      BY <1>2
    <2>3. CASE n + 1 \in P
      <3>1. \A m \in 1 .. n + 1 : m \in P
        BY <2>3
      <3>2. Below(n + 1, n + 1) /\ n + 1 \in 0 .. n + 1
        BY <2>1, <3>1
      <3> HIDE DEF Below
      <3> QED BY <2>1, <3>2
    <2>4. CASE n + 1 \notin P
      <3>1. Below(n + 1, k) /\ k \in 0 .. n + 1
        BY <2>1, <2>2, <2>4
      <3> HIDE DEF Below
      <3> QED BY <2>1, <3>1
    <2> QED BY <2>3, <2>4
  <1> HIDE DEF T
  <1>3. 0 .. N \subseteq T
    BY <1>1, <1>2, UpToInduction
  <1>4. PICK k \in 0 .. N : P = 1 .. k
    <2>1. N \in T
      BY <1>3
    <2>2. PICK k \in 0 .. N : Below(N, k)
      BY <2>1 DEF T
    <2> QED BY <2>2
  <1>5. k \in Int /\ 1 \in Int
    OBVIOUS
  <1>6. Cardinality(1 .. k) = IF 1 > k THEN 0 ELSE k - 1 + 1
    BY <1>5, FS_Interval
  <1> QED BY <1>4, <1>5, <1>6

-----------------------------------------------------------------------------
(* The elements of a finite set of numbers in ascending order.             *)
Ascends(s, P) ==
    /\ s \in [1 .. Cardinality(P) -> P]
    /\ \A m, n \in 1 .. Cardinality(P) : m < n => s[m] < s[n]

LEMMA AscentExists ==
    ASSUME NEW N \in Nat, NEW P \in SUBSET (0 .. N - 1)
    PROVE  IsFiniteSet(P) /\ Cardinality(P) \in Nat /\ \E s : Ascends(s, P)
  <1> DEFINE Below(n) == {x \in P : x < n}
             T == {n \in 0 .. N : \E s : Ascends(s, Below(n))}
  <1>0. \A x \in P : x \in Int /\ 0 <= x /\ x < N
    OBVIOUS
  <1>1. \A Q \in SUBSET P : IsFiniteSet(Q) /\ Cardinality(Q) \in Nat
    <2>1. 0 \in Int /\ N - 1 \in Int
      OBVIOUS
    <2>2. IsFiniteSet(0 .. N - 1)
      BY <2>1, FS_Interval
    <2>3. \A Q \in SUBSET P : IsFiniteSet(Q)
      BY <2>2, FS_Subset
    <2> QED BY <2>3, FS_CardinalityType
  <1>2. 0 \in T
    <2>1. Cardinality({}) = 0
      BY FS_EmptySet
    <2>2. Below(0) = {}
      <3>1. \A x \in P : ~(x < 0)
        BY <1>0
      <3> QED BY <3>1
    <2>3. Ascends([k \in {} |-> 0], {})
      BY <2>1 DEF Ascends
    <2>4. \E s : Ascends(s, Below(0))
      BY <2>2, <2>3
    <2> HIDE DEF Below
    <2> QED BY <2>4
  <1>3. ASSUME NEW n \in 0 .. N - 1, n \in T PROVE n + 1 \in T
    <2>1. n \in Nat /\ n + 1 \in 0 .. N
      OBVIOUS
    <2>2. PICK s : Ascends(s, Below(n))
      BY <1>3
    <2>3. CASE n \notin P
      <3>0. \A x \in P : x < n + 1 <=> x < n
        BY <1>0, <2>1, <2>3
      <3>1. Below(n + 1) = Below(n)
        BY <3>0
      <3> HIDE DEF Below
      <3> QED BY <2>1, <2>2, <3>1
    <2>4. CASE n \in P
      <3> DEFINE c == Cardinality(Below(n))
                 t == [k \in 1 .. c + 1 |-> IF k = c + 1 THEN n ELSE s[k]]
      <3>0. /\ \A x \in P : x < n + 1 <=> x < n \/ x = n
            /\ ~(n < n)
        BY <1>0, <2>1, <2>4
      <3>1. Below(n + 1) = Below(n) \cup {n} /\ n \notin Below(n)
        BY <2>4, <3>0
      <3>2. IsFiniteSet(Below(n)) /\ c \in Nat
        BY <1>1
      <3>3. Cardinality(Below(n + 1)) = c + 1
        BY <3>1, <3>2, FS_AddElement
      <3>4. /\ s \in [1 .. c -> Below(n)] /\ \A k, l \in 1 .. c : k < l => s[k] < s[l]
            /\ \A x \in Below(n) : x < n
        BY <2>2 DEF Ascends
      <3> HIDE DEF Below, c
      <3>5. \A k \in 1 .. c : t[k] = s[k] /\ t[k] \in Below(n)
        BY <3>2, <3>4
      <3>6. t[c + 1] = n
        BY <3>2
      <3>7. t \in [1 .. c + 1 -> Below(n) \cup {n}]
        BY <3>2, <3>4
      <3>8. ASSUME NEW k \in 1 .. c + 1, NEW l \in 1 .. c + 1, k < l PROVE t[k] < t[l]
        <4>1. k \in 1 .. c
          BY <3>2, <3>8
        <4>2. CASE l = c + 1
          BY <3>4, <3>5, <3>6, <4>1, <4>2
        <4>3. CASE l # c + 1
          <5>1. l \in 1 .. c
            BY <3>2, <4>3
          <5> QED BY <3>4, <3>5, <3>8, <4>1, <5>1
        <4> QED BY <4>2, <4>3
      <3> HIDE DEF t
      <3>9. Ascends(t, Below(n + 1))
        BY <3>1, <3>3, <3>7, <3>8 DEF Ascends
      <3> QED BY <2>1, <3>9 DEF Below
    <2> QED BY <2>3, <2>4
  <1> HIDE DEF T
  <1>4. 0 .. N \subseteq T
    BY <1>2, <1>3, UpToInduction
  <1>5. \E s : Ascends(s, Below(N))
    BY <1>4 DEF T
  <1>6. Below(N) = P
    BY <1>0
  <1> QED BY <1>1, <1>5, <1>6

(* Such a list has every element.                                          *)
LEMMA AscentComplete ==
    ASSUME NEW P \in SUBSET Int, IsFiniteSet(P), Cardinality(P) \in Nat, NEW s, Ascends(s, P), NEW x \in P
    PROVE  \E n \in 1 .. Cardinality(P) : s[n] = x
  <1> DEFINE c == Cardinality(P)
  <1>1. s \in [1 .. c -> P] /\ \A m, n \in 1 .. c : m < n => s[m] < s[n]
    BY DEF Ascends
  <1>2. \A m, n \in 1 .. c : s[m] = s[n] => m = n
    <2> SUFFICES ASSUME NEW m \in 1 .. c, NEW n \in 1 .. c, s[m] = s[n] PROVE m = n
      OBVIOUS
    <2>1. s[m] \in Int /\ s[n] \in Int
      BY <1>1
    <2> HIDE DEF c
    <2> QED BY <1>1, <2>1
  <1>3. s \in Injection(1 .. c, P)
    BY <1>1, <1>2 DEF Injection, IsInjective
  <1>4. IsFiniteSet(1 .. c) /\ Cardinality(1 .. c) = c
    <2>1. 1 \in Int /\ c \in Int
      OBVIOUS
    <2>2. IsFiniteSet(1 .. c) /\ Cardinality(1 .. c) = IF 1 > c THEN 0 ELSE c - 1 + 1
      BY <2>1, FS_Interval
    <2> QED BY <2>2
  <1>5. s \in Surjection(1 .. c, P)
    BY <1>3, <1>4, FS_Injection
  <1> QED BY <1>5 DEF Surjection

-----------------------------------------------------------------------------
(* u has its values in S, begins with base, and goes on with step.         *)
Recurs(u, N, S, base, step) ==
    /\ u \in [0 .. N -> S]
    /\ u[0] = base /\ \A n \in 1 .. N : u[n] = step[n][u[n - 1]]

(* A recursion over 1 .. N whose step is a function has a solution.        *)
LEMMA RecursionSolved ==
    ASSUME NEW N \in Nat, NEW S, NEW base \in S, NEW step \in [1 .. N -> [S -> S]]
    PROVE  \E u : Recurs(u, N, S, base, step)
  <1> DEFINE Solves(u, m) == u[0] = base /\ \A n \in 1 .. m : u[n] = step[n][u[n - 1]]
             Solved == {m \in 0 .. N : \E u \in [0 .. m -> S] : Solves(u, m)}
  <1>1. 0 \in Solved
    <2> DEFINE u == [n \in 0 .. 0 |-> base]
    <2>1. u \in [0 .. 0 -> S] /\ u[0] = base
      OBVIOUS
    <2> HIDE DEF u
    <2>2. Solves(u, 0)
      BY <2>1
    <2>3. \E w \in [0 .. 0 -> S] : Solves(w, 0)
      BY <2>1, <2>2
    <2> HIDE DEF Solves
    <2> QED BY <2>3
  <1>2. ASSUME NEW m \in 0 .. N - 1, m \in Solved PROVE m + 1 \in Solved
    <2>1. PICK u \in [0 .. m -> S] : Solves(u, m)
      BY <1>2
    <2> DEFINE v == [n \in 0 .. m + 1 |-> IF n = m + 1 THEN step[n][u[m]] ELSE u[n]]
    <2>2. m \in Nat /\ m + 1 \in 1 .. N /\ m \in 0 .. m
      OBVIOUS
    <2>3. \A n \in 0 .. m : v[n] = u[n] /\ v[n] \in S
      BY <2>2
    <2>4. v[m + 1] = step[m + 1][v[m]] /\ v[m + 1] \in S
      BY <2>2, <2>3
    <2>5. v \in [0 .. m + 1 -> S]
      BY <2>2, <2>3, <2>4
    <2>6. Solves(v, m + 1)
      <3>1. v[0] = base
        BY <2>1, <2>2, <2>3
      <3>2. ASSUME NEW n \in 1 .. m + 1 PROVE v[n] = step[n][v[n - 1]]
        <4>1. CASE n = m + 1
          BY <2>2, <2>4, <4>1
        <4>2. CASE n # m + 1
          <5>1. n \in 1 .. m /\ n \in 0 .. m /\ n - 1 \in 0 .. m
            BY <2>2, <4>2
          <5>2. v[n] = u[n] /\ v[n - 1] = u[n - 1] /\ u[n] = step[n][u[n - 1]]
            BY <2>1, <2>3, <5>1
          <5> QED BY <5>2
        <4> QED BY <4>1, <4>2
      <3> HIDE DEF v
      <3> QED BY <3>1, <3>2
    <2> HIDE DEF v, Solves
    <2> QED BY <2>2, <2>5, <2>6
  <1>3. N \in Solved
    <2> HIDE DEF Solved
    <2>1. 0 .. N \subseteq Solved
      BY <1>1, <1>2, UpToInduction
    <2> QED BY <2>1
  <1> QED BY <1>3 DEF Recurs

-----------------------------------------------------------------------------
(* A list written out element by element is a sequence.                    *)
LEMMA WrittenOut ==
    ASSUME NEW n \in Nat, NEW S, NEW f \in [1 .. n -> S]
    PROVE  f \in Seq(S) /\ Len(f) = n
  <1>1. f \in Seq(S)
    BY SeqDef
  <1>2. DOMAIN f = 1 .. Len(f) /\ Len(f) \in Nat
    BY <1>1, LenProperties
  <1>3. 1 .. n = 1 .. Len(f)
    BY <1>2
  <1> QED BY <1>1, <1>2, <1>3
=============================================================================
