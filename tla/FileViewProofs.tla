--------------------------- MODULE FileViewProofs ---------------------------
(***************************************************************************)
(* Views of a file implement the steps of RestartSteps, for files of any   *)
(* length, any names and any values; a keyword that is asked for by date   *)
(* is of that date, when the steps of the file are alike; and the time     *)
(* lines of wells that are loaded through such views are what the blocks   *)
(* of the files list.                                                      *)
(*                                                                         *)
(* The argument: the index of a view lists, for each name, where it is in  *)
(* the view, in order (ListsPlaces), so that the n-th entry is the place   *)
(* that has n such places before it.  The cursor of find_block is at the   *)
(* first header that is not before the block, because it was for the       *)
(* blocks before; a block ends where the next one begins.                  *)
(*                                                                         *)
(* For the wells: a file is cut into its steps (Cuts), the SEQNUMs of a    *)
(* unified file are the first keywords of the steps, so that the n-th      *)
(* block view has the keywords of the n-th step and gives the data of its  *)
(* global part (Reads); each well of a step that is read adds one state to *)
(* the time lines (Says), and so does, by induction over the wells and the *)
(* steps, each entry of a file.                                            *)
(***************************************************************************)
EXTENDS WellInfo, Induction, FiniteSetTheorems

(* The positions in a list, from 1, of the keywords of a name.             *)
NamedIn(kws, list, name) == {n \in DOMAIN list : kws[list[n]].name = name}

(* p has the places P, counted from 0, in order.                           *)
ListsPlaces(p, P) ==
    /\ p \in Seq(Nat)
    /\ \A i \in DOMAIN p : p[i] + 1 \in P
    /\ \A n \in P : \E i \in DOMAIN p : p[i] + 1 = n
    /\ \A i, j \in DOMAIN p : i < j => p[i] < p[j]

-----------------------------------------------------------------------------
(* The index.                                                              *)

LEMMA PlaceAdded ==
    ASSUME NEW n \in Nat, NEW P \in SUBSET (1 .. n), NEW p, ListsPlaces(p, P)
    PROVE  ListsPlaces(Append(p, n), P \cup {n + 1})
  <1> DEFINE q == Append(p, n)
             N == Len(p)
  <1>1. /\ p \in Seq(Nat) /\ N \in Nat /\ DOMAIN p = 1 .. N
        /\ q \in Seq(Nat) /\ DOMAIN q = 1 .. N + 1 /\ q[N + 1] = n
        /\ \A i \in 1 .. N : q[i] = p[i] /\ p[i] \in Nat
    <2>1. p \in Seq(Nat)
      BY DEF ListsPlaces
    <2> QED BY <2>1, AppendProperties, LenProperties, ElementOfSeq
  <1> HIDE DEF q, N
  <1>2. \A i \in 1 .. N : p[i] + 1 \in P /\ p[i] \in Nat /\ p[i] < n
    <2> SUFFICES ASSUME NEW i \in 1 .. N PROVE p[i] + 1 \in P /\ p[i] \in Nat /\ p[i] < n
      OBVIOUS
    <2>1. p[i] + 1 \in P /\ p[i] \in Nat
      BY <1>1 DEF ListsPlaces
    <2>2. p[i] + 1 \in 1 .. n
      BY <2>1
    <2> QED BY <2>1, <2>2
  <1>3. \A i \in DOMAIN q : q[i] + 1 \in P \cup {n + 1}
    <2> SUFFICES ASSUME NEW i \in 1 .. N + 1 PROVE q[i] + 1 \in P \cup {n + 1}
      BY <1>1
    <2>1. CASE i = N + 1
      BY <1>1, <2>1
    <2>2. CASE i \in 1 .. N
      BY <1>1, <1>2, <2>2
    <2> QED BY <1>1, <2>1, <2>2
  <1>4. \A m \in P \cup {n + 1} : \E i \in DOMAIN q : q[i] + 1 = m
    <2> SUFFICES ASSUME NEW m \in P \cup {n + 1} PROVE \E i \in DOMAIN q : q[i] + 1 = m
      OBVIOUS
    <2>1. CASE m = n + 1
      <3>1. N + 1 \in DOMAIN q /\ q[N + 1] + 1 = m
        BY <1>1, <2>1
      <3> QED BY <3>1
    <2>2. CASE m \in P
      <3>1. PICK i \in DOMAIN p : p[i] + 1 = m
        BY <2>2 DEF ListsPlaces
      <3>2. i \in DOMAIN q /\ q[i] + 1 = m
        BY <1>1, <3>1
      <3> QED BY <3>2
    <2> QED BY <2>1, <2>2
  <1>5. \A i, j \in DOMAIN q : i < j => q[i] < q[j]
    <2> SUFFICES ASSUME NEW i \in 1 .. N + 1, NEW j \in 1 .. N + 1, i < j PROVE q[i] < q[j]
      BY <1>1
    <2>1. i \in 1 .. N /\ q[i] = p[i] /\ p[i] < n
      BY <1>1, <1>2
    <2>2. CASE j = N + 1
      BY <1>1, <2>1, <2>2
    <2>3. CASE j \in 1 .. N
      BY <1>1, <2>1, <2>3 DEF ListsPlaces
    <2> QED BY <1>1, <2>2, <2>3
  <1> QED BY <1>1, <1>3, <1>4, <1>5 DEF ListsPlaces, q

(* make_index lists where a name is.                                       *)
LEMMA PlacesListed ==
    ASSUME NEW kws, NEW S, NEW list \in Seq(S), NEW name
    PROVE  ListsPlaces(Places(kws, list, name), NamedIn(kws, list, name))
  <1> DEFINE N == Len(list)
             Here(k) == kws[list[k]].name = name
             P(n) == {k \in 1 .. n : Here(k)}
             step == [k \in 1 .. N |-> [p \in Seq(Nat) |-> IF Here(k) THEN Append(p, k - 1) ELSE p]]
             Solves(u) == u = [n \in 0 .. N |-> IF n = 0 THEN <<>>
                                                ELSE IF Here(n) THEN Append(u[n - 1], n - 1) ELSE u[n - 1]]
             u == CHOOSE u : Solves(u)
  <1>1. N \in Nat /\ DOMAIN list = 1 .. N
    BY LenProperties
  <1>2. Places(kws, list, name) = u[N]
    BY DEF Places
  <1>3. NamedIn(kws, list, name) = P(N)
    BY <1>1 DEF NamedIn
  <1> HIDE DEF N, Here
  <1>4. /\ step \in [1 .. N -> [Seq(Nat) -> Seq(Nat)]]
        /\ \A k \in 1 .. N : \A p \in Seq(Nat) : step[k][p] = IF Here(k) THEN Append(p, k - 1) ELSE p
    <2>1. \A k \in 1 .. N : k - 1 \in Nat
      BY <1>1
    <2>2. \A k \in 1 .. N : \A p \in Seq(Nat) : Append(p, k - 1) \in Seq(Nat)
      BY <2>1, AppendProperties
    <2>3. \A k \in 1 .. N : [p \in Seq(Nat) |-> IF Here(k) THEN Append(p, k - 1) ELSE p]
                                \in [Seq(Nat) -> Seq(Nat)]
      BY <2>2
    <2> QED BY <2>3
  <1> HIDE DEF step
  <1>5. \E w : Solves(w)
    <2>0. <<>> \in Seq(Nat)
      OBVIOUS
    <2>1. PICK w : Recurs(w, N, Seq(Nat), <<>>, step)
      BY <1>1, <1>4, <2>0, RecursionSolved
    <2>2. ASSUME NEW k \in 1 .. N PROVE w[k] = IF Here(k) THEN Append(w[k - 1], k - 1) ELSE w[k - 1]
      <3>1. k - 1 \in 0 .. N
        BY <1>1
      <3>2. w[k - 1] \in Seq(Nat)
        BY <2>1, <3>1 DEF Recurs
      <3> QED BY <1>4, <2>1, <3>2 DEF Recurs
    <2>3. \A k \in 0 .. N : w[k] = IF k = 0 THEN <<>>
                                   ELSE IF Here(k) THEN Append(w[k - 1], k - 1) ELSE w[k - 1]
      <3> SUFFICES ASSUME NEW k \in 0 .. N
                   PROVE  w[k] = IF k = 0 THEN <<>>
                                 ELSE IF Here(k) THEN Append(w[k - 1], k - 1) ELSE w[k - 1]
        OBVIOUS
      <3>1. CASE k = 0
        BY <2>1, <3>1 DEF Recurs
      <3>2. CASE k # 0
        <4>1. k \in 1 .. N
          BY <1>1, <3>2
        <4> QED BY <2>2, <3>2, <4>1
      <3> QED BY <3>1, <3>2
    <2>4. w = [k \in 0 .. N |-> w[k]]
      BY <2>1 DEF Recurs
    <2>5. Solves(w)
      BY <2>3, <2>4
    <2> HIDE DEF Solves
    <2> QED BY <2>5
  <1>6. Solves(u)
    BY <1>5
  <1> HIDE DEF u
  <1>7. /\ u[0] = <<>>
        /\ \A k \in 1 .. N : u[k] = IF Here(k) THEN Append(u[k - 1], k - 1) ELSE u[k - 1]
    <2>1. 0 \in 0 .. N
      BY <1>1
    <2>2. \A k \in 0 .. N : u[k] = IF k = 0 THEN <<>>
                                   ELSE IF Here(k) THEN Append(u[k - 1], k - 1) ELSE u[k - 1]
      BY <1>6, Zenon
    <2>3. ASSUME NEW k \in 1 .. N
          PROVE  u[k] = IF Here(k) THEN Append(u[k - 1], k - 1) ELSE u[k - 1]
      <3>1. k \in 0 .. N /\ k # 0
        BY <1>1
      <3> QED BY <2>2, <3>1
    <2> QED BY <2>1, <2>2, <2>3
  <1> DEFINE T == {n \in 0 .. N : ListsPlaces(u[n], P(n))}
  <1>8. 0 \in T
    <2>1. P(0) = {}
      OBVIOUS
    <2>2. ListsPlaces(<<>>, {})
      BY DEF ListsPlaces
    <2> QED BY <1>1, <1>7, <2>1, <2>2
  <1>9. ASSUME NEW n \in 0 .. N - 1, n \in T PROVE n + 1 \in T
    <2>1. /\ n \in Nat /\ n + 1 \in 1 .. N /\ n + 1 \in 0 .. N /\ (n + 1) - 1 = n
          /\ ListsPlaces(u[n], P(n)) /\ P(n) \in SUBSET (1 .. n)
      BY <1>1, <1>9
    <2>2. u[n + 1] = IF Here(n + 1) THEN Append(u[n], n) ELSE u[n]
      BY <1>7, <2>1
    <2>3. P(n + 1) = IF Here(n + 1) THEN P(n) \cup {n + 1} ELSE P(n)
      <3>1. 1 .. n + 1 = (1 .. n) \cup {n + 1}
        BY <2>1
      <3> QED BY <3>1
    <2> HIDE DEF P
    <2>4. ListsPlaces(u[n + 1], P(n + 1))
      <3>1. CASE Here(n + 1)
        BY <2>1, <2>2, <2>3, <3>1, PlaceAdded
      <3>2. CASE ~Here(n + 1)
        BY <2>1, <2>2, <2>3, <3>2
      <3> QED BY <3>1, <3>2
    <2> QED BY <2>1, <2>4
  <1> HIDE DEF T
  <1>10. 0 .. N \subseteq T
    BY <1>1, <1>8, <1>9, UpToInduction
  <1>11. N \in 0 .. N
    BY <1>1
  <1> QED BY <1>2, <1>3, <1>10, <1>11 DEF T

LEMMA PlacesShape ==
    ASSUME NEW p, NEW P, ListsPlaces(p, P)
    PROVE  /\ Len(p) \in Nat /\ DOMAIN p = 1 .. Len(p)
           /\ \A i \in 1 .. Len(p) : p[i] \in Nat /\ p[i] + 1 \in P
           /\ \A i, j \in 1 .. Len(p) : (i < j <=> p[i] < p[j]) /\ (p[i] = p[j] => i = j)
           /\ \A m \in P : m \in Int /\ \E i \in 1 .. Len(p) : p[i] + 1 = m
  <1>1. /\ Len(p) \in Nat /\ DOMAIN p = 1 .. Len(p)
        /\ \A i \in 1 .. Len(p) : p[i] \in Nat
    <2>1. p \in Seq(Nat)
      BY DEF ListsPlaces
    <2> QED BY <2>1, LenProperties, ElementOfSeq
  <1> DEFINE N == Len(p)
  <1> HIDE DEF N
  <1>2. \A i, j \in 1 .. N : i < j => p[i] < p[j]
    BY <1>1 DEF ListsPlaces, N
  <1>3. ASSUME NEW i \in 1 .. N, NEW j \in 1 .. N
        PROVE  (i < j <=> p[i] < p[j]) /\ (p[i] = p[j] => i = j)
    <2>1. i < j => p[i] < p[j]
      BY <1>2
    <2>2. j < i => p[j] < p[i]
      BY <1>2
    <2>3. i \in Int /\ j \in Int /\ p[i] \in Int /\ p[j] \in Int
      BY <1>1 DEF N
    <2> QED BY <2>1, <2>2, <2>3
  <1>4. ASSUME NEW m \in P PROVE m \in Int /\ \E i \in 1 .. N : p[i] + 1 = m
    <2>1. PICK i \in 1 .. N : p[i] + 1 = m
      BY <1>1 DEF ListsPlaces, N
    <2>2. p[i] \in Nat
      BY <1>1 DEF N
    <2> QED BY <2>1, <2>2
  <1> QED BY <1>1, <1>3, <1>4 DEF ListsPlaces, N

LEMMA CountOfFirst ==
    ASSUME NEW p, NEW P, ListsPlaces(p, P), NEW j \in 0 .. Len(p)
    PROVE  Cardinality({p[k] + 1 : k \in 1 .. j}) = j
  <1> DEFINE Q == {p[k] + 1 : k \in 1 .. j}
             f == [k \in 1 .. j |-> p[k] + 1]
  <1>1. /\ Len(p) \in Nat /\ \A i \in 1 .. Len(p) : p[i] \in Nat
        /\ \A i, k \in 1 .. Len(p) : p[i] = p[k] => i = k
    BY PlacesShape
  <1>2. j \in Nat /\ \A k \in 1 .. j : k \in 1 .. Len(p)
    BY <1>1
  <1>3. f \in [1 .. j -> Q]
    OBVIOUS
  <1>4. \A i, k \in 1 .. j : f[i] = f[k] => i = k
    <2> SUFFICES ASSUME NEW i \in 1 .. j, NEW k \in 1 .. j, f[i] = f[k] PROVE i = k
      OBVIOUS
    <2>1. i \in 1 .. Len(p) /\ k \in 1 .. Len(p) /\ p[i] \in Nat /\ p[k] \in Nat
      BY <1>1, <1>2
    <2>2. p[i] = p[k]
      BY <2>1
    <2> QED BY <1>1, <2>1, <2>2
  <1>5. \A m \in Q : \E k \in 1 .. j : f[k] = m
    OBVIOUS
  <1> HIDE DEF f, Q
  <1>6. f \in Bijection(1 .. j, Q)
    BY <1>3, <1>4, <1>5 DEF Bijection, Injection, IsInjective, Surjection
  <1>7. ExistsBijection(1 .. j, Q)
    BY <1>6 DEF ExistsBijection
  <1>8. Cardinality(Q) = j
    BY <1>2, <1>7, FS_CountingElements
  <1> QED BY <1>8 DEF Q

(* Of a list of places the n-th has n before it.                           *)
LEMMA CountOfPlaces ==
    ASSUME NEW p, NEW P, ListsPlaces(p, P)
    PROVE  /\ Cardinality(P) = Len(p)
           /\ \A i \in 1 .. Len(p) : Cardinality({m \in P : m < p[i] + 1}) = i - 1
  <1>1. /\ Len(p) \in Nat /\ \A i \in 1 .. Len(p) : p[i] \in Nat /\ p[i] + 1 \in P
        /\ \A i, j \in 1 .. Len(p) : (i < j <=> p[i] < p[j])
        /\ \A m \in P : m \in Int /\ \E i \in 1 .. Len(p) : p[i] + 1 = m
    BY PlacesShape
  <1> DEFINE N == Len(p)
  <1>2. N \in 0 .. N /\ \A i \in 1 .. N : i - 1 \in 0 .. N /\ i \in Int
    BY <1>1
  <1>3. P = {p[k] + 1 : k \in 1 .. N}
    BY <1>1
  <1>4. ASSUME NEW i \in 1 .. N
        PROVE  {m \in P : m < p[i] + 1} = {p[k] + 1 : k \in 1 .. i - 1}
    <2>1. ASSUME NEW m \in P, m < p[i] + 1 PROVE \E k \in 1 .. i - 1 : m = p[k] + 1
      <3>1. PICK k \in 1 .. N : p[k] + 1 = m
        BY <1>1
      <3>2. p[k] \in Nat /\ p[i] \in Nat
        BY <1>1
      <3>3. k < i
        BY <1>1, <2>1, <3>1, <3>2
      <3>4. k \in 1 .. i - 1
        BY <1>1, <3>3
      <3> QED BY <3>1, <3>4
    <2>2. ASSUME NEW k \in 1 .. i - 1 PROVE p[k] + 1 \in P /\ p[k] + 1 < p[i] + 1
      <3>1. k \in 1 .. N /\ k < i
        BY <1>1
      <3>2. p[k] < p[i] /\ p[k] \in Nat /\ p[i] \in Nat
        BY <1>1, <3>1
      <3> QED BY <1>1, <3>1, <3>2
    <2> QED BY <2>1, <2>2
  <1>5. Cardinality(P) = N
    BY <1>2, <1>3, CountOfFirst
  <1>6. ASSUME NEW i \in 1 .. N PROVE Cardinality({m \in P : m < p[i] + 1}) = i - 1
    <2>1. i - 1 \in 0 .. Len(p)
      BY <1>2
    <2>2. Cardinality({p[k] + 1 : k \in 1 .. i - 1}) = i - 1
      BY <2>1, CountOfFirst
    <2> QED BY <1>4, <2>2
  <1> QED BY <1>5, <1>6

LEMMA SameCount == \A S : Abstract!Cardinality(S) = Cardinality(S)
  <1> QED BY DEF Abstract!Cardinality, Cardinality

LEMMA NthPlace ==
    ASSUME NEW p, NEW P, ListsPlaces(p, P), NEW n \in Nat
    PROVE  Abstract!Nth(P, n) = IF n < Len(p) THEN {p[n + 1] + 1} ELSE {}
  <1>1. /\ Len(p) \in Nat /\ \A i \in 1 .. Len(p) : p[i] \in Nat /\ p[i] + 1 \in P
        /\ \A m \in P : m \in Int /\ \E i \in 1 .. Len(p) : p[i] + 1 = m
    BY PlacesShape
  <1> DEFINE Before(s) == Cardinality({m \in P : m < s})
  <1>2. \A i \in 1 .. Len(p) : Before(p[i] + 1) = i - 1
    BY CountOfPlaces
  <1>3. Abstract!Nth(P, n) = {s \in P : Before(s) = n}
    BY SameCount DEF Abstract!Nth
  <1> HIDE DEF Before
  <1>4. ASSUME NEW s \in P, Before(s) = n PROVE n < Len(p) /\ s = p[n + 1] + 1
    <2>1. PICK i \in 1 .. Len(p) : p[i] + 1 = s
      BY <1>1
    <2>2. i - 1 = n
      BY <1>2, <1>4, <2>1
    <2>3. i = n + 1 /\ n < Len(p)
      BY <1>1, <2>2
    <2> QED BY <2>1, <2>3
  <1>5. ASSUME n < Len(p) PROVE p[n + 1] + 1 \in P /\ Before(p[n + 1] + 1) = n
    <2>1. n + 1 \in 1 .. Len(p) /\ (n + 1) - 1 = n
      BY <1>1, <1>5
    <2> QED BY <1>1, <1>2, <2>1
  <1>6. CASE n < Len(p)
    <2>1. Abstract!Nth(P, n) = {p[n + 1] + 1}
      BY <1>3, <1>4, <1>5, <1>6
    <2> QED BY <1>6, <2>1
  <1>7. CASE ~(n < Len(p))
    BY <1>3, <1>4, <1>7
  <1> QED BY <1>6, <1>7

LEMMA LeastIs ==
    ASSUME NEW S \in SUBSET Int, NEW x \in S, \A m \in S : x <= m
    PROVE  Abstract!Least(S) = x /\ (CHOOSE n \in S : \A m \in S : n <= m) = x
  <1> DEFINE y == CHOOSE n \in S : \A m \in S : n <= m
  <1>1. y \in S /\ \A m \in S : y <= m
    OBVIOUS
  <1>2. y <= x /\ x <= y /\ x \in Int /\ y \in Int
    BY <1>1
  <1>3. y = x
    BY <1>2
  <1> QED BY <1>3 DEF Abstract!Least

-----------------------------------------------------------------------------
(* Views and blocks.                                                       *)

(* A view is indexed, and its keywords are those of the file.              *)
ViewFits(kws, v) == v.kw_list \in Seq(DOMAIN kws) /\ v = Indexed(kws, v.kw_list)

LEMMA ViewIndex ==
    ASSUME NEW kws, NEW v, ViewFits(kws, v), NEW name
    PROVE  LET P == NamedIn(kws, v.kw_list, name)
               p == Places(kws, v.kw_list, name)
           IN  /\ ListsPlaces(p, P) /\ P \in SUBSET (1 .. Len(v.kw_list))
               /\ HasKw(v, name) <=> P # {}
               /\ HasKw(v, name) => v.kw_index[name] = p
               /\ NumNamedKw(v, name) = Len(p)
  <1> DEFINE list == v.kw_list
             P == NamedIn(kws, list, name)
             p == Places(kws, list, name)
  <1>1. list \in Seq(DOMAIN kws) /\ DOMAIN list = 1 .. Len(list)
    BY LenProperties DEF ViewFits
  <1>2. ListsPlaces(p, P)
    BY <1>1, PlacesListed
  <1>3. P \in SUBSET (1 .. Len(list))
    BY <1>1 DEF NamedIn
  <1>4. v.kw_index = MakeIndex(kws, list)
    <2>1. v = [kw_list |-> list, kw_index |-> MakeIndex(kws, list)]
      BY Zenon DEF ViewFits, Indexed
    <2> QED BY <2>1
  <1>5. HasKw(v, name) <=> P # {}
    BY <1>4 DEF HasKw, NamedIn, MakeIndex
  <1>6. HasKw(v, name) => v.kw_index[name] = p
    BY <1>4 DEF HasKw, MakeIndex
  <1>7. NumNamedKw(v, name) = Len(p)
    <2>1. CASE HasKw(v, name)
      BY <1>6, <2>1 DEF NumNamedKw
    <2>2. CASE ~HasKw(v, name)
      <3> HIDE DEF P, p
      <3>1. P = {}
        BY <1>5, <2>2
      <3>2. Len(p) \in Nat /\ \A i \in 1 .. Len(p) : p[i] + 1 \in P
        BY <1>2, PlacesShape
      <3>3. Len(p) = 0
        BY <3>1, <3>2
      <3> QED BY <2>2, <3>3 DEF NumNamedKw
    <2> QED BY <2>1, <2>2
  <1> QED BY <1>2, <1>3, <1>5, <1>6, <1>7

LEMMA ContentsShape ==
    ASSUME file \in Seq(Keywords), NEW list \in Seq(DOMAIN file)
    PROVE  /\ Contents(list) \in Seq(Keywords) /\ Len(Contents(list)) = Len(list)
           /\ Len(list) \in Nat /\ DOMAIN list = 1 .. Len(list) /\ DOMAIN Contents(list) = 1 .. Len(list)
           /\ \A n \in 1 .. Len(list) : /\ Contents(list)[n] = file[list[n]]
                                        /\ file[list[n]] \in Keywords /\ list[n] \in DOMAIN file
  <1>1. DOMAIN file = 1 .. Len(file) /\ \A m \in DOMAIN file : file[m] \in Keywords
    BY LenProperties, ElementOfSeq
  <1>2. Len(list) \in Nat /\ DOMAIN list = 1 .. Len(list) /\ \A n \in 1 .. Len(list) : list[n] \in DOMAIN file
    BY LenProperties, ElementOfSeq
  <1>3. Contents(list) = [n \in 1 .. Len(list) |-> file[list[n]]]
    BY <1>2 DEF Contents
  <1>4. Contents(list) \in [1 .. Len(list) -> Keywords]
    BY <1>1, <1>2, <1>3
  <1>5. Contents(list) \in Seq(Keywords) /\ Len(Contents(list)) = Len(list)
    BY <1>2, <1>4, WrittenOut
  <1> QED BY <1>1, <1>2, <1>3, <1>5

LEMMA NamesOfFile ==
    ASSUME NEW kw \in Keywords
    PROVE  kw.name \in Names /\ kw.name # NoName
  <1> QED BY FileViewAssumption DEF Names

(* A block ends at the first keyword of the name after its own.            *)
LEMMA BlockEnds ==
    ASSUME file \in Seq(Keywords), NEW v, v.kw_list \in Seq(DOMAIN file),
           NEW begin \in 0 .. Len(v.kw_list), NEW end
    PROVE  /\ Stop(v, begin, end) \in begin .. Len(v.kw_list)
           /\ \A n \in begin + 1 .. Len(v.kw_list) :
                  (\A m \in begin + 2 .. n : file[v.kw_list[m]].name # end)
                      <=> n <= Stop(v, begin, end)
  <1> DEFINE list == v.kw_list
             N == Len(list)
             Ends(n) == file[list[n + 1]].name = end
             ends == {n \in begin + 1 .. N - 1 : Ends(n)}
             stop == Stop(v, begin, end)
  <1>1. N \in Nat /\ begin \in Nat /\ begin <= N
        /\ \A n \in 1 .. N : file[list[n]] \in Keywords
    BY ContentsShape
  <1>2. stop = IF end = NoName \/ ends = {} THEN N
               ELSE CHOOSE n \in ends : \A m \in ends : n <= m
    BY DEF Stop
  <1>3. \A m \in begin + 2 .. N : file[list[m]].name = end <=> m - 1 \in ends
    <2> SUFFICES ASSUME NEW m \in begin + 2 .. N
                 PROVE  file[list[m]].name = end <=> m - 1 \in ends
      OBVIOUS
    <2>1. m - 1 \in begin + 1 .. N - 1 /\ (m - 1) + 1 = m
      BY <1>1
    <2> QED BY <2>1
  <1>4. end = NoName => ends = {}
    <2> SUFFICES ASSUME end = NoName, NEW n \in ends PROVE FALSE
      OBVIOUS
    <2>1. n + 1 \in 1 .. N
      BY <1>1
    <2> QED BY <1>1, <2>1, NamesOfFile
  <1>5. ends \in SUBSET Nat /\ \A n \in ends : begin < n /\ n < N
    BY <1>1
  <1> HIDE DEF ends, stop, N
  <1>6. CASE ends = {}
    <2>1. stop = N
      BY <1>2, <1>6
    <2>2. \A n \in begin + 1 .. N : \A m \in begin + 2 .. n : file[list[m]].name # end
      <3> SUFFICES ASSUME NEW n \in begin + 1 .. N, NEW m \in begin + 2 .. n
                   PROVE  file[list[m]].name # end
        OBVIOUS
      <3>1. m \in begin + 2 .. N
        BY <1>1
      <3> QED BY <1>3, <1>6, <3>1
    <2> QED BY <1>1, <2>1, <2>2 DEF stop, N
  <1>7. CASE ends # {}
    <2>1. PICK x \in ends : \A y \in ends : x <= y
      BY <1>5, <1>7, LeastElement
    <2>2. stop = x
      <3>1. ends \in SUBSET Int
        BY <1>5
      <3>2. (CHOOSE n \in ends : \A m \in ends : n <= m) = x
        BY <2>1, <3>1, LeastIs
      <3> QED BY <1>2, <1>4, <1>7, <3>2
    <2>3. x \in Nat /\ begin < x /\ x < N
      BY <1>5
    <2>4. ASSUME NEW n \in begin + 1 .. N
          PROVE  (\A m \in begin + 2 .. n : file[list[m]].name # end) <=> n <= x
      <3>1. ASSUME n <= x, NEW m \in begin + 2 .. n PROVE file[list[m]].name # end
        <4>1. m \in begin + 2 .. N /\ ~(x <= m - 1)
          BY <1>1, <2>3, <3>1
        <4> QED BY <1>3, <2>1, <4>1
      <3>2. ASSUME ~(n <= x) PROVE \E m \in begin + 2 .. n : file[list[m]].name = end
        <4>1. x + 1 \in begin + 2 .. n /\ x + 1 \in begin + 2 .. N /\ (x + 1) - 1 = x
          BY <1>1, <2>3, <3>2
        <4> QED BY <1>3, <4>1
      <3> QED BY <3>1, <3>2
    <2>5. x \in begin .. N
      BY <1>1, <2>3
    <2> QED BY <2>2, <2>4, <2>5 DEF stop, N
  <1> QED BY <1>6, <1>7

(* A view of a block has the keywords from the first to the next end.      *)
LEMMA BlockKept ==
    ASSUME file \in Seq(Keywords), view.kw_list \in Seq(DOMAIN file),
           NEW begin \in 0 .. Len(view.kw_list), NEW end
    PROVE  LET block == SubSeq(view.kw_list, begin + 1, Stop(view, begin, end))
           IN  /\ block \in Seq(DOMAIN file)
               /\ Abstract!Until(begin + 1, end) = begin + 1 .. Stop(view, begin, end)
               /\ Len(block) = Stop(view, begin, end) - begin
               /\ \A n \in 1 .. Len(block) : block[n] = view.kw_list[begin + n]
               /\ Contents(block) = Abstract!Keep(begin + 1, Abstract!Until(begin + 1, end))
  <1> DEFINE list == view.kw_list
             N == Len(list)
             stop == Stop(view, begin, end)
             block == SubSeq(list, begin + 1, stop)
  <1>1. /\ N \in Nat /\ begin \in Nat /\ begin <= N
        /\ Len(Contents(list)) = N
        /\ \A n \in 1 .. N : Contents(list)[n] = file[list[n]] /\ list[n] \in DOMAIN file
    BY ContentsShape
  <1>2. /\ stop \in begin .. N
        /\ \A n \in begin + 1 .. N : (\A m \in begin + 2 .. n : file[list[m]].name # end) <=> n <= stop
    BY BlockEnds
  <1> HIDE DEF stop, N
  <1>3. Abstract!Until(begin + 1, end) = begin + 1 .. stop
    <2>1. Abstract!Until(begin + 1, end) =
              {n \in begin + 1 .. N : \A m \in (begin + 1) + 1 .. n : Contents(list)[m].name # end}
      BY <1>1 DEF Abstract!Until, N
    <2>2. ASSUME NEW n \in begin + 1 .. N
          PROVE  (\A m \in (begin + 1) + 1 .. n : Contents(list)[m].name # end) <=> n <= stop
      <3>1. (begin + 1) + 1 = begin + 2
        BY <1>1
      <3>2. \A m \in begin + 2 .. n : Contents(list)[m].name = file[list[m]].name
        BY <1>1
      <3> QED BY <1>2, <3>1, <3>2
    <2>3. \A n : n \in begin + 1 .. stop <=> n \in begin + 1 .. N /\ n <= stop
      BY <1>1, <1>2
    <2> QED BY <2>1, <2>2, <2>3
  <1>4. /\ block \in Seq(DOMAIN file) /\ Len(block) = stop - begin
        /\ \A n \in 1 .. stop - begin : block[n] = list[begin + n]
    <2>1. begin + 1 \in Int /\ stop \in Int /\ \A i \in begin + 1 .. stop : list[i] \in DOMAIN file
      BY <1>1, <1>2
    <2>2. /\ block \in Seq(DOMAIN file)
          /\ Len(block) = IF begin + 1 <= stop THEN stop - (begin + 1) + 1 ELSE 0
          /\ \A i \in 1 .. stop - (begin + 1) + 1 : block[i] = list[begin + 1 + i - 1]
      BY <2>1, SubSeqProperties
    <2>3. stop - (begin + 1) + 1 = stop - begin /\ (~(begin + 1 <= stop) => stop - begin = 0)
      BY <1>1, <1>2
    <2>4. \A i \in 1 .. stop - begin : begin + 1 + i - 1 = begin + i
      BY <1>1
    <2> QED BY <2>2, <2>3, <2>4
  <1>5. Contents(block) = Abstract!Keep(begin + 1, begin + 1 .. stop)
    <2>1. Cardinality(begin + 1 .. stop) = stop - begin
      <3>1. begin + 1 \in Int /\ stop \in Int
        BY <1>1, <1>2
      <3>2. Cardinality(begin + 1 .. stop) = IF begin + 1 > stop THEN 0 ELSE stop - (begin + 1) + 1
        BY <3>1, FS_Interval
      <3>3. begin <= stop /\ begin \in Int
        BY <1>1, <1>2
      <3>4. CASE begin + 1 > stop
        <4>1. Cardinality(begin + 1 .. stop) = 0
          BY <3>2, <3>4
        <4>2. stop - begin = 0
          BY <3>1, <3>3, <3>4
        <4> QED BY <4>1, <4>2
      <3>5. CASE ~(begin + 1 > stop)
        BY <3>1, <3>2, <3>3, <3>5
      <3> QED BY <3>4, <3>5
    <2>2. Abstract!Keep(begin + 1, begin + 1 .. stop) =
              [n \in 1 .. stop - begin |-> Contents(list)[begin + 1 + n - 1]]
      BY <2>1, SameCount DEF Abstract!Keep
    <2> HIDE DEF block
    <2>3. Contents(block) = [n \in 1 .. stop - begin |-> file[block[n]]]
      <3>1. DOMAIN block = 1 .. stop - begin
        BY <1>4, LenProperties
      <3> QED BY <3>1 DEF Contents
    <2>4. ASSUME NEW n \in 1 .. stop - begin
          PROVE  Contents(list)[begin + 1 + n - 1] = file[block[n]]
      <3>1. begin + 1 + n - 1 = begin + n /\ begin + n \in 1 .. N
        BY <1>1, <1>2
      <3> QED BY <1>1, <1>4, <3>1
    <2> QED BY <2>2, <2>3, <2>4
  <1> QED BY <1>3, <1>4, <1>5 DEF stop

-----------------------------------------------------------------------------
(* The steps of a view.                                                    *)

LEMMA NamedOfView ==
    ASSUME file \in Seq(Keywords), view.kw_list \in Seq(DOMAIN file), NEW name
    PROVE  Abstract!Named(name) = NamedIn(file, view.kw_list, name)
  <1> DEFINE list == view.kw_list
  <1>1. /\ DOMAIN Contents(list) = DOMAIN list
        /\ \A n \in DOMAIN list : Contents(list)[n] = file[list[n]]
    BY ContentsShape
  <1> QED BY <1>1 DEF Abstract!Named, NamedIn

(* A step goes on up to the next one.                                      *)
LEMMA StepEnds ==
    ASSUME file \in Seq(Keywords), ViewFits(file, view),
           NEW p, p = Places(file, view.kw_list, SEQNUM), NEW b \in 1 .. Len(p)
    PROVE  LET end == IF b = Len(p) THEN Len(view.kw_list) ELSE p[b + 1]
           IN  /\ end \in Nat
               /\ Abstract!Until(p[b] + 1, SEQNUM) = p[b] + 1 .. end
  <1> DEFINE list == view.kw_list
             N == Len(list)
             S == NamedIn(file, list, SEQNUM)
             end == IF b = Len(p) THEN N ELSE p[b + 1]
  <1>1. /\ list \in Seq(DOMAIN file) /\ N \in Nat /\ Len(Contents(list)) = N
        /\ DOMAIN list = 1 .. N
        /\ \A n \in 1 .. N : Contents(list)[n] = file[list[n]]
    BY ContentsShape DEF ViewFits
  <1>2. ListsPlaces(p, S) /\ S \in SUBSET (1 .. N)
    BY ViewIndex
  <1>3. /\ Len(p) \in Nat
        /\ \A i \in 1 .. Len(p) : p[i] \in Nat /\ p[i] + 1 \in S
        /\ \A i, j \in 1 .. Len(p) : i < j <=> p[i] < p[j]
        /\ \A m \in S : m \in Int /\ \E i \in 1 .. Len(p) : p[i] + 1 = m
    <2>1. ListsPlaces(p, S)
      BY <1>2
    <2> HIDE DEF S
    <2> QED BY <2>1, PlacesShape
  <1>4. \A m \in 1 .. N : m \in S <=> Contents(list)[m].name = SEQNUM
    BY <1>1 DEF NamedIn
  <1>5. \A i \in 1 .. Len(p) : p[i] + 1 <= N
    <2>1. \A m \in S : m <= N
      BY <1>2
    <2> HIDE DEF S
    <2> QED BY <1>3, <2>1
  <1> DEFINE L == Len(p)
             C == Contents(list)
  <1>6. Abstract!Until(p[b] + 1, SEQNUM) =
            {n \in p[b] + 1 .. N : \A m \in (p[b] + 1) + 1 .. n : C[m].name # SEQNUM}
    BY <1>1 DEF Abstract!Until
  <1>7. end \in Nat /\ end <= N /\ (b # L => b + 1 \in 1 .. L /\ p[b] < p[b + 1])
    <2>1. CASE b = L
      BY <1>1, <2>1
    <2>2. CASE b # L
      <3>1. b + 1 \in 1 .. L /\ b \in 1 .. L /\ b < b + 1
        BY <1>3, <2>2
      <3>2. p[b + 1] \in Nat /\ p[b + 1] + 1 <= N /\ p[b] < p[b + 1]
        BY <1>3, <1>5, <3>1
      <3>3. end = p[b + 1]
        BY <2>2
      <3> HIDE DEF end
      <3> QED BY <1>1, <3>1, <3>2, <3>3
    <2> QED BY <2>1, <2>2
  <1>8. p[b] \in Nat /\ b \in 1 .. L /\ L \in Nat
    BY <1>3
  <1> HIDE DEF L, C, end, N, S
  <1>9. ASSUME NEW n \in p[b] + 1 .. N, n <= end, NEW m \in (p[b] + 1) + 1 .. n
        PROVE  C[m].name # SEQNUM
    <2>1. m \in 1 .. N /\ p[b] + 1 < m /\ m <= end /\ m \in Int
      BY <1>1, <1>7, <1>8, <1>9
    <2> SUFFICES ASSUME m \in S PROVE FALSE
      BY <1>4, <2>1 DEF C
    <2>2. PICK i \in 1 .. L : p[i] + 1 = m
      BY <1>3 DEF L
    <2>3. p[i] \in Nat /\ p[b] < p[i]
      BY <1>3, <1>8, <2>1, <2>2 DEF L
    <2>4. b < i
      BY <1>3, <1>8, <2>3 DEF L
    <2>5. b # L
      BY <1>8, <2>4
    <2>6. end = p[b + 1] /\ b + 1 \in 1 .. L
      BY <1>7, <2>5 DEF end, L
    <2>7. p[i] < p[b + 1]
      BY <1>7, <2>1, <2>2, <2>3, <2>6
    <2>8. i < b + 1
      BY <1>3, <2>6, <2>7 DEF L
    <2> QED BY <1>8, <2>4, <2>8
  <1>10. ASSUME NEW n \in p[b] + 1 .. N, ~(n <= end)
         PROVE  \E m \in (p[b] + 1) + 1 .. n : C[m].name = SEQNUM
    <2>1. b # L
      BY <1>1, <1>10 DEF end, L
    <2>2. end = p[b + 1] /\ b + 1 \in 1 .. L /\ p[b] < p[b + 1]
      BY <1>7, <2>1 DEF end, L
    <2>3. end + 1 \in S /\ end + 1 \in 1 .. N
      BY <1>2, <1>3, <2>2 DEF L
    <2>4. C[end + 1].name = SEQNUM
      BY <1>4, <2>3 DEF C
    <2>5. end + 1 \in (p[b] + 1) + 1 .. n
      BY <1>7, <1>8, <1>10, <2>2
    <2> QED BY <2>4, <2>5
  <1>11. \A n \in p[b] + 1 .. N : n <= end <=> \A m \in (p[b] + 1) + 1 .. n : C[m].name # SEQNUM
    BY <1>9, <1>10
  <1>12. \A n : n \in p[b] + 1 .. end <=> n \in p[b] + 1 .. N /\ n <= end
    BY <1>1, <1>7, <1>8
  <1>13. Abstract!Until(p[b] + 1, SEQNUM) = p[b] + 1 .. end
    BY <1>6, <1>11, <1>12
  <1> QED BY <1>7, <1>13 DEF end, L, N

StepMatches(s, name, value) ==
    Abstract!Headers(s, name) # {} /\ Abstract!HeaderValue(s, name) = value

(* The cursor stops at the first header that is not before a block.        *)
LEMMA CursorAdvances ==
    ASSUME NEW q, NEW H, ListsPlaces(q, H), NEW from \in 1 .. Len(q) + 1, NEW start \in Int,
           \A i \in 1 .. from - 1 : q[i] < start
    PROVE  LET c == Advance(q, from, start)
           IN  /\ c \in 1 .. Len(q) + 1
               /\ \A i \in 1 .. c - 1 : q[i] < start
               /\ c <= Len(q) => start <= q[c]
  <1> DEFINE K == Len(q)
             ahead == {c \in from .. K : q[c] >= start}
             c == Advance(q, from, start)
  <1>1. K \in Nat /\ \A i \in 1 .. K : q[i] \in Nat
    BY PlacesShape
  <1>2. c = IF ahead = {} THEN K + 1 ELSE CHOOSE x \in ahead : \A y \in ahead : x <= y
    BY DEF Advance
  <1> HIDE DEF c
  <1>3. ahead \in SUBSET Nat /\ \A x \in ahead : x \in from .. K /\ q[x] >= start
    BY <1>1
  <1>4. \A x \in from .. K : q[x] \in Nat /\ (x \notin ahead => q[x] < start)
    BY <1>1
  <1> HIDE DEF ahead
  <1>5. CASE ahead = {}
    <2>1. c = K + 1
      BY <1>2, <1>5
    <2>2. \A i \in 1 .. K : q[i] < start
      <3> SUFFICES ASSUME NEW i \in 1 .. K PROVE q[i] < start
        OBVIOUS
      <3>1. i \in 1 .. from - 1 \/ i \in from .. K
        BY <1>1
      <3> QED BY <1>4, <1>5, <3>1
    <2>3. c - 1 = K /\ c \in 1 .. K + 1 /\ ~(c <= K)
      BY <1>1, <2>1
    <2> QED BY <2>2, <2>3 DEF c
  <1>6. CASE ahead # {}
    <2>1. PICK x \in ahead : \A y \in ahead : x <= y
      BY <1>3, <1>6, LeastElement
    <2>2. c = x
      <3>1. ahead \in SUBSET Int
        BY <1>3
      <3> QED BY <1>2, <1>6, <2>1, <3>1, LeastIs
    <2>3. x \in 1 .. K /\ from <= x /\ start <= q[x]
      BY <1>1, <1>3
    <2>4. \A i \in 1 .. x - 1 : q[i] < start
      <3> SUFFICES ASSUME NEW i \in 1 .. x - 1 PROVE q[i] < start
        OBVIOUS
      <3>1. i \in 1 .. from - 1 \/ (i \in from .. K /\ ~(x <= i))
        BY <1>1, <2>3
      <3> QED BY <1>4, <2>1, <3>1
    <2>5. x \in 1 .. K + 1
      BY <1>1, <2>3
    <2> QED BY <2>2, <2>3, <2>4, <2>5 DEF c
  <1> QED BY <1>5, <1>6 DEF c

(* What is there is the first header of the block, if it has one.          *)
LEMMA BlockSearched ==
    ASSUME file \in Seq(Keywords), ViewFits(file, view), NEW header, NEW value,
           NEW p, p = Places(file, view.kw_list, SEQNUM), NEW b \in 1 .. Len(p),
           NEW q, q = Places(file, view.kw_list, header), NEW c \in 1 .. Len(q) + 1,
           \A i \in 1 .. c - 1 : q[i] < p[b], c <= Len(q) => p[b] <= q[c]
    PROVE  BlockMatches(view, p, q, b, c, value) <=> StepMatches(p[b] + 1, header, value)
  <1> DEFINE list == view.kw_list
             N == Len(list)
             H == NamedIn(file, list, header)
             end == IF b = Len(p) THEN N ELSE p[b + 1]
             heads == Abstract!Headers(p[b] + 1, header)
  <1>1. list \in Seq(DOMAIN file) /\ N \in Nat /\ \A n \in 1 .. N : Contents(list)[n] = file[list[n]]
    BY ContentsShape DEF ViewFits
  <1>2. ListsPlaces(q, H) /\ H \in SUBSET (1 .. N)
    BY ViewIndex
  <1>3. /\ Len(q) \in Nat /\ \A i \in 1 .. Len(q) : q[i] \in Nat /\ q[i] + 1 \in H
        /\ \A i, j \in 1 .. Len(q) : i < j <=> q[i] < q[j]
        /\ \A m \in H : m \in Int /\ \E i \in 1 .. Len(q) : q[i] + 1 = m
    <2>1. ListsPlaces(q, H)
      BY <1>2
    <2> HIDE DEF H
    <2> QED BY <2>1, PlacesShape
  <1>4. end \in Nat /\ Abstract!Until(p[b] + 1, SEQNUM) = p[b] + 1 .. end
    BY StepEnds
  <1>5. p[b] \in Nat
    <2>1. ListsPlaces(p, NamedIn(file, list, SEQNUM))
      BY ViewIndex
    <2> QED BY <2>1, PlacesShape
  <1>6. heads = H \cap (p[b] + 1 .. end)
    BY <1>1, <1>4, NamedOfView DEF Abstract!Headers
  <1>7. BlockMatches(view, p, q, b, c, value) <=>
            c <= Len(q) /\ q[c] < end /\ file[list[q[c] + 1]].value = value
    BY DEF BlockMatches
  <1> HIDE DEF end, H
  <1> DEFINE there == c <= Len(q) /\ q[c] < end
  <1>8. CASE there
    <2>1. c \in 1 .. Len(q) /\ q[c] \in Nat /\ q[c] + 1 \in H /\ p[b] <= q[c] /\ q[c] < end
      BY <1>3, <1>8
    <2> DEFINE x == q[c] + 1
    <2>2. x \in heads
      <3>1. x \in p[b] + 1 .. end
        <4>1. p[b] + 1 <= x /\ x <= end /\ x \in Int /\ p[b] + 1 \in Int /\ end \in Int
          BY <1>4, <1>5, <2>1
        <4> HIDE DEF x
        <4> QED BY <4>1
      <3> QED BY <1>6, <2>1, <3>1
    <2>3. \A m \in heads : x <= m
      <3> SUFFICES ASSUME NEW m \in heads PROVE x <= m
        OBVIOUS
      <3>1. m \in H /\ m \in p[b] + 1 .. end
        BY <1>6
      <3>2. PICK i \in 1 .. Len(q) : q[i] + 1 = m
        BY <1>3, <3>1
      <3>3. q[i] \in Nat /\ ~(q[i] < p[b])
        BY <1>3, <1>5, <3>1, <3>2
      <3>4. ~(i < c)
        <4> SUFFICES ASSUME i < c PROVE FALSE
          OBVIOUS
        <4>1. i \in 1 .. c - 1
          BY <1>3, <2>1
        <4> QED BY <3>3, <4>1
      <3>5. ~(q[i] < q[c])
        BY <1>3, <2>1, <3>4
      <3> QED BY <2>1, <3>2, <3>3, <3>5
    <2>4. heads \in SUBSET Int
      BY <1>3, <1>6
    <2> HIDE DEF x, heads
    <2>5. Abstract!Least(heads) = x
      BY <2>2, <2>3, <2>4, LeastIs
    <2>6. x \in 1 .. N
      BY <1>2, <2>1 DEF x
    <2>7. Abstract!HeaderValue(p[b] + 1, header) = file[list[x]].value
      BY <1>1, <2>5, <2>6 DEF Abstract!HeaderValue, heads
    <2>8. heads # {}
      BY <2>2
    <2> QED BY <1>7, <1>8, <2>7, <2>8 DEF StepMatches, heads, x
  <1>9. CASE ~there
    <2>1. heads = {}
      <3> SUFFICES ASSUME NEW m \in heads PROVE FALSE
        OBVIOUS
      <3>1. m \in H /\ m \in p[b] + 1 .. end
        BY <1>6
      <3>2. PICK i \in 1 .. Len(q) : q[i] + 1 = m
        BY <1>3, <3>1
      <3>3. q[i] \in Nat /\ ~(q[i] < p[b]) /\ q[i] < end
        <4>1. q[i] \in Nat /\ end \in Int /\ p[b] \in Nat
          BY <1>3, <1>4, <1>5
        <4>2. p[b] + 1 <= m /\ m <= end /\ m \in Int
          BY <1>4, <1>5, <3>1
        <4> DEFINE x == q[i]
                   y == p[b]
        <4>3. x \in Nat /\ y \in Nat /\ x + 1 = m
          BY <3>2, <4>1
        <4>4. y + 1 <= m
          BY <4>2
        <4> HIDE DEF x, y
        <4>5. ~(x < y) /\ x < end
          BY <4>1, <4>2, <4>3, <4>4
        <4> QED BY <4>1, <4>5 DEF x, y
      <3>4. ~(i \in 1 .. c - 1)
        BY <3>3
      <3>5. c <= i /\ c <= Len(q) /\ c \in 1 .. Len(q)
        BY <1>3, <3>4
      <3>6. ~(q[c] < end) /\ q[c] \in Nat
        BY <1>3, <1>9, <3>5
      <3>7. ~(q[i] < q[c])
        <4>1. ~(i < c)
          BY <3>5
        <4> QED BY <1>3, <3>5, <4>1
      <3> QED BY <1>4, <3>3, <3>6, <3>7
    <2> QED BY <1>7, <1>9, <2>1 DEF StepMatches
  <1> QED BY <1>8, <1>9

LEMMA CursorStays ==
    ASSUME NEW q, NEW H, ListsPlaces(q, H), NEW from \in 1 .. Len(q) + 1, NEW start \in Int
    PROVE  Advance(q, from, start) \in 1 .. Len(q) + 1
  <1> DEFINE K == Len(q)
             ahead == {c \in from .. K : q[c] >= start}
  <1>1. K \in Nat
    BY PlacesShape
  <1>2. ahead \in SUBSET Nat /\ ahead \in SUBSET Int /\ \A x \in ahead : x \in 1 .. K
    BY <1>1
  <1>3. Advance(q, from, start) =
            IF ahead = {} THEN K + 1 ELSE CHOOSE x \in ahead : \A y \in ahead : x <= y
    BY DEF Advance
  <1> HIDE DEF ahead
  <1>4. CASE ahead = {}
    BY <1>1, <1>3, <1>4
  <1>5. CASE ahead # {}
    <2>1. PICK x \in ahead : \A y \in ahead : x <= y
      BY <1>2, <1>5, LeastElement
    <2>2. Advance(q, from, start) = x
      BY <1>2, <1>3, <1>5, <2>1, LeastIs
    <2> QED BY <1>1, <1>2, <2>2
  <1> QED BY <1>4, <1>5

(* What find_block has come to after the first blocks.                     *)
Searched(r, p, q, header, value, b) ==
    /\ \/ r.found = -1
       \/ /\ r.found + 1 \in 1 .. b /\ r.found \in Nat
          /\ StepMatches(p[r.found + 1] + 1, header, value)
    /\ \A k \in 1 .. (IF r.found = -1 THEN b ELSE r.found) : ~StepMatches(p[k] + 1, header, value)
    /\ r.found = -1 =>
           \A i \in 1 .. r.cursor - 1 : \A k \in b + 1 .. Len(p) : q[i] < p[k]

(* The first step with the value is found, or there is none.               *)
LEMMA FirstFound ==
    ASSUME file \in Seq(Keywords), ViewFits(file, view), NEW header, NEW value,
           NEW p, p = Places(file, view.kw_list, SEQNUM)
    PROVE  LET f == FindBlock(view, header, value)
           IN  /\ \/ f = -1
                  \/ f + 1 \in 1 .. Len(p) /\ f \in Nat /\ StepMatches(p[f + 1] + 1, header, value)
               /\ \A k \in 1 .. (IF f = -1 THEN Len(p) ELSE f) : ~StepMatches(p[k] + 1, header, value)
  <1> DEFINE list == view.kw_list
             q == Places(file, list, header)
             B == Len(p)
             K == Len(q)
             Matches(k) == StepMatches(p[k] + 1, header, value)
             f == FindBlock(view, header, value)
  <1>1. /\ ListsPlaces(p, NamedIn(file, list, SEQNUM))
        /\ HasKw(view, SEQNUM) <=> NamedIn(file, list, SEQNUM) # {}
        /\ HasKw(view, SEQNUM) => view.kw_index[SEQNUM] = p
    BY ViewIndex
  <1>2. /\ ListsPlaces(q, NamedIn(file, list, header))
        /\ HasKw(view, header) <=> NamedIn(file, list, header) # {}
        /\ HasKw(view, header) => view.kw_index[header] = q
    BY ViewIndex
  <1>3. /\ B \in Nat /\ \A i \in 1 .. B : p[i] \in Nat /\ p[i] + 1 \in NamedIn(file, list, SEQNUM)
        /\ \A i, j \in 1 .. B : i < j <=> p[i] < p[j]
    <2> HIDE DEF list
    <2> QED BY <1>1, PlacesShape
  <1>4. K \in Nat /\ \A i \in 1 .. K : q[i] \in Nat
    BY <1>2, PlacesShape
  <1>5. view.kw_list \in Seq(DOMAIN file)
    BY DEF ViewFits
  <1> HIDE DEF q, B, K
  <1>6. CASE ~HasKw(view, SEQNUM)
    <2>1. f = -1
      BY <1>6 DEF FindBlock
    <2>2. B = 0
      BY <1>1, <1>3, <1>6
    <2> QED BY <2>1, <2>2 DEF B
  <1>7. CASE HasKw(view, SEQNUM) /\ ~HasKw(view, header)
    <2>1. f = -1
      BY <1>7 DEF FindBlock
    <2>2. Abstract!Named(header) = {}
      BY <1>2, <1>5, <1>7, NamedOfView
    <2>3. \A k : ~StepMatches(p[k] + 1, header, value)
      BY <2>2 DEF StepMatches, Abstract!Headers
    <2> QED BY <2>1, <2>3
  <1>8. CASE HasKw(view, SEQNUM) /\ HasKw(view, header)
    <2> DEFINE R == [cursor : 1 .. K + 1, found : Int]
               After(b, r) ==
                   IF r.found >= 0 THEN r
                   ELSE LET cursor == Advance(q, r.cursor, p[b])
                        IN  [cursor |-> cursor,
                             found  |-> IF BlockMatches(view, p, q, b, cursor, value)
                                        THEN b - 1 ELSE -1]
               base == [cursor |-> 1, found |-> -1]
               step == [b \in 1 .. B |-> [r \in R |-> After(b, r)]]
               Solves(u) == u = [b \in 0 .. B |-> IF b = 0 THEN base
                                                  ELSE IF u[b - 1].found >= 0 THEN u[b - 1]
                                                  ELSE LET cursor == Advance(q, u[b - 1].cursor, p[b])
                                                       IN  [cursor |-> cursor,
                                                            found  |-> IF BlockMatches(view, p, q, b, cursor, value)
                                                                       THEN b - 1 ELSE -1]]
               u == CHOOSE u : Solves(u)
    <2>1. f = u[B].found
      <3>1. f = BlockFound(view, p, q, value)
        BY <1>1, <1>2, <1>8 DEF FindBlock
      <3>2. BlockFound(view, p, q, value) = u[B].found
        BY DEF BlockFound, B
      <3> QED BY <3>1, <3>2
    <2>2. base \in R
      BY <1>4
    <2>3. \A b \in 1 .. B : \A r \in R : After(b, r) \in R
      <3> SUFFICES ASSUME NEW b \in 1 .. B, NEW r \in R PROVE After(b, r) \in R
        OBVIOUS
      <3>1. Advance(q, r.cursor, p[b]) \in 1 .. K + 1
        <4>1. r.cursor \in 1 .. K + 1 /\ p[b] \in Int
          BY <1>3
        <4> QED BY <1>2, <4>1, CursorStays DEF K
      <3>2. b - 1 \in Int /\ -1 \in Int
        BY <1>3
      <3> QED BY <3>1, <3>2
    <2> HIDE DEF R, base, After
    <2>4. /\ step \in [1 .. B -> [R -> R]]
          /\ \A b \in 1 .. B : \A r \in R : step[b][r] = After(b, r)
      <3>1. \A b \in 1 .. B : [r \in R |-> After(b, r)] \in [R -> R]
        BY <2>3
      <3> QED BY <3>1
    <2> HIDE DEF step
    <2>5. \E w : Solves(w)
      <3>1. PICK w : Recurs(w, B, R, base, step)
        BY <1>3, <2>2, <2>4, RecursionSolved
      <3>2. \A b \in 0 .. B : w[b] = IF b = 0 THEN base ELSE After(b, w[b - 1])
        <4> SUFFICES ASSUME NEW b \in 0 .. B PROVE w[b] = IF b = 0 THEN base ELSE After(b, w[b - 1])
          OBVIOUS
        <4>1. CASE b = 0
          BY <3>1, <4>1 DEF Recurs
        <4>2. CASE b # 0
          <5>1. b \in 1 .. B /\ b - 1 \in 0 .. B
            BY <1>3, <4>2
          <5>2. w[b] = step[b][w[b - 1]] /\ w[b - 1] \in R
            BY <3>1, <5>1 DEF Recurs
          <5> QED BY <2>4, <4>2, <5>1, <5>2
        <4> QED BY <4>1, <4>2
      <3>3. w = [b \in 0 .. B |-> w[b]]
        BY <3>1 DEF Recurs
      <3>4. w = [b \in 0 .. B |-> IF b = 0 THEN base ELSE After(b, w[b - 1])]
        BY <3>2, <3>3
      <3>5. Solves(w)
        BY <3>4, Zenon DEF After
      <3> HIDE DEF Solves
      <3> QED BY <3>5
    <2>6. Solves(u)
      BY <2>5
    <2> HIDE DEF u
    <2>7. u = [b \in 0 .. B |-> IF b = 0 THEN base ELSE After(b, u[b - 1])]
      BY <2>6, Zenon DEF After
    <2>8. u[0] = base /\ \A b \in 1 .. B : u[b] = After(b, u[b - 1])
      <3>1. \A b \in 0 .. B : u[b] = IF b = 0 THEN base ELSE After(b, u[b - 1])
        BY <2>7, Zenon
      <3>2. 0 \in 0 .. B /\ \A b \in 1 .. B : b \in 0 .. B /\ b # 0
        BY <1>3
      <3> QED BY <3>1, <3>2
    <2> HIDE DEF Solves
    <2> DEFINE T == {b \in 0 .. B : u[b] \in R /\ Searched(u[b], p, q, header, value, b)}
    <2>9. 0 \in T
      <3>1. base.found = -1 /\ base.cursor = 1
        BY DEF base
      <3>2. Searched(base, p, q, header, value, 0)
        BY <3>1 DEF Searched
      <3> QED BY <1>3, <2>2, <2>8, <3>2
    <2>10. ASSUME NEW n \in 0 .. B - 1, n \in T PROVE n + 1 \in T
      <3> DEFINE r == u[n]
                 b == n + 1
                 c == Advance(q, r.cursor, p[b])
      <3>1. b \in 1 .. B /\ b - 1 = n /\ b \in 0 .. B /\ n \in Nat /\ r \in R
            /\ Searched(r, p, q, header, value, n)
        BY <1>3, <2>10
      <3>2. u[b] = After(b, r) /\ u[b] \in R
        BY <2>3, <2>8, <3>1
      <3>3. CASE r.found >= 0
        <4>1. u[b] = r
          BY <3>2, <3>3 DEF After
        <4>2. r.found # -1 /\ r.found \in Int
          BY <3>1, <3>3 DEF R
        <4>3. r.found + 1 \in 1 .. n => r.found + 1 \in 1 .. b
          BY <3>1
        <4>4. Searched(r, p, q, header, value, b)
          BY <3>1, <4>2, <4>3 DEF Searched
        <4> QED BY <3>1, <3>2, <4>1, <4>4
      <3>4. CASE ~(r.found >= 0)
        <4>1. r.found = -1 /\ r.cursor \in 1 .. K + 1
          BY <3>1, <3>4 DEF Searched, R
        <4>2. /\ \A k \in 1 .. n : ~Matches(k)
              /\ \A i \in 1 .. r.cursor - 1 : \A k \in b .. B : q[i] < p[k]
          BY <3>1, <4>1 DEF Searched, B
        <4>3. p[b] \in Int /\ b \in b .. B
          BY <1>3, <3>1
        <4>4. /\ c \in 1 .. K + 1 /\ \A i \in 1 .. c - 1 : q[i] < p[b]
              /\ c <= K => p[b] <= q[c]
          BY <1>2, <4>1, <4>2, <4>3, CursorAdvances DEF K
        <4>5. BlockMatches(view, p, q, b, c, value) <=> Matches(b)
          BY <3>1, <4>4, BlockSearched DEF B, K, q
        <4>6. u[b] = [cursor |-> c, found |-> IF Matches(b) THEN b - 1 ELSE -1]
          BY <3>2, <3>4, <4>5 DEF After
        <4> HIDE DEF c, r
        <4>7. CASE Matches(b)
          <5>1. u[b].found = n /\ n # -1 /\ n + 1 \in 1 .. b /\ n + 1 = b
            BY <3>1, <4>6, <4>7
          <5>2. Searched(u[b], p, q, header, value, b)
            BY <3>1, <4>2, <4>7, <5>1 DEF Searched
          <5> QED BY <3>1, <3>2, <5>2
        <4>8. CASE ~Matches(b)
          <5>1. u[b].found = -1 /\ u[b].cursor = c
            BY <4>6, <4>8
          <5>2. \A k \in 1 .. b : ~Matches(k)
            <6>1. \A k \in 1 .. b : k \in 1 .. n \/ k = b
              BY <3>1
            <6> QED BY <4>2, <4>8, <6>1
          <5>3. ASSUME NEW i \in 1 .. c - 1, NEW k \in b + 1 .. B PROVE q[i] < p[k]
            <6>1. k \in 1 .. B /\ b < k /\ i \in 1 .. K
              BY <3>1, <1>3, <1>4, <4>4
            <6>2. p[b] < p[k] /\ p[b] \in Nat /\ p[k] \in Nat /\ q[i] \in Nat
              BY <1>3, <1>4, <3>1, <6>1
            <6>3. q[i] < p[b]
              BY <4>4
            <6> QED BY <6>2, <6>3
          <5>4. Searched(u[b], p, q, header, value, b)
            BY <5>1, <5>2, <5>3 DEF Searched, B
          <5> QED BY <3>1, <3>2, <5>4
        <4> QED BY <4>7, <4>8
      <3> QED BY <3>3, <3>4
    <2> HIDE DEF T
    <2>11. 0 .. B \subseteq T
      BY <1>3, <2>9, <2>10, UpToInduction
    <2>12. Searched(u[B], p, q, header, value, B)
      <3>1. B \in 0 .. B
        BY <1>3
      <3> QED BY <2>11, <3>1 DEF T
    <2> QED BY <2>1, <2>12 DEF Searched, B
  <1> QED BY <1>6, <1>7, <1>8

-----------------------------------------------------------------------------
(* The queries.                                                            *)

LEMMA LeastOfOne == ASSUME NEW x \in Int PROVE Abstract!Least({x}) = x
  <1> QED BY LeastIs

LEMMA ViewAsked ==
    ASSUME file \in Seq(Keywords), ViewFits(file, view), NEW start, NEW end, NEW index \in Int
    PROVE  LET occurence == IF index < 0 THEN index + NumNamedKw(view, start) ELSE index
               nth   == IF index < 0 THEN index + Abstract!Cardinality(Abstract!Named(start)) ELSE index
               first == IF start = NoName THEN {1} ELSE Abstract!Nth(Abstract!Named(start), nth)
               block == Blockview(view, start, end, occurence)
           IN  occurence >= 0 =>
                   /\ HasBlock(view, start, occurence) <=> first # {}
                   /\ HasBlock(view, start, occurence) =>
                          /\ block \in Seq(DOMAIN file)
                          /\ Contents(block) = Abstract!Keep(Abstract!Least(first),
                                                   Abstract!Until(Abstract!Least(first), end))
  <1> DEFINE list == view.kw_list
             N == Len(list)
             P == NamedIn(file, list, start)
             p == Places(file, list, start)
             occurence == IF index < 0 THEN index + NumNamedKw(view, start) ELSE index
             nth   == IF index < 0 THEN index + Abstract!Cardinality(Abstract!Named(start)) ELSE index
             first == IF start = NoName THEN {1} ELSE Abstract!Nth(Abstract!Named(start), nth)
             block == Blockview(view, start, end, occurence)
  <1>1. list \in Seq(DOMAIN file) /\ N \in Nat
    BY ContentsShape DEF ViewFits
  <1>2. /\ ListsPlaces(p, P) /\ P \in SUBSET (1 .. N)
        /\ HasKw(view, start) <=> P # {}
        /\ HasKw(view, start) => view.kw_index[start] = p
        /\ NumNamedKw(view, start) = Len(p)
    BY ViewIndex
  <1>3. Abstract!Named(start) = P
    BY <1>1, NamedOfView
  <1>4. Len(p) \in Nat /\ \A i \in 1 .. Len(p) : p[i] \in Nat /\ p[i] + 1 \in P
    <2> HIDE DEF p, P
    <2> QED BY <1>2, PlacesShape
  <1>5. Abstract!Cardinality(P) = Len(p)
    BY <1>2, SameCount, CountOfPlaces
  <1>6. nth = occurence /\ occurence \in Int
    <2> HIDE DEF p, P
    <2> QED BY <1>2, <1>3, <1>4, <1>5
  <1> HIDE DEF occurence, p, P, list, nth
  <1> SUFFICES ASSUME occurence >= 0
               PROVE  /\ HasBlock(view, start, occurence) <=> first # {}
                      /\ HasBlock(view, start, occurence) =>
                             /\ block \in Seq(DOMAIN file)
                             /\ Contents(block) = Abstract!Keep(Abstract!Least(first),
                                                      Abstract!Until(Abstract!Least(first), end))
    BY DEF occurence, nth
  <1>7. CASE start = NoName
    <2>1. first = {1} /\ HasBlock(view, start, occurence)
      BY <1>7 DEF HasBlock
    <2>2. Abstract!Least(first) = 1
      BY <2>1, LeastOfOne
    <2>3. block = SubSeq(view.kw_list, 0 + 1, Stop(view, 0, end))
      BY <1>7 DEF Blockview
    <2>4. 0 \in 0 .. Len(view.kw_list) /\ 0 + 1 = 1
      BY <1>1 DEF list
    <2>5. block \in Seq(DOMAIN file) /\ Contents(block) = Abstract!Keep(0 + 1, Abstract!Until(0 + 1, end))
      <3> HIDE DEF block
      <3> QED BY <1>1, <2>3, <2>4, BlockKept DEF list
    <2> HIDE DEF block, first
    <2> QED BY <2>1, <2>2, <2>4, <2>5
  <1>8. CASE start # NoName
    <2>1. first = IF occurence < Len(p) THEN {p[occurence + 1] + 1} ELSE {}
      <3>1. occurence \in Nat
        BY <1>6
      <3>2. first = Abstract!Nth(P, occurence)
        BY <1>3, <1>6, <1>8
      <3> QED BY <1>2, <3>1, <3>2, NthPlace
    <2>2. HasBlock(view, start, occurence) <=> occurence < Len(p)
      BY <1>2, <1>8 DEF HasBlock
    <2> HIDE DEF first
    <2>3. CASE occurence < Len(p)
      <3> DEFINE begin == p[occurence + 1]
      <3>1. occurence + 1 \in 1 .. Len(p)
        BY <1>4, <1>6, <2>3
      <3>2. begin \in Nat /\ begin + 1 \in P /\ begin + 1 \in 1 .. N
        BY <1>2, <1>4, <3>1
      <3>3. begin \in 0 .. Len(view.kw_list) /\ first = {begin + 1}
        BY <1>1, <2>1, <2>3, <3>2 DEF list
      <3>4. Abstract!Least(first) = begin + 1
        BY <3>2, <3>3, LeastOfOne
      <3>5. HasKw(view, start)
        BY <1>2, <3>2
      <3>6. block = SubSeq(view.kw_list, begin + 1, Stop(view, begin, end))
        BY <1>2, <1>8, <3>5 DEF Blockview
      <3> HIDE DEF begin, block
      <3>7. block \in Seq(DOMAIN file) /\ Contents(block) = Abstract!Keep(begin + 1, Abstract!Until(begin + 1, end))
        BY <1>1, <3>3, <3>6, BlockKept DEF list
      <3> QED BY <2>2, <2>3, <3>3, <3>4, <3>7
    <2>4. CASE ~(occurence < Len(p))
      BY <2>1, <2>2, <2>4
    <2> QED BY <2>3, <2>4
  <1> QED BY <1>7, <1>8

LEMMA StepAsked ==
    ASSUME file \in Seq(Keywords), ViewFits(file, view), NEW header, NEW value
    PROVE  LET f     == FindBlock(view, header, value)
               block == Blockview(view, SEQNUM, SEQNUM, f)
               steps == {s \in Abstract!Steps : /\ Abstract!Headers(s, header) # {}
                                                /\ Abstract!HeaderValue(s, header) = value}
           IN  /\ f = -1 <=> steps = {}
               /\ f # -1 => /\ block \in Seq(DOMAIN file)
                            /\ Contents(block) = Abstract!Keep(Abstract!Least(steps),
                                                     Abstract!Until(Abstract!Least(steps), SEQNUM))
  <1> DEFINE list == view.kw_list
             N == Len(list)
             P == NamedIn(file, list, SEQNUM)
             p == Places(file, list, SEQNUM)
             f == FindBlock(view, header, value)
             block == Blockview(view, SEQNUM, SEQNUM, f)
             steps == {s \in Abstract!Steps : /\ Abstract!Headers(s, header) # {}
                                              /\ Abstract!HeaderValue(s, header) = value}
  <1>1. list \in Seq(DOMAIN file) /\ N \in Nat
    BY ContentsShape DEF ViewFits
  <1>2. /\ ListsPlaces(p, P) /\ P \in SUBSET (1 .. N)
        /\ HasKw(view, SEQNUM) <=> P # {}
        /\ HasKw(view, SEQNUM) => view.kw_index[SEQNUM] = p
    BY ViewIndex
  <1>3. Abstract!Steps = P
    BY <1>1, NamedOfView DEF Abstract!Steps
  <1>4. steps = {s \in P : StepMatches(s, header, value)}
    BY <1>3 DEF StepMatches
  <1>5. /\ \/ f = -1
           \/ f + 1 \in 1 .. Len(p) /\ f \in Nat /\ StepMatches(p[f + 1] + 1, header, value)
        /\ \A k \in 1 .. (IF f = -1 THEN Len(p) ELSE f) : ~StepMatches(p[k] + 1, header, value)
    BY FirstFound
  <1> HIDE DEF f, p, P, steps, list
  <1>6. /\ Len(p) \in Nat /\ \A i \in 1 .. Len(p) : p[i] \in Nat /\ p[i] + 1 \in P
        /\ \A i, j \in 1 .. Len(p) : i < j <=> p[i] < p[j]
        /\ \A m \in P : m \in Int /\ \E i \in 1 .. Len(p) : p[i] + 1 = m
    BY <1>2, PlacesShape
  <1>7. CASE f = -1
    <2>1. steps = {}
      <3> SUFFICES ASSUME NEW s \in P, StepMatches(s, header, value) PROVE FALSE
        BY <1>4
      <3>1. PICK i \in 1 .. Len(p) : p[i] + 1 = s
        BY <1>6
      <3> QED BY <1>5, <1>7, <3>1
    <2> QED BY <1>7, <2>1 DEF f, steps
  <1>8. CASE f # -1
    <2> DEFINE begin == p[f + 1]
    <2>1. f + 1 \in 1 .. Len(p) /\ f \in Nat /\ StepMatches(begin + 1, header, value)
      BY <1>5, <1>8
    <2>2. begin \in Nat /\ begin + 1 \in P /\ begin + 1 \in 1 .. N
      BY <1>2, <1>6, <2>1
    <2>3. begin + 1 \in steps
      BY <1>4, <2>1, <2>2
    <2>4. \A s \in steps : begin + 1 <= s
      <3> SUFFICES ASSUME NEW s \in P, StepMatches(s, header, value) PROVE begin + 1 <= s
        BY <1>4
      <3>1. PICK i \in 1 .. Len(p) : p[i] + 1 = s
        BY <1>6
      <3>2. ~(i \in 1 .. f)
        BY <1>5, <1>8, <3>1
      <3>3. ~(i < f + 1)
        BY <2>1, <3>2
      <3>4. ~(p[i] < begin) /\ p[i] \in Nat
        BY <1>6, <2>1, <3>3
      <3> HIDE DEF begin
      <3> QED BY <2>2, <3>1, <3>4
    <2>5. steps \in SUBSET Int
      BY <1>4, <1>6
    <2>6. Abstract!Least(steps) = begin + 1
      BY <2>3, <2>4, <2>5, LeastIs
    <2>7. begin \in 0 .. Len(view.kw_list)
      BY <1>1, <2>2 DEF list
    <2>8. block = SubSeq(view.kw_list, begin + 1, Stop(view, begin, SEQNUM))
      <3>1. SEQNUM # NoName
        BY FileViewAssumption
      <3>2. HasKw(view, SEQNUM)
        BY <1>2, <2>2
      <3> QED BY <1>2, <3>1, <3>2 DEF Blockview
    <2> HIDE DEF begin, block
    <2>9. /\ block \in Seq(DOMAIN file)
          /\ Contents(block) = Abstract!Keep(begin + 1, Abstract!Until(begin + 1, SEQNUM))
      BY <1>1, <2>7, <2>8, BlockKept DEF list
    <2>10. steps # {}
      BY <2>3
    <2> QED BY <1>8, <2>6, <2>9, <2>10 DEF f, steps, block
  <1> QED BY <1>7, <1>8 DEF f, steps

LEMMA DateAsked ==
    ASSUME file \in Seq(Keywords), ViewFits(file, view), NEW n \in Nat
    PROVE  LET block == Indexed(file, Blockview(view, SEQNUM, SEQNUM, n))
               steps == {s \in Abstract!Nth(Abstract!Steps, n) : Abstract!Headers(s, INTEHEAD) # {}}
           IN  /\ HasBlock(view, SEQNUM, n) /\ HasKw(block, INTEHEAD) <=> steps # {}
               /\ HasBlock(view, SEQNUM, n) /\ HasKw(block, INTEHEAD) =>
                      file[GetKw(block, INTEHEAD, 0)].value
                          = Abstract!HeaderValue(Abstract!Least(steps), INTEHEAD)
  <1> DEFINE list == view.kw_list
             N == Len(list)
             P == NamedIn(file, list, SEQNUM)
             p == Places(file, list, SEQNUM)
             kws == Blockview(view, SEQNUM, SEQNUM, n)
             block == Indexed(file, kws)
             steps == {s \in Abstract!Nth(Abstract!Steps, n) : Abstract!Headers(s, INTEHEAD) # {}}
             begin == p[n + 1]
  <1>1. list \in Seq(DOMAIN file) /\ N \in Nat /\ \A k \in 1 .. N : Contents(list)[k] = file[list[k]]
    BY ContentsShape DEF ViewFits
  <1>2. /\ ListsPlaces(p, P) /\ P \in SUBSET (1 .. N)
        /\ HasKw(view, SEQNUM) <=> P # {}
        /\ HasKw(view, SEQNUM) => view.kw_index[SEQNUM] = p
        /\ NumNamedKw(view, SEQNUM) = Len(p)
    BY ViewIndex
  <1>3. Abstract!Steps = P
    BY <1>1, NamedOfView DEF Abstract!Steps
  <1>4. SEQNUM # NoName
    BY FileViewAssumption
  <1> HIDE DEF p, P, list
  <1>5. Len(p) \in Nat /\ \A i \in 1 .. Len(p) : p[i] \in Nat /\ p[i] + 1 \in P
    BY <1>2, PlacesShape
  <1>6. Abstract!Nth(Abstract!Steps, n) = IF n < Len(p) THEN {begin + 1} ELSE {}
    BY <1>2, <1>3, NthPlace
  <1>7. HasBlock(view, SEQNUM, n) <=> n < Len(p)
    BY <1>2, <1>4 DEF HasBlock
  <1>8. CASE ~(n < Len(p))
    <2>1. steps = {} /\ ~HasBlock(view, SEQNUM, n)
      BY <1>6, <1>7, <1>8
    <2> QED BY <2>1
  <1>9. CASE n < Len(p)
    <2> DEFINE stop == Stop(view, begin, SEQNUM)
               M == NamedIn(file, kws, INTEHEAD)
               r == Places(file, kws, INTEHEAD)
               heads == Abstract!Headers(begin + 1, INTEHEAD)
    <2>1. begin \in Nat /\ begin + 1 \in P /\ begin + 1 \in 1 .. N
      <3>1. n + 1 \in 1 .. Len(p)
        BY <1>5, <1>9
      <3> QED BY <1>2, <1>5, <3>1
    <2>2. begin \in 0 .. Len(view.kw_list)
      BY <1>1, <2>1 DEF list
    <2>3. kws = SubSeq(view.kw_list, begin + 1, stop)
      BY <1>2, <1>4, <2>1 DEF Blockview
    <2> HIDE DEF begin, kws
    <2>4. /\ kws \in Seq(DOMAIN file)
          /\ Abstract!Until(begin + 1, SEQNUM) = begin + 1 .. stop
          /\ Len(kws) = stop - begin
          /\ \A k \in 1 .. Len(kws) : kws[k] = list[begin + k]
      BY <1>1, <2>2, <2>3, BlockKept DEF list
    <2>5. stop \in begin .. N
      BY <1>1, <2>2, BlockEnds DEF list
    <2>6. ViewFits(file, block) /\ block.kw_list = kws
      BY <2>4 DEF ViewFits, Indexed
    <2>7. DOMAIN kws = 1 .. Len(kws)
      BY <2>4, LenProperties
    <2> HIDE DEF stop, block
    <2>8. /\ ListsPlaces(r, M) /\ M \in SUBSET (1 .. Len(kws))
          /\ HasKw(block, INTEHEAD) <=> M # {}
          /\ HasKw(block, INTEHEAD) => block.kw_index[INTEHEAD] = r
      BY <2>6, ViewIndex
    <2>9. \A k \in 1 .. Len(kws) : k \in M <=> file[list[begin + k]].name = INTEHEAD
      BY <2>4, <2>7 DEF NamedIn
    <2>10. heads = {k \in begin + 1 .. stop : file[list[k]].name = INTEHEAD}
      <3>1. Abstract!Named(INTEHEAD) = NamedIn(file, list, INTEHEAD)
        BY <1>1, NamedOfView DEF list
      <3>2. DOMAIN list = 1 .. N
        BY <1>1, LenProperties
      <3>3. \A k \in begin + 1 .. stop : k \in 1 .. N
        BY <1>1, <2>1, <2>5
      <3> QED BY <2>4, <3>1, <3>2, <3>3 DEF Abstract!Headers, NamedIn
    <2> HIDE DEF M, r, heads, N
    <2>11. \A m \in heads : m \in Int /\ m - begin \in M
      <3> SUFFICES ASSUME NEW m \in heads PROVE m \in Int /\ m - begin \in M
        OBVIOUS
      <3>1. m \in begin + 1 .. stop /\ file[list[m]].name = INTEHEAD
        BY <2>10
      <3>2. m \in Int /\ m - begin \in 1 .. Len(kws) /\ begin + (m - begin) = m
        BY <2>1, <2>4, <2>5, <3>1
      <3> QED BY <2>9, <3>1, <3>2
    <2>12. \A k \in M : k \in Nat /\ begin + k \in heads
      <3> SUFFICES ASSUME NEW k \in M PROVE k \in Nat /\ begin + k \in heads
        OBVIOUS
      <3>1. k \in 1 .. Len(kws) /\ file[list[begin + k]].name = INTEHEAD
        BY <2>8, <2>9
      <3>2. k \in Nat /\ begin + k \in begin + 1 .. stop
        BY <2>1, <2>4, <2>5, <3>1
      <3> QED BY <2>10, <3>1, <3>2
    <2>13. Abstract!Nth(Abstract!Steps, n) = {begin + 1}
      BY <1>6, <1>9 DEF begin
    <2>14. CASE M = {}
      <3>1. heads = {}
        BY <2>11, <2>14
      <3>2. steps = {}
        BY <2>13, <3>1 DEF heads
      <3>3. ~HasKw(block, INTEHEAD)
        BY <2>8, <2>14
      <3> HIDE DEF steps
      <3> QED BY <3>2, <3>3 DEF block, kws, steps
    <2>15. CASE M # {}
      <3>1. PICK k \in M : TRUE
        BY <2>15
      <3>2. heads # {}
        BY <2>12, <3>1
      <3>3. steps = {begin + 1}
        BY <2>13, <3>2 DEF heads
      <3>4. Abstract!Least(steps) = begin + 1
        BY <2>1, <3>3, LeastOfOne
      <3>5. /\ Len(r) \in Nat /\ \A i \in 1 .. Len(r) : r[i] \in Nat /\ r[i] + 1 \in M
            /\ \A i, j \in 1 .. Len(r) : i < j <=> r[i] < r[j]
            /\ \A m \in M : m \in Int /\ \E i \in 1 .. Len(r) : r[i] + 1 = m
        BY <2>8, PlacesShape
      <3>6. 1 \in 1 .. Len(r) /\ r[1] \in Nat /\ r[1] + 1 \in M
        BY <3>1, <3>5
      <3> DEFINE x == begin + (r[1] + 1)
      <3>7. x \in heads /\ x \in Int
        BY <2>11, <2>12, <3>6
      <3>8. \A m \in heads : x <= m
        <4> SUFFICES ASSUME NEW m \in heads PROVE x <= m
          OBVIOUS
        <4>1. m \in Int /\ m - begin \in M
          BY <2>11
        <4>2. PICK i \in 1 .. Len(r) : r[i] + 1 = m - begin
          BY <3>5, <4>1
        <4>3. r[i] \in Nat /\ ~(r[i] < r[1])
          <5>1. ~(i < 1)
            BY <3>5
          <5> QED BY <3>5, <3>6, <5>1
        <4> QED BY <2>1, <3>6, <4>1, <4>2, <4>3
      <3>9. heads \in SUBSET Int
        BY <2>11
      <3>10. Abstract!Least(heads) = x
        BY <3>7, <3>8, <3>9, LeastIs
      <3>11. x \in 1 .. N
        <4>1. x \in begin + 1 .. stop
          BY <2>10, <3>7
        <4> HIDE DEF x
        <4>2. N \in Nat
          BY <1>1 DEF N
        <4> QED BY <2>1, <2>5, <4>1, <4>2
      <3>12. Abstract!HeaderValue(begin + 1, INTEHEAD) = file[list[x]].value
        BY <1>1, <3>10, <3>11 DEF Abstract!HeaderValue, heads, list, N
      <3>13. GetKw(block, INTEHEAD, 0) = list[x]
        <4>1. HasKw(block, INTEHEAD)
          BY <2>8, <2>15
        <4>2. GetKw(block, INTEHEAD, 0) = kws[r[0 + 1] + 1]
          BY <2>6, <2>8, <4>1 DEF GetKw
        <4>3. r[1] + 1 \in 1 .. Len(kws)
          BY <2>8, <3>6
        <4> QED BY <2>4, <4>2, <4>3
      <3> HIDE DEF x
      <3>14. /\ HasBlock(view, SEQNUM, n) /\ HasKw(block, INTEHEAD) /\ steps # {}
             /\ file[GetKw(block, INTEHEAD, 0)].value = Abstract!HeaderValue(Abstract!Least(steps), INTEHEAD)
        BY <1>7, <1>9, <2>8, <2>15, <3>3, <3>4, <3>12, <3>13
      <3> HIDE DEF steps
      <3> QED BY <3>14 DEF block, kws, steps
    <2> QED BY <2>14, <2>15
  <1> QED BY <1>8, <1>9

-----------------------------------------------------------------------------
(* The inductive invariant.  The client works with a view of the file, and *)
(* an answer can become one; and restart_get_kw keeps its promise.         *)

FileInv ==
    /\ file \in Seq(Keywords)
    /\ ViewFits(file, global_view) /\ global_view.kw_list = [n \in DOMAIN file |-> n]
    /\ ViewFits(file, view)
    /\ answer.what = "view" => answer.list \in Seq(DOMAIN file)

LEMMA IndexedFits ==
    ASSUME NEW kws, NEW list \in Seq(DOMAIN kws)
    PROVE  ViewFits(kws, Indexed(kws, list)) /\ Indexed(kws, list).kw_list = list
  <1>1. Indexed(kws, list).kw_list = list
    BY DEF Indexed
  <1> QED BY <1>1 DEF ViewFits

LEMMA InitFits == Init => FileInv
  <1> SUFFICES ASSUME Init PROVE FileInv
    OBVIOUS
  <1>1. /\ file = <<>> /\ view = global_view /\ answer = Silent
        /\ global_view = [kw_list |-> <<>>, kw_index |-> <<>>]
    BY DEF Init
  <1>2. file \in Seq(Keywords) /\ DOMAIN file = {} /\ <<>> \in Seq(DOMAIN file)
    BY <1>1
  <1>3. MakeIndex(file, <<>>) = <<>>
    <2>1. {file[<<>>[n]].name : n \in DOMAIN <<>>} = {}
      OBVIOUS
    <2>2. MakeIndex(file, <<>>) = [name \in {} |-> Places(file, <<>>, name)]
      BY <2>1 DEF MakeIndex
    <2> QED BY <2>2
  <1>4. global_view = Indexed(file, <<>>)
    BY <1>1, <1>3 DEF Indexed
  <1>5. ViewFits(file, global_view) /\ global_view.kw_list = <<>>
    BY <1>2, <1>4, IndexedFits
  <1>6. <<>> = [n \in DOMAIN file |-> n]
    BY <1>2
  <1>7. answer.what = "none"
    BY <1>1 DEF Silent
  <1> QED BY <1>1, <1>2, <1>5, <1>6, <1>7 DEF FileInv

LEMMA ScanFits ==
    ASSUME FileInv, NEW kw \in Keywords, Scan(kw)
    PROVE  FileInv'
  <1> DEFINE N == Len(file)
             list == Append(global_view.kw_list, Len(file'))
  <1>1. /\ answer = Silent /\ answer' = answer /\ file' = Append(file, kw)
        /\ global_view' = Indexed(file', list) /\ view' = global_view'
    BY DEF Scan
  <1>2. /\ file \in Seq(Keywords) /\ N \in Nat /\ DOMAIN file = 1 .. N
        /\ global_view.kw_list \in Seq(DOMAIN file) /\ global_view.kw_list = [n \in DOMAIN file |-> n]
    BY LenProperties DEF FileInv, ViewFits
  <1>3. file' \in Seq(Keywords) /\ Len(file') = N + 1 /\ DOMAIN file' = 1 .. N + 1
    BY <1>1, <1>2, AppendProperties, LenProperties
  <1>4. list \in Seq(DOMAIN file') /\ list = [n \in DOMAIN file' |-> n]
    <2> DEFINE old == global_view.kw_list
    <2>1. old \in [1 .. N -> Nat] /\ \A n \in 1 .. N : old[n] = n
      BY <1>2
    <2>2. old \in Seq(Nat) /\ Len(old) = N
      BY <1>2, <2>1, WrittenOut
    <2>3. list = Append(old, N + 1)
      BY <1>3
    <2> HIDE DEF old, list
    <2>4. /\ list \in Seq(Nat) /\ Len(list) = N + 1 /\ list[N + 1] = N + 1
          /\ \A n \in 1 .. N : list[n] = old[n]
      BY <1>2, <2>2, <2>3, AppendProperties
    <2>5. DOMAIN list = 1 .. N + 1
      BY <2>4, LenProperties
    <2>6. \A n \in 1 .. N + 1 : list[n] = n
      <3> SUFFICES ASSUME NEW n \in 1 .. N + 1 PROVE list[n] = n
        OBVIOUS
      <3>1. n \in 1 .. N \/ n = N + 1
        BY <1>2
      <3> QED BY <2>1, <2>4, <3>1
    <2>7. list = [n \in 1 .. N + 1 |-> list[n]]
      <3>1. list \in [1 .. Len(list) -> Nat]
        BY <2>4, LenProperties
      <3> QED BY <2>4, <3>1
    <2>8. list = [n \in 1 .. N + 1 |-> n]
      BY <2>6, <2>7
    <2>9. [n \in 1 .. N + 1 |-> n] \in Seq(1 .. N + 1)
      <3>1. N + 1 \in Nat /\ [n \in 1 .. N + 1 |-> n] \in [1 .. N + 1 -> 1 .. N + 1]
        BY <1>2
      <3> QED BY <3>1, WrittenOut
    <2> QED BY <1>3, <2>8, <2>9
  <1> HIDE DEF list
  <1>5. ViewFits(file', global_view') /\ global_view'.kw_list = list
    BY <1>1, <1>4, IndexedFits
  <1>6. answer'.what = "none"
    BY <1>1 DEF Silent
  <1>7. ViewFits(file, global_view)' /\ ViewFits(file, view)'
    BY <1>1, <1>5
  <1> QED BY <1>3, <1>4, <1>5, <1>6, <1>7 DEF FileInv

(* A query leaves the file and the views alone.                            *)
LEMMA QueryFits ==
    ASSUME FileInv, UNCHANGED <<file, global_view, view>>,
           answer'.what = "view" => answer'.list \in Seq(DOMAIN file)
    PROVE  FileInv'
  <1>1. ViewFits(file, global_view)' <=> ViewFits(file, global_view)
    OBVIOUS
  <1>2. ViewFits(file, view)' <=> ViewFits(file, view)
    OBVIOUS
  <1> QED BY <1>1, <1>2 DEF FileInv

-----------------------------------------------------------------------------
(* Every step is one of RestartSteps, or changes nothing there.            *)

(* The answer as it is seen there.                                         *)
Shown ==
    IF answer.what \in {"view", "value", "missing"}
    THEN [asked |-> answer.asked, what |-> answer.what,
          kws |-> Contents(answer.list), value |-> answer.value]
    ELSE [asked |-> <<>>, what |-> "none", kws |-> <<>>, value |-> 0]

LEMMA NothingIn == Contents(<<>>) = <<>>
  <1>1. DOMAIN <<>> = {}
    OBVIOUS
  <1> QED BY <1>1 DEF Contents

LEMMA Answered ==
    ASSUME NEW asked, NEW list, NEW v, UNCHANGED <<file, view>>
    PROVE  /\ Contents(view.kw_list)' = Contents(view.kw_list)
           /\ answer' = Throws(asked) => Shown' = Abstract!Missing(asked)
           /\ answer' = ViewOf(asked, list) => Shown' = Abstract!View(asked, Contents(list))
           /\ answer' = ValueOf(asked, v) => Shown' = Abstract!Value(asked, v)
  <1>1. Contents(view.kw_list)' = Contents(view.kw_list)
    BY DEF Contents
  <1>2. Contents(answer.list)' = [n \in DOMAIN answer'.list |-> file[answer'.list[n]]]
    BY DEF Contents
  <1>3. answer' = Throws(asked) => Shown' = Abstract!Missing(asked)
    <2> SUFFICES ASSUME answer' = Throws(asked) PROVE Shown' = Abstract!Missing(asked)
      OBVIOUS
    <2>1. answer' = [asked |-> asked, what |-> "missing", list |-> <<>>, value |-> 0]
      BY DEF Throws, Silent
    <2>2. Contents(answer.list)' = <<>>
      BY <1>2, <2>1, NothingIn DEF Contents
    <2>3. Shown' = [asked |-> asked, what |-> "missing", kws |-> <<>>, value |-> 0]
      BY <2>1, <2>2 DEF Shown
    <2>4. Abstract!Missing(asked) = [asked |-> asked, what |-> "missing", kws |-> <<>>, value |-> 0]
      <3>1. ASSUME NEW r, r = Abstract!Missing(asked)
            PROVE  r = [asked |-> asked, what |-> "missing", kws |-> <<>>, value |-> 0]
        BY <3>1 DEF Abstract!Missing, Abstract!Silent
      <3> QED BY <3>1
    <2> QED BY <2>3, <2>4
  <1>4. answer' = ViewOf(asked, list) => Shown' = Abstract!View(asked, Contents(list))
    <2> SUFFICES ASSUME answer' = ViewOf(asked, list) PROVE Shown' = Abstract!View(asked, Contents(list))
      OBVIOUS
    <2>1. answer' = [asked |-> asked, what |-> "view", list |-> list, value |-> 0]
      BY DEF ViewOf, Throws, Silent
    <2>2. Contents(answer.list)' = Contents(list)
      BY <1>2, <2>1 DEF Contents
    <2>3. Shown' = [asked |-> asked, what |-> "view", kws |-> Contents(list), value |-> 0]
      BY <2>1, <2>2 DEF Shown
    <2>4. Abstract!View(asked, Contents(list)) = [asked |-> asked, what |-> "view", kws |-> Contents(list), value |-> 0]
      <3>1. ASSUME NEW r, r = Abstract!View(asked, Contents(list))
            PROVE  r = [asked |-> asked, what |-> "view", kws |-> Contents(list), value |-> 0]
        BY <3>1 DEF Abstract!View, Abstract!Missing, Abstract!Silent
      <3> QED BY <3>1
    <2> QED BY <2>3, <2>4
  <1>5. answer' = ValueOf(asked, v) => Shown' = Abstract!Value(asked, v)
    <2> SUFFICES ASSUME answer' = ValueOf(asked, v) PROVE Shown' = Abstract!Value(asked, v)
      OBVIOUS
    <2>1. answer' = [asked |-> asked, what |-> "value", list |-> <<>>, value |-> v]
      BY DEF ValueOf, Throws, Silent
    <2>2. Contents(answer.list)' = <<>>
      BY <1>2, <2>1, NothingIn DEF Contents
    <2>3. Shown' = [asked |-> asked, what |-> "value", kws |-> <<>>, value |-> v]
      BY <2>1, <2>2 DEF Shown
    <2>4. Abstract!Value(asked, v) = [asked |-> asked, what |-> "value", kws |-> <<>>, value |-> v]
      <3>1. ASSUME NEW r, r = Abstract!Value(asked, v)
            PROVE  r = [asked |-> asked, what |-> "value", kws |-> <<>>, value |-> v]
        BY <3>1 DEF Abstract!Value, Abstract!Missing, Abstract!Silent
      <3> QED BY <3>1
    <2> QED BY <2>3, <2>4
  <1> QED BY <1>1, <1>3, <1>4, <1>5

LEMMA AskBlockViewStep ==
    ASSUME FileInv, NEW start, NEW end, NEW index \in Int, AskBlockView(start, end, index)
    PROVE  Abstract!AskView(start, end, index) /\ FileInv'
  <1> DEFINE occurence == IF index < 0 THEN index + NumNamedKw(view, start) ELSE index
             asked == <<start, end, index>>
             nth   == IF index < 0 THEN index + Abstract!Cardinality(Abstract!Named(start)) ELSE index
             first == IF start = NoName THEN {1} ELSE Abstract!Nth(Abstract!Named(start), nth)
             block == Blockview(view, start, end, occurence)
             kept  == Abstract!Keep(Abstract!Least(first), Abstract!Until(Abstract!Least(first), end))
  <1>1. /\ file \in Seq(Keywords) /\ ViewFits(file, view)
        /\ UNCHANGED <<file, global_view, view>> /\ occurence >= 0
        /\ answer' = IF HasBlock(view, start, occurence) THEN ViewOf(asked, block) ELSE Throws(asked)
    BY DEF FileInv, AskBlockView
  <1>2. /\ HasBlock(view, start, occurence) <=> first # {}
        /\ HasBlock(view, start, occurence) => block \in Seq(DOMAIN file) /\ Contents(block) = kept
    BY <1>1, ViewAsked
  <1>3. Abstract!AskView(start, end, index) <=>
            /\ Shown' = IF first = {} THEN Abstract!Missing(asked) ELSE Abstract!View(asked, kept)
            /\ Contents(view.kw_list)' = Contents(view.kw_list)
    BY DEF Abstract!AskView, Shown
  <1> HIDE DEF block, kept, first, occurence
  <1>4. CASE HasBlock(view, start, occurence)
    <2>1. answer' = ViewOf(asked, block) /\ Contents(block) = kept /\ block \in Seq(DOMAIN file) /\ first # {}
      BY <1>1, <1>2, <1>4
    <2>2. Shown' = Abstract!View(asked, kept) /\ Contents(view.kw_list)' = Contents(view.kw_list)
      BY <1>1, <2>1, Answered
    <2>3. answer'.list = block
      BY <2>1 DEF ViewOf, Throws, Silent
    <2>4. FileInv'
      BY <1>1, <2>1, <2>3, QueryFits
    <2> QED BY <1>3, <2>1, <2>2, <2>4
  <1>5. CASE ~HasBlock(view, start, occurence)
    <2>1. answer' = Throws(asked) /\ first = {}
      BY <1>1, <1>2, <1>5
    <2>2. Shown' = Abstract!Missing(asked) /\ Contents(view.kw_list)' = Contents(view.kw_list)
      BY <1>1, <2>1, Answered
    <2>3. answer'.what # "view"
      BY <2>1 DEF Throws, Silent
    <2>4. FileInv'
      BY <1>1, <2>3, QueryFits
    <2> QED BY <1>3, <2>1, <2>2, <2>4
  <1> QED BY <1>4, <1>5

LEMMA AskRestartViewStep ==
    ASSUME FileInv, NEW header, NEW value, AskRestartView(header, value)
    PROVE  Abstract!AskStep(header, value) /\ FileInv'
  <1> DEFINE asked == <<header, value>>
             f     == FindBlock(view, header, value)
             block == Blockview(view, SEQNUM, SEQNUM, f)
             steps == {s \in Abstract!Steps : /\ Abstract!Headers(s, header) # {}
                                              /\ Abstract!HeaderValue(s, header) = value}
             kept  == Abstract!Keep(Abstract!Least(steps), Abstract!Until(Abstract!Least(steps), SEQNUM))
  <1>1. /\ file \in Seq(Keywords) /\ ViewFits(file, view)
        /\ UNCHANGED <<file, global_view, view>>
        /\ answer' = IF f = -1 THEN Throws(asked) ELSE ViewOf(asked, block)
    BY DEF FileInv, AskRestartView
  <1>2. /\ f = -1 <=> steps = {}
        /\ f # -1 => block \in Seq(DOMAIN file) /\ Contents(block) = kept
    BY <1>1, StepAsked
  <1>3. Abstract!AskStep(header, value) <=>
            /\ Shown' = IF steps = {} THEN Abstract!Missing(asked) ELSE Abstract!View(asked, kept)
            /\ Contents(view.kw_list)' = Contents(view.kw_list)
    BY DEF Abstract!AskStep, Shown
  <1> HIDE DEF block, kept, steps, f
  <1>4. CASE f # -1
    <2>1. answer' = ViewOf(asked, block) /\ Contents(block) = kept /\ block \in Seq(DOMAIN file) /\ steps # {}
      BY <1>1, <1>2, <1>4
    <2>2. Shown' = Abstract!View(asked, kept) /\ Contents(view.kw_list)' = Contents(view.kw_list)
      BY <1>1, <2>1, Answered
    <2>3. answer'.list = block
      BY <2>1 DEF ViewOf, Throws, Silent
    <2>4. FileInv'
      BY <1>1, <2>1, <2>3, QueryFits
    <2> QED BY <1>3, <2>1, <2>2, <2>4
  <1>5. CASE f = -1
    <2>1. answer' = Throws(asked) /\ steps = {}
      BY <1>1, <1>2, <1>5
    <2>2. Shown' = Abstract!Missing(asked) /\ Contents(view.kw_list)' = Contents(view.kw_list)
      BY <1>1, <2>1, Answered
    <2>3. answer'.what # "view"
      BY <2>1 DEF Throws, Silent
    <2>4. FileInv'
      BY <1>1, <2>3, QueryFits
    <2> QED BY <1>3, <2>1, <2>2, <2>4
  <1> QED BY <1>4, <1>5

LEMMA AskRestartSimDateStep ==
    ASSUME FileInv, NEW n \in Nat, AskRestartSimDate(n)
    PROVE  Abstract!AskDate(n) /\ FileInv'
  <1> DEFINE asked == <<n>>
             block == Indexed(file, Blockview(view, SEQNUM, SEQNUM, n))
             date  == file[GetKw(block, INTEHEAD, 0)].value
             steps == {s \in Abstract!Nth(Abstract!Steps, n) : Abstract!Headers(s, INTEHEAD) # {}}
             shown == Abstract!HeaderValue(Abstract!Least(steps), INTEHEAD)
             there == HasBlock(view, SEQNUM, n) /\ HasKw(block, INTEHEAD)
  <1>1. /\ file \in Seq(Keywords) /\ ViewFits(file, view)
        /\ UNCHANGED <<file, global_view, view>>
        /\ answer' = IF there THEN ValueOf(asked, date) ELSE Throws(asked)
    BY DEF FileInv, AskRestartSimDate
  <1>2. (there <=> steps # {}) /\ (there => date = shown)
    BY <1>1, DateAsked
  <1>3. Abstract!AskDate(n) <=>
            /\ Shown' = IF steps = {} THEN Abstract!Missing(asked) ELSE Abstract!Value(asked, shown)
            /\ Contents(view.kw_list)' = Contents(view.kw_list)
    BY DEF Abstract!AskDate, Shown
  <1> HIDE DEF date, shown, steps, there
  <1>4. /\ answer' = IF steps = {} THEN Throws(asked) ELSE ValueOf(asked, shown)
        /\ answer'.what # "view"
    BY <1>1, <1>2 DEF ValueOf, Throws, Silent
  <1>5. /\ Contents(view.kw_list)' = Contents(view.kw_list)
        /\ Shown' = IF steps = {} THEN Abstract!Missing(asked) ELSE Abstract!Value(asked, shown)
    BY <1>1, <1>4, Answered
  <1>6. FileInv'
    BY <1>1, <1>4, QueryFits
  <1> QED BY <1>3, <1>5, <1>6

(* Turning to another view, or back; the file grows.                       *)
LEMMA Turned ==
    ASSUME (file \in Seq(Keywords))', (view.kw_list \in Seq(DOMAIN file))', answer' = Silent
    PROVE  Abstract!Turn
  <1>1. Contents(view.kw_list)' \in Seq(Keywords)
    <2> DEFINE list == view'.kw_list
               shown == [n \in DOMAIN list |-> file'[list[n]]]
    <2>1. Contents(view.kw_list)' = shown
      BY DEF Contents
    <2>2. Len(list) \in Nat /\ DOMAIN list = 1 .. Len(list) /\ \A n \in 1 .. Len(list) : list[n] \in DOMAIN file'
      BY LenProperties, ElementOfSeq
    <2>3. \A m \in DOMAIN file' : file'[m] \in Keywords
      BY LenProperties, ElementOfSeq
    <2> HIDE DEF list
    <2>4. shown \in [1 .. Len(list) -> Keywords]
      BY <2>2, <2>3
    <2> HIDE DEF shown
    <2>5. shown \in Seq(Keywords)
      BY <2>2, <2>4, WrittenOut
    <2> QED BY <2>1, <2>5
  <1>2. Contents(view.kw_list)' \in Seq(Keywords \cup OtherKeywords)
    BY <1>1
  <1>3. Shown' = Abstract!Silent
    BY DEF Shown, Silent, Abstract!Silent
  <1> QED BY <1>2, <1>3 DEF Abstract!Turn, Shown

LEMMA EnterStep == ASSUME FileInv, Enter PROVE Abstract!Turn /\ FileInv'
  <1>1. /\ file \in Seq(Keywords) /\ answer.list \in Seq(DOMAIN file)
        /\ view' = Indexed(file, answer.list) /\ answer' = Silent /\ UNCHANGED <<file, global_view>>
    BY DEF FileInv, Enter
  <1>2. ViewFits(file', view')
    BY <1>1, IndexedFits
  <1>3. ViewFits(file, view)' /\ (view.kw_list \in Seq(DOMAIN file))' /\ (file \in Seq(Keywords))'
    BY <1>1, <1>2 DEF ViewFits
  <1>4. ViewFits(file, global_view)'
    BY <1>1 DEF FileInv
  <1>5. answer'.what = "none"
    BY <1>1 DEF Silent
  <1>6. FileInv'
    BY <1>1, <1>3, <1>4, <1>5 DEF FileInv
  <1>7. Abstract!Turn
    BY <1>1, <1>3, Turned
  <1> QED BY <1>6, <1>7

LEMMA ReturnStep == ASSUME FileInv, Return PROVE Abstract!Turn /\ FileInv'
  <1>1. /\ file \in Seq(Keywords) /\ ViewFits(file, global_view)
        /\ view' = global_view /\ answer' = Silent /\ UNCHANGED <<file, global_view>>
    BY DEF FileInv, Return
  <1>2. ViewFits(file', view') /\ ViewFits(file, global_view)'
    BY <1>1
  <1>3. ViewFits(file, view)' /\ (view.kw_list \in Seq(DOMAIN file))' /\ (file \in Seq(Keywords))'
    BY <1>1, <1>2 DEF ViewFits
  <1>4. answer'.what = "none"
    BY <1>1 DEF Silent
  <1>5. FileInv'
    BY <1>1, <1>2, <1>3, <1>4 DEF FileInv
  <1>6. Abstract!Turn
    BY <1>1, <1>3, Turned
  <1> QED BY <1>5, <1>6

LEMMA ScanStep == ASSUME FileInv, NEW kw \in Keywords, Scan(kw) PROVE Abstract!Turn /\ FileInv'
  <1>1. FileInv' /\ answer' = Silent
    BY ScanFits DEF Scan
  <1>2. (file \in Seq(Keywords))' /\ (view.kw_list \in Seq(DOMAIN file))'
    BY <1>1 DEF FileInv, ViewFits
  <1> QED BY <1>1, <1>2, Turned

LEMMA RestartGetKwStep ==
    ASSUME FileInv, NEW name, NEW date, RestartGetKw(name, date)
    PROVE  UNCHANGED Abstract!vars /\ FileInv'
  <1> DEFINE index == FindSimTime(global_view, date)
             kw    == GetKw(global_view, name, index)
  <1>1. /\ UNCHANGED <<file, global_view, view>> /\ answer = Silent
        /\ answer' = IF index >= 0 /\ index < NumNamedKw(global_view, name)
                     THEN KeywordOf(<<name, date>>, kw) ELSE NoKw(<<name, date>>)
    BY DEF RestartGetKw
  <1> HIDE DEF index, kw
  <1>2. answer'.what \in {"keyword", "no keyword"}
    BY <1>1 DEF KeywordOf, NoKw, Throws, Silent
  <1>3. FileInv'
    BY <1>1, <1>2, QueryFits
  <1>4. Shown' = Shown
    <2>1. Shown = [asked |-> <<>>, what |-> "none", kws |-> <<>>, value |-> 0]
      BY <1>1 DEF Shown, Silent
    <2>2. Shown' = [asked |-> <<>>, what |-> "none", kws |-> <<>>, value |-> 0]
      BY <1>2 DEF Shown
    <2> QED BY <2>1, <2>2
  <1>5. Contents(view.kw_list)' = Contents(view.kw_list)
    BY <1>1 DEF Contents
  <1> QED BY <1>3, <1>4, <1>5 DEF Abstract!vars, Shown

LEMMA NextMaps == ASSUME FileInv, [Next]_vars PROVE [Abstract!Next]_(Abstract!vars) /\ FileInv'
  <1>1. CASE \E kw \in Keywords : Scan(kw)
    BY <1>1, ScanStep DEF Abstract!Next
  <1>2. CASE Enter
    BY <1>2, EnterStep DEF Abstract!Next
  <1>3. CASE Return
    BY <1>3, ReturnStep DEF Abstract!Next
  <1>4. ASSUME NEW start \in Names \cup {NoName}, NEW end \in Names \cup {NoName},
               NEW index \in -1 .. MaxOccurence, AskBlockView(start, end, index)
        PROVE  Abstract!Next /\ FileInv'
    <2>1. index \in Int
      OBVIOUS
    <2>2. Abstract!AskView(start, end, index) /\ FileInv'
      BY <1>4, <2>1, AskBlockViewStep
    <2>3. Abstract!Names = Names
      BY DEF Abstract!Names, Names
    <2> QED BY <2>2, <2>3 DEF Abstract!Next
  <1>5. ASSUME NEW kw \in Keywords, AskRestartView(kw.name, kw.value) PROVE Abstract!Next /\ FileInv'
    <2>1. Abstract!AskStep(kw.name, kw.value) /\ FileInv'
      BY <1>5, AskRestartViewStep
    <2> QED BY <2>1 DEF Abstract!Next
  <1>6. ASSUME NEW n \in 0 .. MaxOccurence, AskRestartSimDate(n) PROVE Abstract!Next /\ FileInv'
    <2>1. n \in Nat /\ n \in -1 .. MaxOccurence
      BY FileViewAssumption
    <2>2. Abstract!AskDate(n) /\ FileInv'
      BY <1>6, <2>1, AskRestartSimDateStep
    <2> QED BY <2>1, <2>2 DEF Abstract!Next
  <1>7. ASSUME NEW name, NEW date, RestartGetKw(name, date)
        PROVE  UNCHANGED Abstract!vars /\ FileInv'
    BY <1>7, RestartGetKwStep
  <1>8. CASE UNCHANGED vars
    <2>1. FileInv'
      BY <1>8, QueryFits DEF vars, FileInv
    <2>2. Contents(view.kw_list)' = Contents(view.kw_list) /\ Contents(answer.list)' = Contents(answer.list)
      BY <1>8 DEF vars, Contents
    <2>3. UNCHANGED Abstract!vars
      BY <1>8, <2>2 DEF vars, Abstract!vars
    <2> QED BY <2>1, <2>3
  <1> QED BY <1>1, <1>2, <1>3, <1>4, <1>5, <1>6, <1>7, <1>8 DEF Next

LEMMA FilesIndexed == Spec => []FileInv
  <1>1. Init => FileInv
    BY InitFits
  <1>2. FileInv /\ [Next]_vars => FileInv'
    BY NextMaps
  <1> QED BY <1>1, <1>2, PTL DEF Spec

(* Every view of a block and every report step that the indexed views give *)
(* is the one that the keywords of the file say it is: positions, cursors  *)
(* and numbers of occurrences are never off, in files of any length        *)
(* (rd_file_view.cpp, blockview, find_block; rd_file_pybind.cpp).          *)
THEOREM ViewsFollowTheFile == Spec => StepsFound
  <1>1. Init => Abstract!Init
    <2> SUFFICES ASSUME Init PROVE Abstract!Init
      OBVIOUS
    <2>1. view.kw_list = <<>> /\ answer.what = "none"
      BY DEF Init, Silent
    <2>2. Contents(view.kw_list) = <<>>
      BY <2>1, NothingIn
    <2> QED BY <2>1, <2>2 DEF Abstract!Init, Abstract!Silent
  <1>2. FileInv /\ [Next]_vars => [Abstract!Next]_(Abstract!vars)
    BY NextMaps
  <1>3. Spec => []FileInv
    BY FilesIndexed
  <1> QED BY <1>1, <1>2, <1>3, PTL DEF Spec, StepsFound, Abstract!Spec

-----------------------------------------------------------------------------
(* A keyword asked for by date.                                            *)

(* When each step has one A and one B, no step begins after the i-th A and *)
(* not after the i-th B: the A of i steps would have their B among i - 1.  *)
LEMMA NoStepBetween ==
    ASSUME file \in Seq(Keywords), NEW A, NEW B, OncePerStep(A), OncePerStep(B),
           NEW p, ListsPlaces(p, {n \in DOMAIN file : file[n].name = A}),
           NEW q, ListsPlaces(q, {n \in DOMAIN file : file[n].name = B}),
           NEW i \in 1 .. Len(p), i \in 1 .. Len(q),
           NEW k \in DOMAIN file, p[i] + 1 < k, k <= q[i] + 1
    PROVE  file[k].name # SEQNUM
  <1> DEFINE PA == {n \in DOMAIN file : file[n].name = A}
             PB == {n \in DOMAIN file : file[n].name = B}
             Beside(n, name) == {m \in DOMAIN file : SameStep(m, n) /\ file[m].name = name}
             g == [j \in 1 .. i |-> CHOOSE t \in 1 .. i - 1 : SameStep(q[t] + 1, p[j] + 1)]
  <1> SUFFICES ASSUME file[k].name = SEQNUM PROVE FALSE
    OBVIOUS
  <1>1. \A n \in DOMAIN file : n \in Nat
    BY LenProperties
  <1>2. /\ Len(p) \in Nat /\ \A j \in 1 .. Len(p) : p[j] \in Nat /\ p[j] + 1 \in PA
        /\ \A j, l \in 1 .. Len(p) : (j < l <=> p[j] < p[l]) /\ (p[j] = p[l] => j = l)
    <2> HIDE DEF PA
    <2> QED BY PlacesShape DEF PA
  <1>3. /\ Len(q) \in Nat /\ \A j \in 1 .. Len(q) : q[j] \in Nat /\ q[j] + 1 \in PB
        /\ \A j, l \in 1 .. Len(q) : j < l <=> q[j] < q[l]
        /\ \A m \in PB : m \in Int /\ \E j \in 1 .. Len(q) : q[j] + 1 = m
    <2> HIDE DEF PB
    <2> QED BY PlacesShape DEF PB
  <1>4. \A n \in DOMAIN file : \A name \in {A, B} : \E m : Beside(n, name) = {m}
    <2> SUFFICES ASSUME NEW n \in DOMAIN file, NEW name \in {A, B} PROVE \E m : Beside(n, name) = {m}
      OBVIOUS
    <2>1. Cardinality(Beside(n, name)) = 1
      BY DEF OncePerStep
    <2>2. IsFiniteSet(Beside(n, name))
      <3>1. 1 \in Int /\ Len(file) \in Int /\ DOMAIN file = 1 .. Len(file)
        BY LenProperties
      <3>2. IsFiniteSet(DOMAIN file)
        BY <3>1, FS_Interval
      <3>3. Beside(n, name) \subseteq DOMAIN file
        OBVIOUS
      <3> HIDE DEF Beside
      <3> QED BY <3>2, <3>3, FS_Subset
    <2> HIDE DEF Beside
    <2> QED BY <2>1, <2>2, FS_Singleton
  <1>5. \A m, n : SameStep(m, n) <=> SameStep(n, m)
    BY DEF SameStep
  <1>6. ASSUME NEW j \in 1 .. i PROVE \E t \in 1 .. i - 1 : SameStep(q[t] + 1, p[j] + 1)
    <2>1. j \in 1 .. Len(p) /\ p[j] + 1 \in DOMAIN file
      BY <1>2
    <2>2. PICK x \in DOMAIN file : SameStep(x, p[j] + 1) /\ file[x].name = B
      BY <1>4, <2>1
    <2>3. PICK t \in 1 .. Len(q) : q[t] + 1 = x
      BY <1>3, <2>2
    <2>4. p[j] \in Nat /\ p[i] \in Nat /\ ~(p[i] < p[j])
      <3>1. ~(i < j)
        BY <2>1
      <3> QED BY <1>2, <2>1, <3>1
    <2>5. p[j] + 1 < k /\ x \in Nat /\ k \in Nat
      BY <1>1, <2>4
    <2>6. ~(k <= x)
      BY <2>2, <2>5 DEF SameStep
    <2>7. q[t] \in Nat /\ q[i] \in Nat
      BY <1>3
    <2>8. q[t] < q[i]
      BY <2>3, <2>5, <2>6, <2>7
    <2>9. t < i
      BY <1>3, <2>8
    <2>10. t \in 1 .. i - 1
      BY <2>9
    <2> QED BY <2>2, <2>3, <2>10
  <1>7. g \in [1 .. i -> 1 .. i - 1] /\ \A j \in 1 .. i : SameStep(q[g[j]] + 1, p[j] + 1)
    BY <1>6
  <1> HIDE DEF g
  <1>8. \A j, l \in 1 .. i : g[j] = g[l] => j = l
    <2> SUFFICES ASSUME NEW j \in 1 .. i, NEW l \in 1 .. i, g[j] = g[l] PROVE j = l
      OBVIOUS
    <2> DEFINE x == q[g[j]] + 1
    <2>1. j \in 1 .. Len(p) /\ l \in 1 .. Len(p) /\ g[j] \in 1 .. Len(q)
      <3>1. g[j] \in 1 .. i - 1
        BY <1>7
      <3>2. \A t \in 1 .. i - 1 : t \in 1 .. Len(q)
        BY <1>3
      <3>3. \A t \in 1 .. i : t \in 1 .. Len(p)
        BY <1>2
      <3> QED BY <3>1, <3>2, <3>3
    <2>2. x \in DOMAIN file /\ p[j] + 1 \in PA /\ p[l] + 1 \in PA
      BY <1>2, <1>3, <2>1
    <2>3. SameStep(p[j] + 1, x) /\ SameStep(p[l] + 1, x)
      BY <1>5, <1>7
    <2> HIDE DEF x
    <2>4. PICK m : Beside(x, A) = {m}
      BY <1>4, <2>2
    <2>5. p[j] + 1 = p[l] + 1
      BY <2>2, <2>3, <2>4
    <2>6. p[j] = p[l]
      <3>1. p[j] \in Int /\ p[l] \in Int
        BY <1>2, <2>1
      <3> QED BY <2>5, <3>1
    <2> QED BY <1>2, <2>1, <2>6
  <1>9. /\ IsFiniteSet(1 .. i) /\ Cardinality(1 .. i) = i
        /\ IsFiniteSet(1 .. i - 1) /\ Cardinality(1 .. i - 1) = i - 1
    <2>1. 1 \in Int /\ i \in Int /\ i - 1 \in Int /\ 1 <= i
      BY <1>2
    <2>2. /\ IsFiniteSet(1 .. i) /\ Cardinality(1 .. i) = IF 1 > i THEN 0 ELSE i - 1 + 1
          /\ IsFiniteSet(1 .. i - 1) /\ Cardinality(1 .. i - 1) = IF 1 > i - 1 THEN 0 ELSE i - 1 - 1 + 1
      BY <2>1, FS_Interval
    <2>3. Cardinality(1 .. i) = i
      BY <2>1, <2>2
    <2>4. Cardinality(1 .. i - 1) = i - 1
      <3>1. CASE 1 > i - 1
        <4>1. i - 1 = 0
          BY <2>1, <3>1
        <4> QED BY <2>2, <3>1, <4>1
      <3>2. CASE ~(1 > i - 1)
        BY <2>1, <2>2, <3>2
      <3> QED BY <3>1, <3>2
    <2> QED BY <2>2, <2>3, <2>4
  <1>10. i - 1 < i
    BY <1>2
  <1> DEFINE S == 1 .. i
             T == 1 .. i - 1
  <1>11. /\ IsFiniteSet(S) /\ IsFiniteSet(T) /\ Cardinality(T) < Cardinality(S)
         /\ g \in [S -> T] /\ \A x, y \in S : g[x] = g[y] => x = y
    BY <1>7, <1>8, <1>9, <1>10
  <1> HIDE DEF S, T
  <1>12. \E x, y \in S : x # y /\ g[x] = g[y]
    BY <1>11, FS_PigeonHole
  <1> QED BY <1>11, <1>12

LEMMA KwAtTimeInv ==
    ASSUME FileInv, NEW name, NEW date, RestartGetKw(name, date)
    PROVE  KwAtTimeWhenRegular'
  <1> DEFINE v     == global_view
             list  == v.kw_list
             index == FindSimTime(v, date)
             PA    == {n \in DOMAIN file : file[n].name = INTEHEAD}
             PB    == {n \in DOMAIN file : file[n].name = name}
             p     == Places(file, list, INTEHEAD)
             q     == Places(file, list, name)
             m     == p[index + 1] + 1
             n     == q[index + 1] + 1
  <1>1. /\ file \in Seq(Keywords) /\ DOMAIN file = 1 .. Len(file) /\ Len(file) \in Nat
        /\ ViewFits(file, v) /\ list = [x \in DOMAIN file |-> x]
        /\ \A x \in DOMAIN file : file[x] \in Keywords
        /\ UNCHANGED file
        /\ answer' = IF index >= 0 /\ index < NumNamedKw(v, name)
                     THEN KeywordOf(<<name, date>>, GetKw(v, name, index)) ELSE NoKw(<<name, date>>)
    BY LenProperties, ElementOfSeq DEF FileInv, RestartGetKw
  <1>2. NamedIn(file, list, INTEHEAD) = PA /\ NamedIn(file, list, name) = PB
    BY <1>1 DEF NamedIn
  <1>3. /\ ListsPlaces(p, PA) /\ NumNamedKw(v, INTEHEAD) = Len(p)
        /\ HasKw(v, INTEHEAD) <=> PA # {}
        /\ HasKw(v, INTEHEAD) => v.kw_index[INTEHEAD] = p
        /\ ListsPlaces(q, PB) /\ NumNamedKw(v, name) = Len(q)
        /\ HasKw(v, name) <=> PB # {}
        /\ HasKw(v, name) => v.kw_index[name] = q
    <2>0. ViewFits(file, v)
      BY <1>1
    <2>1. /\ ListsPlaces(p, PA) /\ NumNamedKw(v, INTEHEAD) = Len(p)
          /\ HasKw(v, INTEHEAD) <=> PA # {}
          /\ HasKw(v, INTEHEAD) => v.kw_index[INTEHEAD] = p
      <3> HIDE DEF PA, PB, v, index
      <3> QED BY <2>0, <1>2, ViewIndex
    <2>2. /\ ListsPlaces(q, PB) /\ NumNamedKw(v, name) = Len(q)
          /\ HasKw(v, name) <=> PB # {}
          /\ HasKw(v, name) => v.kw_index[name] = q
      <3> HIDE DEF PA, PB, v, index
      <3> QED BY <2>0, <1>2, ViewIndex
    <2> HIDE DEF p, q, PA, PB, v
    <2> QED BY <2>1, <2>2
  <1> HIDE DEF p, q
  <1>4. /\ Len(p) \in Nat /\ \A i \in 1 .. Len(p) : p[i] \in Nat /\ p[i] + 1 \in PA
        /\ Len(q) \in Nat /\ \A i \in 1 .. Len(q) : q[i] \in Nat /\ q[i] + 1 \in PB
    <2> HIDE DEF PA, PB
    <2> QED BY <1>3, PlacesShape
  <1>5. ASSUME NEW r, NEW asked, NEW x, r = KeywordOf(asked, x)
        PROVE  r = [asked |-> asked, what |-> "keyword", list |-> <<x>>, value |-> 0]
    BY <1>5 DEF KeywordOf, Throws, Silent
  <1>6. NoKw(<<name, date>>).what = "no keyword"
    BY DEF NoKw, Throws, Silent
  <1> HIDE DEF v, index
  <1>7. CASE ~(index >= 0 /\ index < Len(q))
    <2>1. answer'.what # "keyword"
      BY <1>1, <1>3, <1>6, <1>7
    <2> QED BY <2>1 DEF KwAtTimeWhenRegular
  <1>8. CASE index >= 0 /\ index < Len(q)
    <2> DEFINE hits == {i \in 0 .. NumNamedKw(v, INTEHEAD) - 1 : file[GetKw(v, INTEHEAD, i)].value = date}
    <2>1. index = IF hits = {} THEN -1 ELSE CHOOSE i \in hits : \A j \in hits : i <= j
      BY DEF index, FindSimTime
    <2>2. hits \in SUBSET Nat /\ \A i \in hits : i \in 0 .. Len(p) - 1 /\ file[GetKw(v, INTEHEAD, i)].value = date
      BY <1>3, <1>4
    <2> HIDE DEF hits
    <2>3. index \in hits
      <3>1. hits # {}
        BY <1>8, <2>1
      <3>2. PICK x \in hits : \A y \in hits : x <= y
        BY <2>2, <3>1, LeastElement
      <3>3. hits \in SUBSET Int
        BY <2>2
      <3>4. index = x
        BY <2>1, <3>1, <3>2, <3>3, LeastIs
      <3> QED BY <3>4
    <2>4. index \in Nat /\ index + 1 \in 1 .. Len(p) /\ index + 1 \in 1 .. Len(q)
      BY <1>4, <1>8, <2>2, <2>3
    <2>5. m \in PA /\ n \in PB /\ m \in DOMAIN file /\ n \in DOMAIN file
      BY <1>4, <2>4
    <2>6. GetKw(v, INTEHEAD, index) = m /\ GetKw(v, name, index) = n
      <3>1. HasKw(v, INTEHEAD) /\ HasKw(v, name)
        BY <1>3, <2>5
      <3>2. GetKw(v, INTEHEAD, index) = list[m] /\ GetKw(v, name, index) = list[n]
        BY <1>3, <3>1 DEF GetKw
      <3> HIDE DEF m, n
      <3> QED BY <1>1, <2>5, <3>2
    <2>7. file[m].name = INTEHEAD /\ file[m].value = date
      BY <2>2, <2>3, <2>5, <2>6
    <2>8. file[m] = [name |-> INTEHEAD, value |-> date]
      BY <1>1, <2>5, <2>7, FileViewAssumption
    <2>9. answer' = [asked |-> <<name, date>>, what |-> "keyword", list |-> <<n>>, value |-> 0]
      BY <1>1, <1>3, <1>5, <1>8, <2>6
    <2>10. answer'.list[1] = n /\ answer'.asked[2] = date
      BY <2>9
    <2>11. file[n].name = name
      BY <2>5
    <2>12. ASSUME OncePerStep(INTEHEAD), OncePerStep(name) PROVE SameStep(m, n)
      <3> SUFFICES ASSUME NEW k \in DOMAIN file, (m < k /\ k <= n) \/ (n < k /\ k <= m)
                   PROVE  file[k].name # SEQNUM
        BY DEF SameStep
      <3>0. ListsPlaces(p, PA) /\ ListsPlaces(q, PB) /\ file \in Seq(Keywords)
        BY <1>1, <1>3
      <3>1. CASE m < k /\ k <= n
        BY <2>4, <2>12, <3>0, <3>1, NoStepBetween
      <3>2. CASE n < k /\ k <= m
        BY <2>4, <2>12, <3>0, <3>2, NoStepBetween
      <3> QED BY <3>1, <3>2
    <2>13. OncePerStep(INTEHEAD) /\ OncePerStep(name) => AtTime(n, date)
      BY <2>5, <2>8, <2>12 DEF AtTime
    <2>14. file' = file /\ answer'.list[1] = n /\ answer'.asked[2] = date /\ file'[answer'.list[1]].name = name
      BY <1>1, <2>10, <2>11
    <2> HIDE DEF n
    <2>15. OncePerStep(INTEHEAD)' <=> OncePerStep(INTEHEAD)
      BY <2>14 DEF OncePerStep, SameStep
    <2>16. OncePerStep(file[answer.list[1]].name)' <=> OncePerStep(name)
      BY <2>14 DEF OncePerStep, SameStep
    <2>17. AtTime(answer.list[1], answer.asked[2])' <=> AtTime(n, date)
      BY <2>14 DEF AtTime, SameStep
    <2> QED BY <2>13, <2>15, <2>16, <2>17 DEF KwAtTimeWhenRegular
  <1> QED BY <1>7, <1>8

(* A keyword that restart_get_kw gives for a date lies in a report step    *)
(* with an INTEHEAD of that date, in files of any length that have one     *)
(* INTEHEAD and one such keyword in each step (rd_file_pybind.cpp,         *)
(* restart_get_kw, which takes the number of the INTEHEAD for the number   *)
(* of the keyword).                                                        *)
THEOREM KeywordsAtTheirTime == Spec => []KwAtTimeWhenRegular
  <1>1. Init => KwAtTimeWhenRegular
    BY DEF Init, Silent, KwAtTimeWhenRegular
  <1>2. ASSUME FileInv, KwAtTimeWhenRegular, [Next]_vars PROVE KwAtTimeWhenRegular'
    <2>1. CASE \E name, date : RestartGetKw(name, date)
      BY <1>2, <2>1, KwAtTimeInv
    <2>2. CASE UNCHANGED vars
      BY <1>2, <2>2 DEF vars, KwAtTimeWhenRegular, OncePerStep, AtTime, SameStep
    <2>3. ASSUME answer' = Silent PROVE KwAtTimeWhenRegular'
      BY <2>3 DEF Silent, KwAtTimeWhenRegular
    <2>4. ASSUME NEW start, NEW end, NEW index, AskBlockView(start, end, index)
          PROVE  KwAtTimeWhenRegular'
      <3>1. answer'.what \in {"view", "missing"}
        BY <2>4 DEF AskBlockView, ViewOf, Throws, Silent
      <3> QED BY <3>1 DEF KwAtTimeWhenRegular
    <2>5. ASSUME NEW header, NEW value, AskRestartView(header, value) PROVE KwAtTimeWhenRegular'
      <3>1. answer'.what \in {"view", "missing"}
        BY <2>5 DEF AskRestartView, ViewOf, Throws, Silent
      <3> QED BY <3>1 DEF KwAtTimeWhenRegular
    <2>6. ASSUME NEW n, AskRestartSimDate(n) PROVE KwAtTimeWhenRegular'
      <3>1. answer'.what \in {"value", "missing"}
        BY <2>6 DEF AskRestartSimDate, ValueOf, Throws, Silent
      <3> QED BY <3>1 DEF KwAtTimeWhenRegular
    <2> QED BY <1>2, <2>1, <2>2, <2>3, <2>4, <2>5, <2>6 DEF Next, Scan, Enter, Return
  <1>3. Spec => []FileInv
    BY FilesIndexed
  <1> QED BY <1>1, <1>2, <1>3, PTL DEF Spec

-----------------------------------------------------------------------------
(* What FlattenSeq makes of the first sequences, of no one and of one more.*)
Joins(u, N, S, ss) ==
    u \in [0 .. N -> Seq(S)] /\ u[0] = <<>> /\ \A k \in 1 .. N : u[k] = u[k - 1] \o ss[k]

(* What is joined sequence by sequence is flattened.                       *)
LEMMA FlattenedBy ==
    ASSUME NEW S, NEW N \in Nat, NEW ss \in [1 .. N -> Seq(S)],
           NEW u, Joins(u, N, S, ss)
    PROVE  FlattenSeq(ss) = u[N]
  <1>0. u \in [0 .. N -> Seq(S)] /\ u[0] = <<>> /\ \A k \in 1 .. N : u[k] = u[k - 1] \o ss[k]
    BY DEF Joins
  <1>1. ss \in Seq(Seq(S)) /\ Len(ss) = N
    BY WrittenOut
  <1>2. CASE N = 0
    <2>1. ss = <<>>
      BY <1>1, <1>2, EmptySeq
    <2> QED BY <1>0, <1>1, <1>2, <2>1 DEF FlattenSeq
  <1>3. CASE N # 0
    <2> DEFINE Solves(f) == f = [i \in 1 .. N |-> IF i = 1 THEN ss[i] ELSE f[i - 1] \o ss[i]]
               f == CHOOSE f : Solves(f)
               w == [i \in 1 .. N |-> u[i]]
    <2>1. FlattenSeq(ss) = f[N]
      BY <1>1, <1>3 DEF FlattenSeq
    <2>2. Solves(w)
      <3>1. ASSUME NEW i \in 1 .. N PROVE w[i] = IF i = 1 THEN ss[i] ELSE w[i - 1] \o ss[i]
        <4>1. CASE i = 1
          <5>1. u[1] = u[0] \o ss[1] /\ ss[1] \in Seq(S)
            <6>1. 1 \in 1 .. N /\ 1 - 1 = 0
              BY <4>1
            <6> QED BY <1>0, <6>1
          <5>2. u[1] = ss[1]
            BY <1>0, <5>1, ConcatEmptySeq
          <5> QED BY <4>1, <5>2
        <4>2. CASE i # 1
          <5>1. i - 1 \in 1 .. N
            BY <4>2
          <5> QED BY <1>0, <4>2, <5>1
        <4> QED BY <4>1, <4>2
      <3> QED BY <3>1
    <2>3. Solves(f)
      BY <2>2
    <2> HIDE DEF f
    <2>4. ASSUME NEW i \in 1 .. N PROVE f[i] = IF i = 1 THEN ss[i] ELSE f[i - 1] \o ss[i]
      BY <2>3, Zenon
    <2> DEFINE T == {0} \cup {i \in 1 .. N : f[i] = u[i]}
    <2>5. ASSUME NEW n \in 0 .. N - 1, n \in T PROVE n + 1 \in T
      <3>1. n + 1 \in 1 .. N /\ (n + 1) - 1 = n
        OBVIOUS
      <3>2. CASE n = 0
        <4>1. f[1] = ss[1] /\ u[1] = u[0] \o ss[1] /\ ss[1] \in Seq(S)
          <5>1. 1 \in 1 .. N /\ 1 - 1 = 0
            BY <3>1, <3>2
          <5> QED BY <1>0, <2>4, <5>1
        <4>2. f[1] = u[1]
          BY <1>0, <4>1, ConcatEmptySeq
        <4> QED BY <3>1, <3>2, <4>2
      <3>3. CASE n # 0
        <4>1. f[n] = u[n] /\ n + 1 # 1
          BY <2>5, <3>3
        <4>2. f[n + 1] = f[n] \o ss[n + 1] /\ u[n + 1] = u[n] \o ss[n + 1]
          BY <1>0, <2>4, <3>1, <4>1
        <4> QED BY <3>1, <4>1, <4>2
      <3> QED BY <3>2, <3>3
    <2> HIDE DEF T
    <2>6. 0 .. N \subseteq T
      <3>1. 0 \in T
        BY DEF T
      <3> QED BY <2>5, <3>1, UpToInduction
    <2>7. N \in T /\ N \in 1 .. N
      BY <1>3, <2>6
    <2> QED BY <1>3, <2>1, <2>7 DEF T
  <1> QED BY <1>2, <1>3

LEMMA FlattenBuilt ==
    ASSUME NEW S, NEW N \in Nat, NEW ss \in [1 .. N -> Seq(S)]
    PROVE  \E u : Joins(u, N, S, ss)
  <1> DEFINE step == [k \in 1 .. N |-> [p \in Seq(S) |-> p \o ss[k]]]
             base == <<>>
  <1>1. step \in [1 .. N -> [Seq(S) -> Seq(S)]] /\ base \in Seq(S)
    <2>1. \A k \in 1 .. N : \A p \in Seq(S) : p \o ss[k] \in Seq(S)
      BY ConcatProperties
    <2> QED BY <2>1
  <1>2. \A k \in 1 .. N : \A p \in Seq(S) : step[k][p] = p \o ss[k]
    OBVIOUS
  <1> HIDE DEF step, base
  <1>3. PICK u : Recurs(u, N, Seq(S), base, step)
    BY <1>1, RecursionSolved
  <1>4. ASSUME NEW k \in 1 .. N PROVE u[k] = u[k - 1] \o ss[k]
    <2>1. k - 1 \in 0 .. N
      OBVIOUS
    <2>2. u[k - 1] \in Seq(S) /\ u[k] = step[k][u[k - 1]]
      BY <1>3, <2>1 DEF Recurs
    <2> QED BY <1>2, <2>2
  <1>5. Joins(u, N, S, ss)
    BY <1>3, <1>4 DEF Recurs, base, Joins
  <1> QED BY <1>5

LEMMA FlattenMore ==
    ASSUME NEW S, NEW n \in Nat, NEW ss \in [1 .. n + 1 -> Seq(S)]
    PROVE  LET some == [k \in 1 .. n |-> ss[k]]
           IN  /\ some \in [1 .. n -> Seq(S)] /\ FlattenSeq(some) \in Seq(S)
               /\ FlattenSeq(ss) = FlattenSeq(some) \o ss[n + 1]
  <1> DEFINE some == [k \in 1 .. n |-> ss[k]]
             N == n + 1
  <1>0. /\ N \in Nat /\ ss \in [1 .. N -> Seq(S)] /\ N \in 1 .. N /\ N - 1 = n
        /\ \A k \in 1 .. n : k \in 1 .. N /\ k - 1 \in 0 .. n
        /\ \A k \in 0 .. n : k \in 0 .. N
        /\ n \in 0 .. n /\ 0 \in 0 .. n
    OBVIOUS
  <1> HIDE DEF N
  <1>a. PICK u : Joins(u, N, S, ss)
    BY <1>0, FlattenBuilt
  <1>1. u \in [0 .. N -> Seq(S)] /\ u[0] = <<>> /\ \A k \in 1 .. N : u[k] = u[k - 1] \o ss[k]
    BY <1>a DEF Joins
  <1>2. FlattenSeq(ss) = u[N]
    BY <1>0, <1>a, FlattenedBy
  <1> DEFINE w == [k \in 0 .. n |-> u[k]]
  <1>3. some \in [1 .. n -> Seq(S)] /\ \A k \in 1 .. n : some[k] = ss[k]
    BY <1>0
  <1>4. w \in [0 .. n -> Seq(S)] /\ \A k \in 0 .. n : w[k] = u[k]
    BY <1>0, <1>1
  <1> HIDE DEF some, w
  <1>5. w[0] = <<>> /\ \A k \in 1 .. n : w[k] = w[k - 1] \o some[k]
    <2>1. ASSUME NEW k \in 1 .. n PROVE w[k] = w[k - 1] \o some[k]
      <3>1. k \in 0 .. n /\ k - 1 \in 0 .. n /\ k \in 1 .. N
        BY <1>0
      <3> QED BY <1>1, <1>3, <1>4, <3>1
    <2> QED BY <1>0, <1>1, <1>4, <2>1
  <1>b. Joins(w, n, S, some)
    BY <1>4, <1>5 DEF Joins
  <1>6. FlattenSeq(some) = w[n]
    BY <1>3, <1>b, FlattenedBy
  <1>7. w[n] = u[n] /\ w[n] \in Seq(S) /\ u[N] = u[n] \o ss[N]
    BY <1>0, <1>1, <1>4
  <1> QED BY <1>2, <1>3, <1>6, <1>7 DEF some, N

LEMMA FlattenNone == FlattenSeq(<<>>) = <<>>
  <1> QED BY DEF FlattenSeq

(* flat has the sequences of ss one after the other, the n-th behind       *)
(* e[n - 1].                                                               *)
Cuts(e, N, ss, flat) ==
    /\ e \in [0 .. N -> Nat] /\ e[0] = 0 /\ e[N] = Len(flat)
    /\ \A n \in 1 .. N : e[n] = e[n - 1] + Len(ss[n]) /\ e[n] <= Len(flat)
    /\ \A n \in 1 .. N : \A i \in 1 .. Len(ss[n]) : flat[e[n - 1] + i] = ss[n][i]
    /\ \A m \in 1 .. Len(flat) : \E n \in 1 .. N : \E i \in 1 .. Len(ss[n]) : m = e[n - 1] + i

HasCuts(N, ss, flat) == \E e : Cuts(e, N, ss, flat)

(* One sequence more.                                                      *)
LEMMA CutMore ==
    ASSUME NEW S, NEW n \in Nat, NEW ss \in [1 .. n + 1 -> Seq(S)],
           NEW some \in [1 .. n -> Seq(S)], \A k \in 1 .. n : some[k] = ss[k],
           NEW old \in Seq(S), NEW e, Cuts(e, n, some, old)
    PROVE  HasCuts(n + 1, ss, old \o ss[n + 1])
  <1> DEFINE N == n + 1
             more == ss[N]
             flat == old \o more
             d == [k \in 0 .. N |-> IF k = N THEN e[n] + Len(more) ELSE e[k]]
  <1>1. /\ N \in Nat /\ N \in 1 .. N /\ N \in 0 .. N /\ N - 1 = n /\ n # N /\ 0 # N
        /\ \A k \in 1 .. N : k \in 1 .. n \/ k = N
        /\ \A k \in 0 .. N : k \in 0 .. n \/ k = N
        /\ \A k \in 1 .. n : k \in 1 .. N /\ k \in 0 .. N /\ k - 1 \in 0 .. N /\ k - 1 # N /\ k # N
                             /\ k \in 0 .. n /\ k - 1 \in 0 .. n
        /\ n \in 0 .. n /\ n \in 0 .. N /\ 0 \in 0 .. N
    OBVIOUS
  <1>2. /\ e \in [0 .. n -> Nat] /\ e[0] = 0 /\ e[n] = Len(old)
        /\ \A k \in 1 .. n : e[k] = e[k - 1] + Len(some[k]) /\ e[k] <= Len(old)
        /\ \A k \in 1 .. n : \A i \in 1 .. Len(some[k]) : old[e[k - 1] + i] = some[k][i]
        /\ \A m \in 1 .. Len(old) : \E k \in 1 .. n : \E i \in 1 .. Len(some[k]) : m = e[k - 1] + i
    BY DEF Cuts
  <1>3. more \in Seq(S) /\ \A k \in 1 .. n : some[k] \in Seq(S)
    BY <1>1
  <1>4. Len(old) \in Nat /\ Len(more) \in Nat /\ \A k \in 1 .. n : Len(some[k]) \in Nat
    BY <1>3, LenProperties
  <1> HIDE DEF more
  <1>5. /\ Len(flat) = Len(old) + Len(more)
        /\ \A i \in 1 .. Len(old) + Len(more) :
               flat[i] = IF i <= Len(old) THEN old[i] ELSE more[i - Len(old)]
    BY <1>3, ConcatProperties
  <1> HIDE DEF flat, N
  <1>6. /\ d[N] = Len(old) + Len(more) /\ \A k \in 0 .. n : d[k] = e[k] /\ d[k] \in Nat
        /\ d \in [0 .. N -> Nat]
    <2>1. \A k \in 0 .. N : k # N => e[k] \in Nat
      BY <1>1, <1>2
    <2>2. e[n] + Len(more) \in Nat /\ e[n] + Len(more) = Len(old) + Len(more)
      BY <1>2, <1>4
    <2>3. \A k \in 0 .. n : k \in 0 .. N /\ k # N
      BY <1>1 DEF N
    <2> QED BY <1>1, <2>1, <2>2, <2>3
  <1> HIDE DEF d
  <1>7. \A k \in 1 .. N : d[k] = d[k - 1] + Len(ss[k]) /\ d[k] <= Len(flat)
    <2> SUFFICES ASSUME NEW k \in 1 .. N PROVE d[k] = d[k - 1] + Len(ss[k]) /\ d[k] <= Len(flat)
      OBVIOUS
    <2>1. CASE k = N
      BY <1>1, <1>2, <1>4, <1>5, <1>6, <2>1 DEF more
    <2>2. CASE k \in 1 .. n
      <3>1. d[k] = e[k] /\ d[k - 1] = e[k - 1] /\ ss[k] = some[k] /\ e[k] <= Len(old) /\ e[k] \in Nat
            /\ e[k] = e[k - 1] + Len(some[k])
        BY <1>1, <1>2, <1>6, <2>2
      <3> QED BY <1>4, <1>5, <3>1
    <2> QED BY <1>1, <2>1, <2>2
  <1>8. ASSUME NEW k \in 1 .. N, NEW i \in 1 .. Len(ss[k]) PROVE flat[d[k - 1] + i] = ss[k][i]
    <2>1. CASE k = N
      <3>1. i \in 1 .. Len(more) /\ d[k - 1] = Len(old) /\ ss[k] = more
        BY <1>1, <1>2, <1>6, <2>1 DEF more
      <3>2. Len(old) + i \in 1 .. Len(old) + Len(more) /\ ~(Len(old) + i <= Len(old))
            /\ (Len(old) + i) - Len(old) = i
        BY <1>4, <3>1
      <3> QED BY <1>5, <3>1, <3>2
    <2>2. CASE k \in 1 .. n
      <3>1. d[k] = e[k] /\ d[k - 1] = e[k - 1] /\ ss[k] = some[k] /\ e[k] <= Len(old) /\ e[k] \in Nat
            /\ e[k] = e[k - 1] + Len(some[k]) /\ e[k - 1] \in Nat
        BY <1>1, <1>2, <1>6, <2>2
      <3>2. i \in 1 .. Len(some[k]) /\ Len(some[k]) \in Nat
        BY <1>4, <2>2, <3>1
      <3>3. e[k - 1] + i \in 1 .. Len(old) + Len(more) /\ e[k - 1] + i <= Len(old)
        <4> DEFINE a == e[k - 1]
                   l == Len(some[k])
                   M == Len(old)
                   K == Len(more)
        <4>1. a \in Nat /\ a + l <= M /\ M \in Nat /\ K \in Nat /\ l \in Nat /\ i \in 1 .. l
          BY <1>4, <3>1, <3>2
        <4> HIDE DEF a, l, M, K
        <4>2. a + i \in 1 .. M + K /\ a + i <= M
          BY <4>1
        <4> QED BY <4>2 DEF a, M, K
      <3>4. old[e[k - 1] + i] = some[k][i]
        BY <1>2, <2>2, <3>2
      <3> QED BY <1>5, <3>1, <3>3, <3>4
    <2> QED BY <1>1, <2>1, <2>2
  <1>9. ASSUME NEW m \in 1 .. Len(flat)
        PROVE  \E k \in 1 .. N : \E i \in 1 .. Len(ss[k]) : m = d[k - 1] + i
    <2>1. CASE m <= Len(old)
      <3>1. m \in 1 .. Len(old)
        BY <1>4, <2>1
      <3>2. PICK k \in 1 .. n : \E i \in 1 .. Len(some[k]) : m = e[k - 1] + i
        BY <1>2, <3>1
      <3>3. k \in 1 .. N /\ ss[k] = some[k] /\ d[k - 1] = e[k - 1]
        BY <1>1, <1>6
      <3> QED BY <3>2, <3>3
    <2>2. CASE ~(m <= Len(old))
      <3>1. m - Len(old) \in 1 .. Len(more) /\ m = Len(old) + (m - Len(old))
        BY <1>4, <1>5, <2>2
      <3>2. d[N - 1] = Len(old) /\ ss[N] = more
        BY <1>1, <1>2, <1>6 DEF more
      <3> QED BY <1>1, <3>1, <3>2
    <2> QED BY <2>1, <2>2
  <1>10. d[0] = 0 /\ d[N] = Len(flat)
    <2>1. 0 \in 0 .. n
      OBVIOUS
    <2> QED BY <1>2, <1>5, <1>6, <2>1
  <1>11. Cuts(d, N, ss, flat)
    BY <1>6, <1>7, <1>8, <1>9, <1>10 DEF Cuts
  <1> QED BY <1>11 DEF N, flat, more, HasCuts

(* What is flattened can be cut up again.                                  *)
LEMMA FlattenCut ==
    ASSUME NEW S, NEW N \in Nat, NEW ss \in [1 .. N -> Seq(S)]
    PROVE  FlattenSeq(ss) \in Seq(S) /\ HasCuts(N, ss, FlattenSeq(ss))
  <1> DEFINE First(n) == [k \in 1 .. n |-> ss[k]]
             Fine(n) == /\ FlattenSeq(First(n)) \in Seq(S)
                        /\ HasCuts(n, First(n), FlattenSeq(First(n)))
             T == {n \in 0 .. N : Fine(n)}
  <1>1. 0 \in T
    <2>1. First(0) = <<>>
      OBVIOUS
    <2> DEFINE e == [k \in 0 .. 0 |-> 0]
               none == <<>>
    <2>2. e \in [0 .. 0 -> Nat] /\ e[0] = 0
      OBVIOUS
    <2>3. Len(none) = 0 /\ none \in Seq(S)
      OBVIOUS
    <2> HIDE DEF e, none
    <2>4. Cuts(e, 0, none, none)
      BY <2>2, <2>3 DEF Cuts
    <2>5. FlattenSeq(First(0)) = none /\ First(0) = none
      BY <2>1, FlattenNone DEF none
    <2> HIDE DEF First
    <2>6. Fine(0)
      BY <2>3, <2>4, <2>5 DEF HasCuts
    <2> QED BY <2>6
  <1>2. ASSUME NEW n \in 0 .. N - 1, n \in T PROVE n + 1 \in T
    <2> DEFINE more == First(n + 1)
               some == First(n)
    <2>1. n \in Nat /\ n + 1 \in 0 .. N
      OBVIOUS
    <2>2. /\ more \in [1 .. n + 1 -> Seq(S)] /\ some \in [1 .. n -> Seq(S)]
          /\ some = [k \in 1 .. n |-> more[k]]
          /\ \A k \in 1 .. n : some[k] = more[k]
      <3>1. \A k \in 1 .. n + 1 : k \in 1 .. N
        OBVIOUS
      <3>2. \A k \in 1 .. n : k \in 1 .. n + 1
        OBVIOUS
      <3> QED BY <3>1, <3>2
    <2>3. Fine(n)
      BY <1>2
    <2> HIDE DEF more, some
    <2>4. /\ FlattenSeq(some) \in Seq(S)
          /\ FlattenSeq(more) = FlattenSeq(some) \o more[n + 1]
      BY <2>1, <2>2, FlattenMore
    <2>5. more[n + 1] \in Seq(S)
      BY <2>1, <2>2
    <2>6. FlattenSeq(more) \in Seq(S)
      BY <2>4, <2>5, ConcatProperties
    <2>7. PICK e : Cuts(e, n, some, FlattenSeq(some))
      BY <2>3 DEF some, HasCuts
    <2>8. HasCuts(n + 1, more, FlattenSeq(more))
      <3> DEFINE old == FlattenSeq(some)
      <3>1. old \in Seq(S) /\ Cuts(e, n, some, old)
        BY <2>4, <2>7
      <3> HIDE DEF old
      <3>2. HasCuts(n + 1, more, old \o more[n + 1])
        BY <2>1, <2>2, <3>1, CutMore
      <3> QED BY <2>4, <3>2 DEF old
    <2>9. Fine(n + 1)
      BY <2>6, <2>8 DEF more
    <2> QED BY <2>1, <2>9
  <1>3. ss = First(N)
    OBVIOUS
  <1> HIDE DEF First
  <1>4. N \in T
    <2> HIDE DEF T
    <2>1. 0 .. N \subseteq T
      BY <1>1, <1>2, UpToInduction
    <2> QED BY <2>1
  <1> QED BY <1>3, <1>4

-----------------------------------------------------------------------------
(* The keywords of a block: those it has of Known, each once, the step or  *)
(* the local grid first.                                                   *)
Known == {KeywordOrder[k] : k \in DOMAIN KeywordOrder}
BlockSet(b) == {[name |-> name, value |-> b] : name \in Known \cap Blocks[b].has}

(* A block has one keyword of each name of its block of data, the SEQNUM   *)
(* or else the LGR first.                                                  *)
BlockIs(kws, b) ==
    /\ kws \in Seq(BlockSet(b))
    /\ \A name \in Known \cap Blocks[b].has : \E i \in DOMAIN kws : kws[i].name = name
    /\ \A i, j \in DOMAIN kws : kws[i].name = kws[j].name => i = j
    /\ "SEQNUM" \in Blocks[b].has => 1 \in DOMAIN kws /\ kws[1].name = "SEQNUM"
    /\ "SEQNUM" \notin Blocks[b].has /\ "LGR" \in Blocks[b].has => 1 \in DOMAIN kws /\ kws[1].name = "LGR"

(* The same of those among the first n.                                    *)
KnownTo(n) == {KeywordOrder[k] : k \in 1 .. n}
SomeOfBlock(kws, b, n) ==
    /\ kws \in Seq(BlockSet(b))
    /\ \A i \in DOMAIN kws : kws[i].name \in KnownTo(n)
    /\ \A name \in KnownTo(n) \cap Blocks[b].has : \E i \in DOMAIN kws : kws[i].name = name
    /\ \A i, j \in DOMAIN kws : kws[i].name = kws[j].name => i = j
    /\ n >= 1 /\ "SEQNUM" \in Blocks[b].has => 1 \in DOMAIN kws /\ kws[1].name = "SEQNUM"
    /\ n >= 2 /\ "SEQNUM" \notin Blocks[b].has /\ "LGR" \in Blocks[b].has =>
           1 \in DOMAIN kws /\ kws[1].name = "LGR"

LEMMA OrderOfNames ==
    /\ Len(KeywordOrder) = 13 /\ DOMAIN KeywordOrder = 1 .. 13
    /\ KeywordOrder[1] = "SEQNUM" /\ KeywordOrder[2] = "LGR"
    /\ \A i, j \in 1 .. 13 : KeywordOrder[i] = KeywordOrder[j] => i = j
  <1>1. Len(KeywordOrder) = 13 /\ DOMAIN KeywordOrder = 1 .. 13
    BY DEF KeywordOrder
  <1>2. KeywordOrder[1] = "SEQNUM" /\ KeywordOrder[2] = "LGR"
    BY DEF KeywordOrder
  <1>3. ASSUME NEW i \in 1 .. 13, NEW j \in 1 .. 13, KeywordOrder[i] = KeywordOrder[j] PROVE i = j
    BY <1>3, SMTT(30) DEF KeywordOrder
  <1> QED BY <1>1, <1>2, <1>3

(* One more name of the order.                                             *)
LEMMA NameTaken ==
    ASSUME NEW b, NEW n \in 0 .. 12, NEW kws, SomeOfBlock(kws, b, n),
           NEW name, name = KeywordOrder[n + 1],
           NEW more, more = IF name \notin Blocks[b].has THEN kws
                            ELSE Append(kws, [name |-> name, value |-> b])
    PROVE  SomeOfBlock(more, b, n + 1)
  <1> DEFINE B == BlockSet(b)
             N == Len(kws)
             kw == [name |-> name, value |-> b]
             has == Blocks[b].has
  <1>1. kws \in Seq(B) /\ N \in Nat /\ DOMAIN kws = 1 .. N
    BY LenProperties DEF SomeOfBlock
  <1>2. /\ n + 1 \in 1 .. 13 /\ n \in Nat
        /\ KnownTo(n + 1) = KnownTo(n) \cup {name}
        /\ name \in Known
    <2>1. 1 .. n + 1 = (1 .. n) \cup {n + 1} /\ n + 1 \in 1 .. 13
      OBVIOUS
    <2> QED BY <2>1, OrderOfNames DEF KnownTo, Known
  <1>3. name \notin KnownTo(n)
    <2>1. \A k \in 1 .. n : k \in 1 .. 13 /\ k # n + 1
      OBVIOUS
    <2> QED BY <1>2, <2>1, OrderOfNames DEF KnownTo
  <1> HIDE DEF N
  <1>4. CASE name \notin has
    <2>1. more = kws /\ \A x \in KnownTo(n + 1) \cap has : x \in KnownTo(n) \cap has
      BY <1>2, <1>4
    <2>2. (n + 1 >= 1 /\ "SEQNUM" \in has) => n >= 1
      BY <1>2, <1>4, OrderOfNames
    <2>3. (n + 1 >= 2 /\ "LGR" \in has) => n >= 2
      <3>1. n = 1 => name = "LGR"
        BY OrderOfNames
      <3> QED BY <1>2, <1>4, <3>1
    <2> QED BY <1>2, <2>1, <2>2, <2>3 DEF SomeOfBlock
  <1>5. CASE name \in has
    <2>1. kw \in B
      BY <1>2, <1>5 DEF BlockSet
    <2>2. more = Append(kws, kw)
      BY <1>5
    <2> HIDE DEF kw, B
    <2>3. /\ more \in Seq(B) /\ DOMAIN more = 1 .. N + 1 /\ more[N + 1] = kw
          /\ \A i \in 1 .. N : more[i] = kws[i]
      BY <1>1, <2>1, <2>2, AppendProperties, LenProperties DEF N
    <2>4. kw.name = name
      BY DEF kw
    <2>5. /\ \A i \in 1 .. N + 1 : i \in 1 .. N \/ i = N + 1
          /\ N + 1 \in 1 .. N + 1 /\ \A i \in 1 .. N : i \in 1 .. N + 1
      BY <1>1
    <2>6. \A i \in DOMAIN more : more[i].name \in KnownTo(n + 1)
      BY <1>1, <1>2, <2>3, <2>4, <2>5 DEF SomeOfBlock
    <2>7. \A x \in KnownTo(n + 1) \cap has : \E i \in DOMAIN more : more[i].name = x
      <3> SUFFICES ASSUME NEW x \in KnownTo(n + 1) \cap has PROVE \E i \in DOMAIN more : more[i].name = x
        OBVIOUS
      <3>1. CASE x = name
        BY <2>3, <2>4, <2>5, <3>1
      <3>2. CASE x # name
        <4>1. PICK i \in DOMAIN kws : kws[i].name = x
          BY <1>2, <3>2 DEF SomeOfBlock
        <4> QED BY <1>1, <2>3, <2>5, <4>1
      <3> QED BY <3>1, <3>2
    <2>8. ASSUME NEW i \in DOMAIN more, NEW j \in DOMAIN more, more[i].name = more[j].name PROVE i = j
      <3>1. CASE i \in 1 .. N /\ j \in 1 .. N
        BY <1>1, <2>3, <2>8, <3>1 DEF SomeOfBlock
      <3>2. ASSUME NEW k \in 1 .. N PROVE more[k].name # name
        BY <1>1, <1>3, <2>3 DEF SomeOfBlock
      <3> QED BY <2>3, <2>4, <2>5, <2>8, <3>1, <3>2
    <2>9. "SEQNUM" \in has => 1 \in DOMAIN more /\ more[1].name = "SEQNUM"
      <3> SUFFICES ASSUME "SEQNUM" \in has PROVE 1 \in DOMAIN more /\ more[1].name = "SEQNUM"
        OBVIOUS
      <3>1. CASE n = 0
        <4>1. KnownTo(n) = {}
          BY <3>1 DEF KnownTo
        <4>2. N = 0
          <5>1. \A i \in 1 .. N : FALSE
            BY <1>1, <4>1 DEF SomeOfBlock
          <5>2. N # 0 => 1 \in 1 .. N
            BY <1>1
          <5> QED BY <5>1, <5>2
        <4>3. name = "SEQNUM"
          BY <3>1, OrderOfNames
        <4> QED BY <2>3, <2>4, <4>2, <4>3
      <3>2. CASE n # 0
        <4>1. 1 \in DOMAIN kws /\ kws[1].name = "SEQNUM"
          BY <1>2, <3>2 DEF SomeOfBlock
        <4> QED BY <1>1, <2>3, <2>5, <4>1
      <3> QED BY <3>1, <3>2
    <2>10. ASSUME n + 1 >= 2, "SEQNUM" \notin has, "LGR" \in has
           PROVE  1 \in DOMAIN more /\ more[1].name = "LGR"
      <3>1. CASE n = 1
        <4>1. KnownTo(n) = {"SEQNUM"}
          BY <3>1, OrderOfNames DEF KnownTo
        <4>2. N = 0
          <5>1. ASSUME NEW i \in 1 .. N PROVE FALSE
            <6>1. kws[i].name = "SEQNUM" /\ kws[i] \in BlockSet(b)
              BY <1>1, <4>1, ElementOfSeq DEF SomeOfBlock, B
            <6> QED BY <2>10, <6>1 DEF BlockSet
          <5>2. N # 0 => 1 \in 1 .. N
            BY <1>1
          <5> QED BY <5>1, <5>2
        <4>3. name = "LGR"
          BY <3>1, OrderOfNames
        <4> QED BY <2>3, <2>4, <4>2, <4>3
      <3>2. CASE n # 1
        <4>1. 1 \in DOMAIN kws /\ kws[1].name = "LGR"
          BY <1>2, <2>10, <3>2 DEF SomeOfBlock
        <4> QED BY <1>1, <2>3, <2>5, <4>1
      <3> QED BY <3>1, <3>2
    <2> QED BY <2>3, <2>6, <2>7, <2>8, <2>9, <2>10 DEF SomeOfBlock, B
  <1> QED BY <1>4, <1>5

(* The recursion of BlockKeywords gives such a block.                      *)
LEMMA BlockShape ==
    ASSUME NEW b
    PROVE  BlockIs(BlockKeywords(b), b)
  <1> DEFINE N == 13
             B == BlockSet(b)
             Takes(k) == KeywordOrder[k] \in Blocks[b].has
             Kw(k) == [name |-> KeywordOrder[k], value |-> b]
             step == [k \in 1 .. N |-> [p \in Seq(B) |-> IF ~Takes(k) THEN p ELSE Append(p, Kw(k))]]
             base == <<>>
             Solves(u) == u = [n \in 0 .. N |-> IF n = 0 THEN <<>> ELSE IF KeywordOrder[n] \notin Blocks[b].has
                                   THEN u[n - 1] ELSE Append(u[n - 1], [name |-> KeywordOrder[n], value |-> b])]
             u == CHOOSE u : Solves(u)
  <1>1. BlockKeywords(b) = u[N]
    BY OrderOfNames DEF BlockKeywords
  <1>2. \A k \in 1 .. N : Takes(k) => Kw(k) \in B
    BY OrderOfNames DEF BlockSet, Known
  <1> HIDE DEF B, Kw
  <1>3. /\ step \in [1 .. N -> [Seq(B) -> Seq(B)]] /\ base \in Seq(B)
        /\ \A k \in 1 .. N : \A p \in Seq(B) : step[k][p] = IF ~Takes(k) THEN p ELSE Append(p, Kw(k))
    <2>1. \A k \in 1 .. N : \A p \in Seq(B) : Takes(k) => Append(p, Kw(k)) \in Seq(B)
      BY <1>2, AppendProperties
    <2>2. \A k \in 1 .. N : [p \in Seq(B) |-> IF ~Takes(k) THEN p ELSE Append(p, Kw(k))] \in [Seq(B) -> Seq(B)]
      BY <2>1
    <2> QED BY <2>2
  <1> HIDE DEF step, base
  <1>4. \E w : Solves(w)
    <2>0. N \in Nat
      OBVIOUS
    <2> HIDE DEF N
    <2>1. PICK w : Recurs(w, N, Seq(B), base, step)
      BY <1>3, <2>0, RecursionSolved
    <2>2. ASSUME NEW k \in 1 .. N PROVE w[k] = IF ~Takes(k) THEN w[k - 1] ELSE Append(w[k - 1], Kw(k))
      <3>1. k - 1 \in 0 .. N
        BY <2>0
      <3>2. w[k - 1] \in Seq(B) /\ w[k] = step[k][w[k - 1]]
        BY <2>1, <3>1 DEF Recurs
      <3> QED BY <1>3, <3>2
    <2>3. ASSUME NEW k \in 0 .. N
          PROVE  w[k] = IF k = 0 THEN <<>> ELSE IF ~Takes(k) THEN w[k - 1] ELSE Append(w[k - 1], Kw(k))
      <3>1. CASE k = 0
        BY <2>1, <3>1 DEF Recurs, base
      <3>2. CASE k # 0
        <4>1. k \in 1 .. N
          BY <2>0, <3>2
        <4> QED BY <2>2, <3>2, <4>1
      <3> QED BY <3>1, <3>2
    <2>4. w = [k \in 0 .. N |-> w[k]]
      BY <2>1 DEF Recurs
    <2>5. Solves(w)
      BY <2>3, <2>4 DEF Kw
    <2> HIDE DEF Solves
    <2> QED BY <2>5
  <1>5. Solves(u)
    BY <1>4
  <1> HIDE DEF u
  <1>6. \A k \in 0 .. N : u[k] = IF k = 0 THEN <<>> ELSE IF KeywordOrder[k] \notin Blocks[b].has
                                 THEN u[k - 1] ELSE Append(u[k - 1], [name |-> KeywordOrder[k], value |-> b])
    BY <1>5, Zenon
  <1> DEFINE T == {n \in 0 .. N : SomeOfBlock(u[n], b, n)}
  <1>7. 0 \in T
    <2>1. u[0] = <<>> /\ KnownTo(0) = {}
      BY <1>6 DEF KnownTo
    <2>2. <<>> \in Seq(BlockSet(b)) /\ DOMAIN <<>> = {}
      OBVIOUS
    <2>3. SomeOfBlock(u[0], b, 0)
      BY <2>1, <2>2 DEF SomeOfBlock
    <2> QED BY <2>3
  <1>8. ASSUME NEW n \in 0 .. N - 1, n \in T PROVE n + 1 \in T
    <2>1. n + 1 \in 0 .. N /\ n + 1 # 0 /\ (n + 1) - 1 = n /\ n \in 0 .. 12
      OBVIOUS
    <2>2. u[n + 1] = IF KeywordOrder[n + 1] \notin Blocks[b].has
                     THEN u[n] ELSE Append(u[n], [name |-> KeywordOrder[n + 1], value |-> b])
      BY <1>6, <2>1
    <2>3. SomeOfBlock(u[n], b, n)
      BY <1>8
    <2>4. SomeOfBlock(u[n + 1], b, n + 1)
      BY <2>1, <2>2, <2>3, NameTaken
    <2> QED BY <2>1, <2>4
  <1>9. SomeOfBlock(u[N], b, N)
    <2> HIDE DEF T
    <2>1. 0 .. N \subseteq T
      BY <1>7, <1>8, UpToInduction
    <2>2. N \in T
      BY <2>1
    <2> QED BY <2>2 DEF T
  <1>10. KnownTo(N) = Known
    BY OrderOfNames DEF KnownTo, Known
  <1> QED BY <1>1, <1>9, <1>10 DEF SomeOfBlock, BlockIs

-----------------------------------------------------------------------------
(* The keywords of a step: the global part comes first, so that the first  *)
(* keyword of a name is the one of the global part where that has it.      *)
PartsOf(step) == {step.global} \cup Range(step.lgrs)
StepSet(step) == UNION {BlockSet(b) : b \in PartsOf(step)}

(* What WellFilesAssumption says of a step.                                *)
StepFits(step) ==
    /\ step.global \in DOMAIN Blocks /\ step.lgrs \in Seq(DOMAIN Blocks)
    /\ \A b \in Range(step.lgrs) : Blocks[b].has \subseteq (Blocks[step.global].has \ {"SEQNUM"}) \cup {"LGR"}

(* Of each name that the global part has, its keyword comes first.         *)
StepIs(kws, step) ==
    /\ kws \in Seq(StepSet(step))
    /\ \A name \in Known \cap Blocks[step.global].has :
           \E i \in DOMAIN kws : /\ kws[i] = [name |-> name, value |-> step.global]
                                 /\ \A j \in DOMAIN kws : j < i => kws[j].name # name
    /\ "SEQNUM" \in Blocks[step.global].has => 1 \in DOMAIN kws /\ kws[1].name = "SEQNUM"
    /\ \A i \in DOMAIN kws : kws[i].name = "SEQNUM" => i = 1

PartSeq(step) == <<BlockKeywords(step.global)>> \o [n \in DOMAIN step.lgrs |-> BlockKeywords(step.lgrs[n])]

LEMMA PartsListed ==
    ASSUME NEW step, StepFits(step)
    PROVE  LET ss == PartSeq(step)
               N == 1 + Len(step.lgrs)
           IN  /\ N \in Nat /\ ss \in [1 .. N -> Seq(StepSet(step))]
               /\ ss[1] = BlockKeywords(step.global)
               /\ \A n \in DOMAIN step.lgrs : /\ n + 1 \in 1 .. N /\ ss[n + 1] = BlockKeywords(step.lgrs[n])
                                              /\ step.lgrs[n] \in Range(step.lgrs)
               /\ \A n \in 1 .. N : n = 1 \/ n - 1 \in DOMAIN step.lgrs
  <1> DEFINE S == StepSet(step)
             L == Len(step.lgrs)
             first == <<BlockKeywords(step.global)>>
             rest == [n \in DOMAIN step.lgrs |-> BlockKeywords(step.lgrs[n])]
             ss == PartSeq(step)
  <1>1. L \in Nat /\ DOMAIN step.lgrs = 1 .. L
    BY LenProperties DEF StepFits
  <1>2. ASSUME NEW b \in PartsOf(step) PROVE BlockKeywords(b) \in Seq(S)
    <2>1. BlockKeywords(b) \in Seq(BlockSet(b))
      BY BlockShape DEF BlockIs
    <2>2. BlockSet(b) \subseteq S
      BY DEF StepSet
    <2> QED BY <2>1, <2>2, SeqMonotonic
  <1>3. step.global \in PartsOf(step) /\ \A n \in 1 .. L : step.lgrs[n] \in PartsOf(step) /\ step.lgrs[n] \in Range(step.lgrs)
    BY <1>1 DEF PartsOf, Range
  <1> HIDE DEF L, S
  <1>4. first \in Seq(Seq(S)) /\ Len(first) = 1 /\ first[1] = BlockKeywords(step.global)
    <2>1. BlockKeywords(step.global) \in Seq(S)
      BY <1>2, <1>3
    <2> DEFINE B == BlockKeywords(step.global)
    <2> HIDE DEF B
    <2>2. <<B>> \in Seq(Seq(S)) /\ Len(<<B>>) = 1 /\ <<B>>[1] = B
      BY <2>1 DEF B
    <2> QED BY <2>2 DEF B
  <1>5. rest \in Seq(Seq(S)) /\ Len(rest) = L /\ \A n \in 1 .. L : rest[n] = BlockKeywords(step.lgrs[n])
    <2>1. rest \in [1 .. L -> Seq(S)]
      BY <1>1, <1>2, <1>3
    <2>2. \A n \in 1 .. L : rest[n] = BlockKeywords(step.lgrs[n])
      BY <1>1
    <2> HIDE DEF rest
    <2> QED BY <1>1, <2>1, <2>2, WrittenOut
  <1>6. ss = first \o rest
    BY DEF PartSeq
  <1> HIDE DEF first, rest, ss
  <1>7. /\ ss \in Seq(Seq(S)) /\ Len(ss) = 1 + L
        /\ \A n \in 1 .. 1 + L : ss[n] = IF n <= 1 THEN first[n] ELSE rest[n - 1]
    <2> DEFINE SS == Seq(S)
    <2>1. first \in Seq(SS) /\ rest \in Seq(SS)
      BY <1>4, <1>5
    <2> HIDE DEF SS
    <2>2. /\ first \o rest \in Seq(SS) /\ Len(first \o rest) = Len(first) + Len(rest)
          /\ \A n \in 1 .. Len(first) + Len(rest) :
                 (first \o rest)[n] = IF n <= Len(first) THEN first[n] ELSE rest[n - Len(first)]
      BY <2>1, ConcatProperties
    <2> QED BY <1>4, <1>5, <1>6, <2>2 DEF SS
  <1>8. ss \in [1 .. 1 + L -> Seq(S)]
    BY <1>7, LenProperties
  <1>9. 1 + L \in Nat /\ 1 \in 1 .. 1 + L /\ \A n \in 1 .. L : n + 1 \in 1 .. 1 + L /\ ~(n + 1 <= 1) /\ (n + 1) - 1 = n
    BY <1>1
  <1>10. ss[1] = BlockKeywords(step.global) /\ \A n \in 1 .. L : ss[n + 1] = BlockKeywords(step.lgrs[n])
    BY <1>4, <1>5, <1>7, <1>9
  <1>11. \A n \in 1 .. 1 + L : n = 1 \/ n - 1 \in 1 .. L
    BY <1>1
  <1> QED BY <1>1, <1>3, <1>8, <1>9, <1>10, <1>11 DEF L, ss, S

(* It does in what the simulator writes.                                   *)
LEMMA StepShape ==
    ASSUME NEW step, StepFits(step)
    PROVE  StepIs(StepKeywords(step), step)
  <1> DEFINE S == StepSet(step)
             N == 1 + Len(step.lgrs)
             g == step.global
             ss == PartSeq(step)
             flat == StepKeywords(step)
             M == Len(ss[1])
  <1>1. /\ N \in Nat /\ ss \in [1 .. N -> Seq(S)] /\ ss[1] = BlockKeywords(g) /\ 1 \in 1 .. N
        /\ \A n \in 1 .. N : n = 1 \/ n - 1 \in DOMAIN step.lgrs
        /\ \A n \in DOMAIN step.lgrs : ss[n + 1] = BlockKeywords(step.lgrs[n]) /\ step.lgrs[n] \in Range(step.lgrs)
    <2>1. /\ N \in Nat /\ ss \in [1 .. N -> Seq(S)] /\ ss[1] = BlockKeywords(g)
          /\ \A n \in 1 .. N : n = 1 \/ n - 1 \in DOMAIN step.lgrs
          /\ \A n \in DOMAIN step.lgrs : ss[n + 1] = BlockKeywords(step.lgrs[n]) /\ step.lgrs[n] \in Range(step.lgrs)
      BY PartsListed
    <2>2. Len(step.lgrs) \in Nat
      BY LenProperties DEF StepFits
    <2> QED BY <2>1, <2>2
  <1>2. flat = FlattenSeq(ss)
    BY DEF StepKeywords, PartSeq
  <1> HIDE DEF S, N, ss, flat, g
  <1>3. flat \in Seq(S) /\ HasCuts(N, ss, flat)
    BY <1>1, <1>2, FlattenCut
  <1>4. PICK e : Cuts(e, N, ss, flat)
    BY <1>3 DEF HasCuts
  <1>5. BlockIs(ss[1], g) /\ ss[1] \in Seq(BlockSet(g))
    BY <1>1, BlockShape DEF BlockIs
  <1>6. /\ e[0] = 0 /\ e \in [0 .. N -> Nat] /\ e[1] = e[0] + M /\ e[1] <= Len(flat)
        /\ \A i \in 1 .. M : flat[e[0] + i] = ss[1][i]
        /\ \A m \in 1 .. Len(flat) : \E n \in 1 .. N : \E i \in 1 .. Len(ss[n]) : m = e[n - 1] + i /\ flat[m] = ss[n][i]
    <2>1. 1 - 1 = 0
      OBVIOUS
    <2>2. /\ e[0] = 0 /\ e \in [0 .. N -> Nat]
          /\ \A n \in 1 .. N : e[n] = e[n - 1] + Len(ss[n]) /\ e[n] <= Len(flat)
          /\ \A n \in 1 .. N : \A i \in 1 .. Len(ss[n]) : flat[e[n - 1] + i] = ss[n][i]
          /\ \A m \in 1 .. Len(flat) : \E n \in 1 .. N : \E i \in 1 .. Len(ss[n]) : m = e[n - 1] + i
      BY <1>4 DEF Cuts
    <2>3. e[1] = e[1 - 1] + M /\ e[1] <= Len(flat) /\ \A i \in 1 .. M : flat[e[1 - 1] + i] = ss[1][i]
      BY <1>1, <2>2
    <2>4. \A m \in 1 .. Len(flat) : \E n \in 1 .. N : \E i \in 1 .. Len(ss[n]) : m = e[n - 1] + i /\ flat[m] = ss[n][i]
      BY <2>2
    <2> QED BY <2>1, <2>2, <2>3, <2>4
  <1>7. /\ Len(flat) \in Nat /\ DOMAIN flat = 1 .. Len(flat) /\ M \in Nat /\ DOMAIN ss[1] = 1 .. M
    BY <1>3, <1>5, LenProperties
  <1> HIDE DEF M
  <1>8. M <= Len(flat) /\ \A i \in 1 .. M : flat[i] = ss[1][i] /\ i \in DOMAIN flat
    <2>1. M <= Len(flat)
      BY <1>6, <1>7
    <2>2. \A i \in 1 .. M : e[0] + i = i
      BY <1>6
    <2>3. \A i \in 1 .. M : i \in 1 .. Len(flat)
      BY <1>7, <2>1
    <2> QED BY <1>6, <1>7, <2>1, <2>2, <2>3
  <1>9. ASSUME NEW name \in Known \cap Blocks[g].has
        PROVE  \E i \in DOMAIN flat : /\ flat[i] = [name |-> name, value |-> g]
                                      /\ \A j \in DOMAIN flat : j < i => flat[j].name # name
    <2>1. PICK i \in 1 .. M : ss[1][i].name = name
      BY <1>5, <1>7 DEF BlockIs
    <2>2. flat[i] = [name |-> name, value |-> g]
      <3>1. ss[1][i] \in BlockSet(g)
        BY <1>5, <1>7, ElementOfSeq DEF M
      <3> QED BY <1>8, <2>1, <3>1 DEF BlockSet
    <2>3. ASSUME NEW j \in DOMAIN flat, j < i PROVE flat[j].name # name
      <3>1. j \in 1 .. M /\ j # i
        BY <1>7, <2>3
      <3>2. ss[1][j].name = ss[1][i].name => j = i
        BY <1>5, <1>7, <3>1 DEF BlockIs
      <3> QED BY <1>8, <2>1, <3>1, <3>2
    <2> QED BY <1>8, <2>2, <2>3
  <1>10. "SEQNUM" \in Blocks[g].has => 1 \in DOMAIN flat /\ flat[1].name = "SEQNUM"
    BY <1>5, <1>7, <1>8 DEF BlockIs
  <1>11. ASSUME NEW m \in DOMAIN flat, flat[m].name = "SEQNUM" PROVE m = 1
    <2>1. PICK n \in 1 .. N : \E i \in 1 .. Len(ss[n]) : m = e[n - 1] + i /\ flat[m] = ss[n][i]
      BY <1>6, <1>7
    <2>2. PICK i \in 1 .. Len(ss[n]) : m = e[n - 1] + i /\ flat[m] = ss[n][i]
      BY <2>1
    <2>3. CASE n = 1
      <3>1. i \in 1 .. M /\ ss[1][i].name = "SEQNUM" /\ m = i
        BY <1>6, <1>11, <2>2, <2>3 DEF M
      <3>2. ss[1][i] \in BlockSet(g)
        BY <1>5, <1>7, <3>1, ElementOfSeq DEF M
      <3>3. "SEQNUM" \in Blocks[g].has
        BY <3>1, <3>2 DEF BlockSet
      <3>4. 1 \in 1 .. M /\ ss[1][1].name = "SEQNUM"
        BY <1>5, <1>7, <3>3 DEF BlockIs
      <3> QED BY <1>5, <1>7, <3>1, <3>4 DEF BlockIs
    <2>4. CASE n # 1
      <3> DEFINE k == n - 1
                 b == step.lgrs[k]
      <3>1. k \in DOMAIN step.lgrs /\ k + 1 = n
        BY <1>1, <2>4
      <3> HIDE DEF k
      <3>2. ss[n] = BlockKeywords(b) /\ b \in Range(step.lgrs)
        BY <1>1, <3>1
      <3> HIDE DEF b
      <3>3. ss[n] \in Seq(BlockSet(b)) /\ ss[n][i].name = "SEQNUM"
        BY <1>11, <2>2, <3>2, BlockShape DEF BlockIs
      <3>4. ss[n][i] \in BlockSet(b)
        BY <3>3, ElementOfSeq
      <3>5. "SEQNUM" \in Blocks[b].has
        BY <3>3, <3>4 DEF BlockSet
      <3> QED BY <3>2, <3>5 DEF StepFits
    <2> QED BY <2>3, <2>4
  <1> QED BY <1>3, <1>9, <1>10, <1>11 DEF StepIs, flat, g, S

-----------------------------------------------------------------------------
(* The keywords of a file, and what a view of a step reads.                *)
AnyKw == UNION {BlockSet(b) : b \in DOMAIN Blocks}
StepSeq(id) == [n \in DOMAIN Dir[id].steps |-> StepKeywords(Dir[id].steps[n])]

LEMMA StepsOfFile ==
    ASSUME NEW id \in DOMAIN Dir
    PROVE  LET steps == Dir[id].steps
           IN  /\ Len(steps) \in Nat /\ DOMAIN steps = 1 .. Len(steps)
               /\ Dir[id].type = "restart" => Len(steps) = 1
               /\ \A n \in 1 .. Len(steps) :
                      /\ StepFits(steps[n])
                      /\ Dir[id].type = "unified" => "SEQNUM" \in Blocks[steps[n].global].has
  <1> DEFINE steps == Dir[id].steps
  <1>1. steps \in Seq(Range(steps)) /\ Dir[id].type = "restart" => Len(steps) = 1
    BY WellFilesAssumption
  <1>2. /\ steps \in Seq(Range(steps))
        /\ \A step \in Range(steps) :
               /\ StepFits(step)
               /\ Dir[id].type = "unified" => "SEQNUM" \in Blocks[step.global].has
    BY WellFilesAssumption DEF StepFits
  <1>3. Len(steps) \in Nat /\ DOMAIN steps = 1 .. Len(steps)
    BY <1>2, LenProperties
  <1>4. \A n \in DOMAIN steps : steps[n] \in Range(steps)
    BY DEF Range
  <1> QED BY <1>1, <1>2, <1>3, <1>4

(* A file is cut into its steps.                                           *)
LEMMA FileShape ==
    ASSUME NEW id \in DOMAIN Dir
    PROVE  LET N == Len(Dir[id].steps)
           IN  /\ FileKeywords(id) \in Seq(AnyKw)
               /\ HasCuts(N, StepSeq(id), FileKeywords(id))
               /\ \A n \in 1 .. N : /\ StepSeq(id)[n] = StepKeywords(Dir[id].steps[n])
                                    /\ StepIs(StepSeq(id)[n], Dir[id].steps[n])
                                    /\ StepSeq(id)[n] \in Seq(AnyKw)
  <1> DEFINE steps == Dir[id].steps
             N == Len(steps)
             ss == StepSeq(id)
  <1>1. /\ N \in Nat /\ DOMAIN steps = 1 .. N /\ \A n \in 1 .. N : StepFits(steps[n])
    BY StepsOfFile
  <1>2. \A n \in 1 .. N : ss[n] = StepKeywords(steps[n])
    BY <1>1 DEF StepSeq
  <1>3. ASSUME NEW n \in 1 .. N PROVE StepIs(ss[n], steps[n]) /\ ss[n] \in Seq(AnyKw)
    <2>1. StepIs(ss[n], steps[n])
      BY <1>1, <1>2, StepShape
    <2>2. ss[n] \in Seq(StepSet(steps[n]))
      BY <2>1 DEF StepIs
    <2>3. PartsOf(steps[n]) \subseteq DOMAIN Blocks
      <3>1. steps[n].global \in DOMAIN Blocks /\ steps[n].lgrs \in Seq(DOMAIN Blocks)
        BY <1>1 DEF StepFits
      <3>2. \A k \in DOMAIN steps[n].lgrs : steps[n].lgrs[k] \in DOMAIN Blocks
        BY <3>1, LenProperties, ElementOfSeq
      <3> QED BY <3>1, <3>2 DEF PartsOf, Range
    <2>4. StepSet(steps[n]) \subseteq AnyKw
      BY <2>3 DEF StepSet, AnyKw
    <2> QED BY <2>1, <2>2, <2>4, SeqMonotonic
  <1>4. ss \in [1 .. N -> Seq(AnyKw)]
    <2>1. ss = [n \in 1 .. N |-> ss[n]]
      BY <1>1 DEF StepSeq
    <2> QED BY <1>3, <2>1
  <1>5. FileKeywords(id) = FlattenSeq(ss)
    BY DEF FileKeywords, StepSeq
  <1> HIDE DEF ss, N, steps
  <1>6. FlattenSeq(ss) \in Seq(AnyKw) /\ HasCuts(N, ss, FlattenSeq(ss))
    BY <1>1, <1>4, FlattenCut
  <1> QED BY <1>2, <1>3, <1>5, <1>6 DEF ss, N, steps

(* The view of a step gives the data of its global part.                   *)
Reads(v, step) ==
    \A name \in Known \ {"LGR"} :
        /\ HasKw(v, name) <=> name \in Blocks[step.global].has
        /\ HasKw(v, name) => Data(v, name) = Blocks[step.global]

LEMMA FirstPlace ==
    ASSUME NEW p, NEW P, ListsPlaces(p, P), NEW i \in P, \A j \in P : ~(j < i)
    PROVE  p[1] + 1 = i
  <1>1. /\ Len(p) \in Nat /\ \A k \in 1 .. Len(p) : p[k] \in Nat /\ p[k] + 1 \in P
        /\ \A k, m \in 1 .. Len(p) : (k < m <=> p[k] < p[m])
        /\ i \in Int /\ \E k \in 1 .. Len(p) : p[k] + 1 = i
    BY PlacesShape
  <1>2. PICK k \in 1 .. Len(p) : p[k] + 1 = i
    BY <1>1
  <1>3. 1 \in 1 .. Len(p)
    BY <1>1
  <1>4. p[1] \in Nat /\ p[k] \in Nat /\ ~(p[1] + 1 < i) /\ (1 < k => p[1] < p[k])
    BY <1>1, <1>3
  <1>5. k = 1
    BY <1>1, <1>2, <1>4
  <1> QED BY <1>2, <1>5

(* It does when it has the keywords of the step.                           *)
LEMMA ViewReads ==
    ASSUME NEW v, ViewFits(file, v), NEW step, StepFits(step), NEW kws, StepIs(kws, step),
           Len(v.kw_list) = Len(kws), \A i \in 1 .. Len(kws) : file[v.kw_list[i]] = kws[i]
    PROVE  Reads(v, step)
  <1> SUFFICES ASSUME NEW name \in Known, name # "LGR"
               PROVE  /\ HasKw(v, name) <=> name \in Blocks[step.global].has
                      /\ HasKw(v, name) => Data(v, name) = Blocks[step.global]
    BY DEF Reads
  <1> DEFINE list == v.kw_list
             P == NamedIn(file, list, name)
             p == Places(file, list, name)
             N == Len(kws)
             g == step.global
  <1>1. /\ list \in Seq(DOMAIN file) /\ DOMAIN list = 1 .. N /\ N \in Nat
    BY LenProperties DEF ViewFits
  <1>2. kws \in Seq(StepSet(step)) /\ DOMAIN kws = 1 .. N
    BY LenProperties DEF StepIs
  <1>3. ListsPlaces(p, P) /\ (HasKw(v, name) <=> P # {}) /\ (HasKw(v, name) => v.kw_index[name] = p)
    BY ViewIndex, SMTT(30)
  <1>4. P = {n \in 1 .. N : kws[n].name = name}
    BY <1>1 DEF NamedIn
  <1>5. ASSUME NEW n \in P PROVE name \in Blocks[g].has
    <2>1. kws[n] \in StepSet(step) /\ kws[n].name = name
      BY <1>2, <1>4, ElementOfSeq
    <2>2. PICK b \in PartsOf(step) : kws[n] \in BlockSet(b)
      BY <2>1 DEF StepSet
    <2>3. name \in Blocks[b].has
      BY <2>1, <2>2 DEF BlockSet
    <2> QED BY <2>3 DEF PartsOf, StepFits
  <1>6. ASSUME name \in Blocks[g].has PROVE HasKw(v, name) /\ Data(v, name) = Blocks[g]
    <2>1. PICK i \in 1 .. N : /\ kws[i] = [name |-> name, value |-> g]
                              /\ \A j \in 1 .. N : j < i => kws[j].name # name
      BY <1>2, <1>6 DEF StepIs
    <2>2. i \in P /\ \A j \in P : ~(j < i)
      BY <1>4, <2>1
    <2> HIDE DEF P, p
    <2>3. p[1] + 1 = i
      BY <1>3, <2>2, FirstPlace
    <2>4. HasKw(v, name) /\ v.kw_index[name] = p
      BY <1>3, <2>2
    <2>5. GetKw(v, name, 0) = list[i]
      <3>1. 0 + 1 = 1
        OBVIOUS
      <3> QED BY <2>3, <2>4, <3>1 DEF GetKw
    <2>6. file[list[i]].value = g
      BY <2>1
    <2> QED BY <2>4, <2>5, <2>6 DEF Data
  <1>7. HasKw(v, name) => name \in Blocks[g].has
    BY <1>3, <1>5
  <1> QED BY <1>6, <1>7

-----------------------------------------------------------------------------
(* Where the steps of a unified file begin.                                *)

LEMMA Rising ==
    ASSUME NEW N \in Nat, NEW e \in [0 .. N -> Nat], \A n \in 1 .. N : e[n - 1] < e[n]
    PROVE  \A i, j \in 0 .. N : i < j => e[i] < e[j]
  <1> DEFINE T == {j \in 0 .. N : \A i \in 0 .. N : i < j => e[i] < e[j]}
  <1>1. 0 \in T
    OBVIOUS
  <1>2. ASSUME NEW j \in 0 .. N - 1, j \in T PROVE j + 1 \in T
    <2>1. j + 1 \in 1 .. N /\ j \in 0 .. N /\ j + 1 \in 0 .. N /\ j + 1 - 1 = j
      OBVIOUS
    <2>2. e[j] < e[j + 1] /\ e[j] \in Nat /\ e[j + 1] \in Nat
      BY <2>1
    <2>3. ASSUME NEW i \in 0 .. N, i < j + 1 PROVE e[i] < e[j + 1]
      <3>1. e[i] \in Nat /\ (i < j \/ i = j)
        BY <2>1, <2>3
      <3> QED BY <1>2, <2>2, <3>1
    <2> QED BY <2>1, <2>3
  <1> HIDE DEF T
  <1>3. 0 .. N \subseteq T
    BY <1>1, <1>2, UpToInduction
  <1> QED BY <1>3 DEF T

LEMMA SameList ==
    ASSUME NEW P, NEW p, ListsPlaces(p, P), NEW q, ListsPlaces(q, P)
    PROVE  Len(p) = Len(q) /\ \A i \in 1 .. Len(p) : p[i] = q[i]
  <1> DEFINE Below(x) == {m \in P : m < x}
  <1>1. /\ Cardinality(P) = Len(p) /\ Cardinality(P) = Len(q)
        /\ \A i \in 1 .. Len(p) : Cardinality(Below(p[i] + 1)) = i - 1
        /\ \A i \in 1 .. Len(q) : Cardinality(Below(q[i] + 1)) = i - 1
    BY CountOfPlaces
  <1>2. /\ \A i \in 1 .. Len(p) : p[i] \in Nat /\ p[i] + 1 \in P
        /\ \A i \in 1 .. Len(q) : q[i] \in Nat
        /\ \A m \in P : \E i \in 1 .. Len(q) : q[i] + 1 = m
    BY PlacesShape
  <1>3. ASSUME NEW i \in 1 .. Len(p) PROVE p[i] = q[i]
    <2>1. PICK j \in 1 .. Len(q) : q[j] + 1 = p[i] + 1
      BY <1>2
    <2>2. j - 1 = i - 1
      <3> HIDE DEF Below
      <3> QED BY <1>1, <2>1
    <2>3. q[j] = p[i] /\ j = i
      BY <1>2, <2>1, <2>2
    <2> QED BY <2>3
  <1> QED BY <1>1, <1>3

(* A block ends before the first keyword of the name after its own.        *)
LEMMA BlockStops ==
    ASSUME NEW v, NEW begin \in Int, NEW end, end # NoName, NEW N \in Int, N = Len(v.kw_list)
    PROVE  /\ (\A n \in begin + 1 .. N - 1 : file[v.kw_list[n + 1]].name # end) => Stop(v, begin, end) = N
           /\ \A x \in begin + 1 .. N - 1 :
                  file[v.kw_list[x + 1]].name = end
                      /\ (\A n \in begin + 1 .. N - 1 : file[v.kw_list[n + 1]].name = end => x <= n)
                  => Stop(v, begin, end) = x
  <1> DEFINE Here(n) == file[v.kw_list[n + 1]].name = end
             ends == {n \in begin + 1 .. Len(v.kw_list) - 1 : Here(n)}
  <1>1. Stop(v, begin, end) =
            IF ends = {} THEN Len(v.kw_list) ELSE CHOOSE n \in ends : \A m \in ends : n <= m
    BY DEF Stop
  <1>2. ends = {n \in begin + 1 .. N - 1 : Here(n)}
    OBVIOUS
  <1>3. ends \in SUBSET Int
    OBVIOUS
  <1> HIDE DEF ends
  <1>4. \A x \in ends : (\A m \in ends : x <= m) => (CHOOSE n \in ends : \A m \in ends : n <= m) = x
    BY <1>3, LeastIs
  <1> SUFFICES /\ (\A n \in begin + 1 .. N - 1 : ~Here(n)) => Stop(v, begin, end) = N
               /\ \A x \in begin + 1 .. N - 1 :
                      Here(x) /\ (\A n \in begin + 1 .. N - 1 : Here(n) => x <= n) => Stop(v, begin, end) = x
    OBVIOUS
  <1> HIDE DEF Here
  <1>5. (\A n \in begin + 1 .. N - 1 : ~Here(n)) => ends = {}
    BY <1>2
  <1>6. ASSUME NEW x \in begin + 1 .. N - 1, Here(x), \A n \in begin + 1 .. N - 1 : Here(n) => x <= n
        PROVE  x \in ends /\ \A m \in ends : x <= m
    BY <1>2, <1>6
  <1> QED BY <1>1, <1>4, <1>5, <1>6

LEMMA BlockStopsAt ==
    ASSUME NEW v, NEW begin \in Int, NEW end, end # NoName, NEW N \in Int, N = Len(v.kw_list),
           NEW x \in begin + 1 .. N - 1, file[v.kw_list[x + 1]].name = end,
           \A n \in begin + 1 .. N - 1 : file[v.kw_list[n + 1]].name = end => x <= n
    PROVE  Stop(v, begin, end) = x
  <1>1. \A y \in begin + 1 .. N - 1 :
            file[v.kw_list[y + 1]].name = end
                /\ (\A n \in begin + 1 .. N - 1 : file[v.kw_list[n + 1]].name = end => y <= n)
            => Stop(v, begin, end) = y
    BY BlockStops
  <1> QED BY <1>1

(* The view of a whole file.                                               *)
Opens(id, v) ==
    /\ file = FileKeywords(id)
    /\ ViewFits(file, v) /\ v.kw_list = [m \in DOMAIN file |-> m]

(* The SEQNUMs of a unified file are the first keywords of its steps.      *)
StepsBegin(id, v, e, N) ==
    /\ \A n \in 1 .. N : e[n - 1] < e[n]
    /\ \A m \in 1 .. Len(file) : file[m].name = "SEQNUM" => \E n \in 1 .. N : m = e[n - 1] + 1
    /\ \A n \in 1 .. N : /\ e[n - 1] + 1 \in 1 .. Len(file) /\ file[e[n - 1] + 1].name = "SEQNUM"
                         /\ HasKw(v, "SEQNUM") /\ v.kw_index["SEQNUM"][n] = e[n - 1]
    /\ NumNamedKw(v, "SEQNUM") = N

LEMMA UnifiedSteps ==
    ASSUME NEW id \in DOMAIN Dir, Dir[id].type = "unified", NEW v, Opens(id, v),
           NEW N, N = Len(Dir[id].steps), NEW e, Cuts(e, N, StepSeq(id), file)
    PROVE  StepsBegin(id, v, e, N)
  <1> DEFINE ss == StepSeq(id)
             steps == Dir[id].steps
             M == Len(file)
             P == NamedIn(file, v.kw_list, "SEQNUM")
             p == Places(file, v.kw_list, "SEQNUM")
             q == [n \in 1 .. N |-> e[n - 1]]
  <1>0. file = FileKeywords(id) /\ ViewFits(file, v) /\ v.kw_list = [m \in DOMAIN file |-> m]
    BY DEF Opens
  <1>1. /\ N \in Nat /\ \A n \in 1 .. N : "SEQNUM" \in Blocks[steps[n].global].has
    BY StepsOfFile
  <1>2. /\ file \in Seq(AnyKw)
        /\ \A n \in 1 .. N : ss[n] = StepKeywords(steps[n]) /\ StepIs(ss[n], steps[n]) /\ ss[n] \in Seq(AnyKw)
    BY <1>0, FileShape
  <1>3. M \in Nat /\ DOMAIN file = 1 .. M
    BY <1>2, LenProperties
  <1>4. /\ e \in [0 .. N -> Nat] /\ e[0] = 0 /\ e[N] = M
        /\ \A n \in 1 .. N : e[n] = e[n - 1] + Len(ss[n]) /\ e[n] <= M
        /\ \A n \in 1 .. N : \A i \in 1 .. Len(ss[n]) : file[e[n - 1] + i] = ss[n][i]
        /\ \A m \in 1 .. M : \E n \in 1 .. N : \E i \in 1 .. Len(ss[n]) : m = e[n - 1] + i
    BY DEF Cuts
  <1>5. \A n \in 1 .. N : /\ Len(ss[n]) \in Nat /\ DOMAIN ss[n] = 1 .. Len(ss[n])
                          /\ 1 \in 1 .. Len(ss[n]) /\ ss[n][1].name = "SEQNUM"
                          /\ \A i \in 1 .. Len(ss[n]) : ss[n][i].name = "SEQNUM" => i = 1
    <2> SUFFICES ASSUME NEW n \in 1 .. N
                 PROVE  /\ Len(ss[n]) \in Nat /\ DOMAIN ss[n] = 1 .. Len(ss[n])
                        /\ 1 \in 1 .. Len(ss[n]) /\ ss[n][1].name = "SEQNUM"
                        /\ \A i \in 1 .. Len(ss[n]) : ss[n][i].name = "SEQNUM" => i = 1
      OBVIOUS
    <2>1. Len(ss[n]) \in Nat /\ DOMAIN ss[n] = 1 .. Len(ss[n])
      <3> HIDE DEF ss
      <3> QED BY <1>2, LenProperties
    <2>2. StepIs(ss[n], steps[n]) /\ "SEQNUM" \in Blocks[steps[n].global].has
      BY <1>1, <1>2
    <2> HIDE DEF ss, steps
    <2> QED BY <2>1, <2>2 DEF StepIs
  <1> HIDE DEF ss, steps
  <1>6. \A n \in 1 .. N : n - 1 \in 0 .. N /\ n \in 0 .. N /\ e[n - 1] \in Nat /\ e[n] \in Nat
    BY <1>1, <1>4
  <1>7. \A n \in 1 .. N : e[n - 1] < e[n] /\ e[n - 1] + 1 \in 1 .. M /\ file[e[n - 1] + 1].name = "SEQNUM"
    <2> SUFFICES ASSUME NEW n \in 1 .. N
                 PROVE  e[n - 1] < e[n] /\ e[n - 1] + 1 \in 1 .. M /\ file[e[n - 1] + 1].name = "SEQNUM"
      OBVIOUS
    <2>1. e[n] = e[n - 1] + Len(ss[n]) /\ e[n] <= M /\ Len(ss[n]) \in Nat /\ 1 <= Len(ss[n])
      BY <1>4, <1>5
    <2>2. e[n - 1] \in Nat /\ e[n] \in Nat
      BY <1>6
    <2>3. file[e[n - 1] + 1].name = "SEQNUM"
      <3>1. 1 \in 1 .. Len(ss[n]) /\ ss[n][1].name = "SEQNUM"
        BY <1>5
      <3>2. file[e[n - 1] + 1] = ss[n][1]
        BY <1>4, <3>1
      <3> QED BY <3>1, <3>2
    <2> QED BY <1>3, <2>1, <2>2, <2>3
  <1>8. \A m \in 1 .. M : file[m].name = "SEQNUM" => \E n \in 1 .. N : m = e[n - 1] + 1
    <2> SUFFICES ASSUME NEW m \in 1 .. M, file[m].name = "SEQNUM" PROVE \E n \in 1 .. N : m = e[n - 1] + 1
      OBVIOUS
    <2>1. PICK n \in 1 .. N : \E i \in 1 .. Len(ss[n]) : m = e[n - 1] + i
      BY <1>4
    <2>2. PICK i \in 1 .. Len(ss[n]) : m = e[n - 1] + i
      BY <2>1
    <2>3. i = 1
      <3>1. file[m] = ss[n][i]
        BY <1>4, <2>2
      <3> QED BY <1>5, <3>1
    <2> QED BY <2>2, <2>3
  <1>9. P = {m \in 1 .. M : file[m].name = "SEQNUM"}
    BY <1>0, <1>3 DEF NamedIn
  <1>10. \A i, j \in 0 .. N : i < j => e[i] < e[j]
    BY <1>1, <1>4, <1>7, Rising
  <1>11. ListsPlaces(q, P)
    <2>1. q \in Seq(Nat) /\ DOMAIN q = 1 .. N
      <3>1. q \in [1 .. N -> Nat]
        BY <1>6
      <3> QED BY <1>1, <3>1, WrittenOut
    <2>2. \A i \in 1 .. N : q[i] + 1 \in P
      BY <1>7, <1>9
    <2>3. \A n \in P : \E i \in 1 .. N : q[i] + 1 = n
      BY <1>8, <1>9
    <2>4. \A i, j \in 1 .. N : i < j => q[i] < q[j]
      <3> SUFFICES ASSUME NEW i \in 1 .. N, NEW j \in 1 .. N, i < j PROVE q[i] < q[j]
        OBVIOUS
      <3>1. i - 1 \in 0 .. N /\ j - 1 \in 0 .. N /\ i - 1 < j - 1
        BY <1>1
      <3> QED BY <1>10, <3>1
    <2> HIDE DEF q, P
    <2> QED BY <2>1, <2>2, <2>3, <2>4 DEF ListsPlaces
  <1>12. Len(q) = N
    <2>1. q \in [1 .. N -> Nat]
      BY <1>6
    <2> HIDE DEF q
    <2> QED BY <1>1, <2>1, WrittenOut
  <1>13. /\ ListsPlaces(p, P) /\ (HasKw(v, "SEQNUM") <=> P # {})
         /\ (HasKw(v, "SEQNUM") => v.kw_index["SEQNUM"] = p) /\ NumNamedKw(v, "SEQNUM") = Len(p)
    <2>0. ViewFits(file, v)
      BY <1>0
    <2>1. PICK name : name = "SEQNUM"
      OBVIOUS
    <2>2. /\ ListsPlaces(Places(file, v.kw_list, name), NamedIn(file, v.kw_list, name))
          /\ HasKw(v, name) <=> NamedIn(file, v.kw_list, name) # {}
          /\ HasKw(v, name) => v.kw_index[name] = Places(file, v.kw_list, name)
          /\ NumNamedKw(v, name) = Len(Places(file, v.kw_list, name))
      BY <2>0, ViewIndex
    <2> QED BY <2>1, <2>2
  <1>14. Len(p) = N /\ \A n \in 1 .. N : p[n] = q[n]
    <2> HIDE DEF p, q, P
    <2> QED BY <1>11, <1>12, <1>13, SameList
  <1>15. \A n \in 1 .. N : q[n] = e[n - 1] /\ P # {}
    BY <1>7, <1>9
  <1> HIDE DEF p, q, P, M
  <1> QED BY <1>7, <1>8, <1>13, <1>14, <1>15 DEF StepsBegin, M

(* The view of the n-th block of a unified file reads the n-th step.       *)
LEMMA BlockOfStep ==
    ASSUME NEW id \in DOMAIN Dir, Dir[id].type = "unified", NEW v, Opens(id, v),
           NEW n \in 1 .. Len(Dir[id].steps)
    PROVE  Reads(ViewOfBlock(v, "SEQNUM", n - 1), Dir[id].steps[n])
  <1> DEFINE N == Len(Dir[id].steps)
             M == Len(file)
             list == v.kw_list
             kws == StepSeq(id)[n]
             block == Blockview(v, "SEQNUM", "SEQNUM", n - 1)
  <1>0. file = FileKeywords(id) /\ ViewFits(file, v) /\ v.kw_list = [m \in DOMAIN file |-> m]
    BY DEF Opens
  <1>1. N \in Nat /\ StepFits(Dir[id].steps[n])
    BY StepsOfFile
  <1>2. /\ file \in Seq(AnyKw) /\ HasCuts(N, StepSeq(id), file)
        /\ StepIs(kws, Dir[id].steps[n]) /\ kws \in Seq(AnyKw)
    BY <1>0, FileShape
  <1>3. M \in Nat /\ DOMAIN file = 1 .. M /\ Len(kws) \in Nat
    BY <1>2, LenProperties
  <1>4. PICK e : Cuts(e, N, StepSeq(id), file)
    BY <1>2 DEF HasCuts
  <1>5. StepsBegin(id, v, e, N)
    BY <1>4, UnifiedSteps
  <1>6. /\ list \in Seq(DOMAIN file) /\ Len(list) = M /\ \A m \in 1 .. M : list[m] = m
    BY <1>0, <1>3, LenProperties DEF ViewFits
  <1>7. /\ e \in [0 .. N -> Nat] /\ e[N] = M /\ e[n] = e[n - 1] + Len(kws) /\ e[n] <= M
        /\ \A i \in 1 .. Len(kws) : file[e[n - 1] + i] = kws[i]
    BY <1>4 DEF Cuts
  <1>8. n - 1 \in 0 .. N /\ n \in 0 .. N /\ e[n - 1] \in Nat /\ e[n] \in Nat /\ n - 1 + 1 = n
    BY <1>1, <1>7
  <1>9. \A i, j \in 0 .. N : i < j => e[i] < e[j]
    BY <1>1, <1>5, <1>7, Rising DEF StepsBegin
  <1>10. v.kw_index["SEQNUM"][n - 1 + 1] = e[n - 1] /\ e[n - 1] < e[n]
    BY <1>5, <1>8 DEF StepsBegin
  <1>11. "SEQNUM" # NoName
    BY WellFilesAssumption
  <1>12. Stop(v, e[n - 1], "SEQNUM") = e[n]
    <2>2. ASSUME NEW k \in e[n - 1] + 1 .. M - 1, file[list[k + 1]].name = "SEQNUM" PROVE n < N /\ e[n] <= k
      <3>1. k \in Int /\ e[n - 1] < k /\ k + 1 \in 1 .. M
        BY <1>3, <1>8
      <3>2. file[k + 1].name = "SEQNUM"
        BY <1>6, <2>2, <3>1
      <3>3. PICK j \in 1 .. N : k + 1 = e[j - 1] + 1
        BY <1>5, <3>1, <3>2 DEF StepsBegin
      <3>4. j - 1 \in 0 .. N /\ e[j - 1] \in Nat
        <4>1. e \in [0 .. N -> Nat]
          BY <1>7
        <4> HIDE DEF N
        <4> QED BY <1>1, <4>1
      <3>5. k = e[j - 1]
        BY <3>1, <3>3, <3>4
      <3>6. ~(j - 1 < n - 1) /\ j - 1 # n - 1
        <4>1. ~(e[j - 1] < e[n - 1])
          BY <1>8, <3>1, <3>4, <3>5
        <4>2. j - 1 < n - 1 => e[j - 1] < e[n - 1]
          <5> HIDE DEF N
          <5> QED BY <1>8, <1>9, <3>4
        <4>3. e[j - 1] # e[n - 1]
          BY <1>8, <3>1, <3>5
        <4> QED BY <4>1, <4>2, <4>3
      <3>7. n <= j - 1
        BY <1>1, <3>6
      <3>8. n < N /\ (n < j - 1 \/ n = j - 1)
        BY <1>1, <3>7
      <3>9. e[n] <= e[j - 1]
        <4> HIDE DEF N
        <4>1. n < j - 1 => e[n] < e[j - 1]
          BY <1>8, <1>9, <3>4
        <4> QED BY <1>8, <3>4, <3>8, <4>1
      <3> QED BY <3>1, <3>5, <3>8, <3>9
    <2>3. M = Len(list) /\ M \in Int /\ e[n - 1] \in Int /\ e[N] = M
      BY <1>3, <1>6, <1>7, <1>8
    <2>4. CASE n = N
      <3>1. \A k \in e[n - 1] + 1 .. M - 1 : file[list[k + 1]].name # "SEQNUM"
        BY <1>1, <2>2, <2>4
      <3> DEFINE a == e[n - 1]
      <3>2. a \in Int /\ \A k \in a + 1 .. M - 1 : file[list[k + 1]].name # "SEQNUM"
        BY <2>3, <3>1
      <3> HIDE DEF M, list, a
      <3>3. Stop(v, a, "SEQNUM") = M
        BY <1>11, <2>3, <3>2, BlockStops DEF list
      <3> QED BY <2>3, <2>4, <3>3 DEF a
    <2>5. CASE n # N
      <3>1. n + 1 \in 1 .. N /\ n + 1 - 1 = n
        BY <1>1, <2>5
      <3>2. e[n] + 1 \in 1 .. M /\ file[e[n] + 1].name = "SEQNUM"
        BY <1>5, <3>1 DEF StepsBegin
      <3> DEFINE a == e[n - 1]
                 b == e[n]
      <3>3. a \in Nat /\ b \in Nat /\ a < b /\ b + 1 \in 1 .. M
        BY <1>8, <1>10, <3>2
      <3>4. list[b + 1] = b + 1
        BY <1>6, <3>3
      <3>5. \A k \in a + 1 .. M - 1 : file[list[k + 1]].name = "SEQNUM" => b <= k
        BY <2>2
      <3>6. file[list[b + 1]].name = "SEQNUM"
        BY <3>2, <3>4
      <3> HIDE DEF M, a, b
      <3>7. b \in a + 1 .. M - 1
        BY <1>3, <3>3
      <3> HIDE DEF list
      <3>8. Stop(v, a, "SEQNUM") = b
        <4>1. a \in Int /\ M \in Int /\ M = Len(v.kw_list)
          BY <2>3, <3>3 DEF list
        <4>2. file[v.kw_list[b + 1]].name = "SEQNUM"
          BY <3>6 DEF list
        <4>3. \A k \in a + 1 .. M - 1 : file[v.kw_list[k + 1]].name = "SEQNUM" => b <= k
          BY <3>5 DEF list
        <4> QED BY <1>11, <3>7, <4>1, <4>2, <4>3, BlockStopsAt
      <3> QED BY <3>8 DEF a, b
    <2> QED BY <2>4, <2>5
  <1>13. block = SubSeq(list, e[n - 1] + 1, e[n])
    BY <1>10, <1>11, <1>12 DEF Blockview
  <1>14. /\ block \in Seq(DOMAIN file) /\ Len(block) = Len(kws)
         /\ \A i \in 1 .. Len(kws) : block[i] = e[n - 1] + i
    <2> DEFINE a == e[n - 1]
               b == e[n]
    <2>1. a \in Nat /\ b = a + Len(kws) /\ b <= M /\ Len(kws) \in Nat
      BY <1>3, <1>7, <1>8
    <2> HIDE DEF a, b
    <2>2. a + 1 \in 1 .. Len(list) + 1 /\ b \in a .. Len(list)
      BY <1>3, <1>6, <2>1
    <2>3. \A k \in a + 1 .. b : k \in 1 .. Len(list)
      BY <2>1, <1>3, <1>6
    <2>4. /\ SubSeq(list, a + 1, b) \in Seq(DOMAIN file)
          /\ Len(SubSeq(list, a + 1, b)) = IF a + 1 <= b THEN b - (a + 1) + 1 ELSE 0
          /\ \A i \in 1 .. b - (a + 1) + 1 : SubSeq(list, a + 1, b)[i] = list[a + 1 + i - 1]
      <3>1. a + 1 \in Int /\ b \in Int
        BY <2>1
      <3>2. \A k \in a + 1 .. b : list[k] \in DOMAIN file
        <4> SUFFICES ASSUME NEW k \in a + 1 .. b PROVE list[k] \in DOMAIN file
          OBVIOUS
        <4>1. k \in 1 .. M
          BY <1>6, <2>3
        <4> HIDE DEF M, list
        <4> QED BY <1>3, <1>6, <4>1
      <3> HIDE DEF list, M
      <3> QED BY <3>1, <3>2, SubSeqProperties
    <2>5. Len(SubSeq(list, a + 1, b)) = Len(kws)
      BY <2>1, <2>4
    <2>6. \A i \in 1 .. Len(kws) : SubSeq(list, a + 1, b)[i] = a + i
      <3> SUFFICES ASSUME NEW i \in 1 .. Len(kws) PROVE SubSeq(list, a + 1, b)[i] = a + i
        OBVIOUS
      <3>1. i \in 1 .. b - (a + 1) + 1 /\ a + 1 + i - 1 = a + i /\ a + i \in 1 .. M
        BY <1>3, <2>1
      <3> QED BY <1>6, <2>4, <3>1
    <2> QED BY <1>13, <2>4, <2>5, <2>6 DEF a, b
  <1> HIDE DEF block, kws
  <1>15. ViewFits(file, Indexed(file, block)) /\ Indexed(file, block).kw_list = block
    BY <1>14, IndexedFits
  <1>16. \A i \in 1 .. Len(kws) : file[block[i]] = kws[i]
    BY <1>7, <1>14
  <1>17. Reads(Indexed(file, block), Dir[id].steps[n])
    BY <1>1, <1>2, <1>14, <1>15, <1>16, ViewReads
  <1> QED BY <1>17 DEF ViewOfBlock, block

(* Any other file is the keywords of its one step.                         *)
LEMMA FileOfStep ==
    ASSUME NEW id \in DOMAIN Dir, Dir[id].type = "restart", NEW v, Opens(id, v)
    PROVE  Reads(v, Dir[id].steps[1])
  <1> DEFINE kws == StepSeq(id)[1]
             M == Len(file)
             ss == StepSeq(id)
  <1>0. file = FileKeywords(id) /\ ViewFits(file, v) /\ v.kw_list = [m \in DOMAIN file |-> m]
    BY DEF Opens
  <1>1. Len(Dir[id].steps) = 1 /\ StepFits(Dir[id].steps[1])
    BY StepsOfFile
  <1>2. /\ file \in Seq(AnyKw) /\ HasCuts(1, ss, file)
        /\ StepIs(kws, Dir[id].steps[1]) /\ kws \in Seq(AnyKw)
    <2> DEFINE N == Len(Dir[id].steps)
    <2>1. /\ FileKeywords(id) \in Seq(AnyKw) /\ HasCuts(N, ss, FileKeywords(id))
          /\ \A n \in 1 .. N : StepIs(ss[n], Dir[id].steps[n]) /\ ss[n] \in Seq(AnyKw)
      BY FileShape
    <2>2. N = 1 /\ 1 \in 1 .. 1
      BY <1>1
    <2> HIDE DEF N, ss
    <2>3. StepIs(ss[1], Dir[id].steps[1]) /\ ss[1] \in Seq(AnyKw) /\ HasCuts(1, ss, FileKeywords(id))
      BY <2>1, <2>2
    <2> QED BY <1>0, <2>1, <2>3 DEF ss
  <1>3. M \in Nat /\ DOMAIN file = 1 .. M /\ Len(kws) \in Nat
    BY <1>2, LenProperties
  <1>4. PICK e : Cuts(e, 1, ss, file)
    BY <1>2 DEF HasCuts
  <1>5. /\ e[0] = 0 /\ e[1] = M /\ e[1] = e[1 - 1] + Len(kws)
        /\ \A i \in 1 .. Len(kws) : file[e[1 - 1] + i] = kws[i]
    BY <1>4 DEF Cuts
  <1> HIDE DEF kws
  <1>6. Len(kws) = M /\ \A i \in 1 .. Len(kws) : file[i] = kws[i]
    <2>1. 1 - 1 = 0
      OBVIOUS
    <2> QED BY <1>3, <1>5, <2>1
  <1>7. Len(v.kw_list) = M /\ \A i \in 1 .. M : v.kw_list[i] = i
    BY <1>0, <1>3, LenProperties DEF ViewFits
  <1> QED BY <1>0, <1>1, <1>2, <1>6, <1>7, ViewReads

-----------------------------------------------------------------------------
(* The time lines of a list of entries, and one state more.                *)

IsList(s) == \E S : s \in Seq(S)

(* The time lines tell the entries of the list.                            *)
Says(w, names, list) ==
    /\ IsList(names) /\ Range(names) = DOMAIN w
    /\ DOMAIN w = {list[m].entry.name : m \in DOMAIN list}
    /\ \A name \in DOMAIN w : /\ IsList(w[name])
                              /\ Len(w[name]) = Cardinality(EntriesWith(list, Len(list), name))
    /\ \A m \in DOMAIN list : Tells(StateOf(w, list, m), list[m].entry)

LEMMA ListExtended ==
    ASSUME NEW s, IsList(s), NEW x
    PROVE  /\ Len(s) \in Nat /\ DOMAIN s = 1 .. Len(s)
           /\ IsList(Append(s, x)) /\ Len(Append(s, x)) = Len(s) + 1
           /\ DOMAIN Append(s, x) = 1 .. Len(s) + 1
           /\ \A i \in 1 .. Len(s) : Append(s, x)[i] = s[i]
           /\ Append(s, x)[Len(s) + 1] = x
           /\ Range(Append(s, x)) = Range(s) \cup {x}
  <1> DEFINE t == Append(s, x)
             N == Len(s)
  <1>1. PICK S : s \in Seq(S)
    BY DEF IsList
  <1>2. s \in Seq(S \cup {x}) /\ x \in S \cup {x}
    BY <1>1, SeqMonotonic
  <1>3. /\ t \in Seq(S \cup {x}) /\ Len(t) = N + 1 /\ \A i \in 1 .. N : t[i] = s[i]
        /\ t[N + 1] = x /\ N \in Nat /\ DOMAIN s = 1 .. N
    BY <1>2, AppendProperties, LenProperties
  <1>4. DOMAIN t = 1 .. N + 1
    BY <1>3, LenProperties
  <1>5. IsList(t)
    BY <1>3 DEF IsList
  <1> HIDE DEF t, N
  <1>6. \A i \in 1 .. N + 1 : i \in 1 .. N \/ i = N + 1
    BY <1>3
  <1>7. \A i \in 1 .. N : i \in 1 .. N + 1
    BY <1>3
  <1>8. N + 1 \in 1 .. N + 1
    BY <1>3
  <1>9. Range(t) = Range(s) \cup {x}
    BY <1>3, <1>4, <1>6, <1>7, <1>8 DEF Range
  <1> QED BY <1>3, <1>4, <1>5, <1>9 DEF t, N

LEMMA CountedEntries ==
    ASSUME NEW list, NEW m \in Nat, NEW name
    PROVE  LET c == Cardinality(EntriesWith(list, m, name))
           IN  /\ IsFiniteSet(EntriesWith(list, m, name)) /\ c \in Nat
               /\ EntriesWith(list, m, name) = {} => c = 0
               /\ \A k \in 0 .. m : Cardinality(EntriesWith(list, k, name)) <= c
               /\ m \in EntriesWith(list, m, name) => 1 <= c
  <1> DEFINE E == EntriesWith(list, m, name)
  <1>1. E \in SUBSET (1 .. m)
    BY DEF EntriesWith
  <1>2. IsFiniteSet(1 .. m)
    <2>1. 1 \in Int /\ m \in Int
      OBVIOUS
    <2> QED BY <2>1, FS_Interval
  <1>3. IsFiniteSet(E)
    BY <1>1, <1>2, FS_Subset
  <1>4. Cardinality(E) \in Nat
    BY <1>3, FS_CardinalityType
  <1>5. ASSUME NEW k \in 0 .. m PROVE Cardinality(EntriesWith(list, k, name)) <= Cardinality(E)
    <2>1. EntriesWith(list, k, name) \subseteq E
      BY DEF EntriesWith
    <2> QED BY <1>3, <2>1, FS_Subset
  <1>6. E = {} => Cardinality(E) = 0
    BY FS_EmptySet
  <1>7. m \in E => 1 <= Cardinality(E)
    <2>1. m \in E => Cardinality(E) # 0
      BY <1>3, FS_EmptySet
    <2> QED BY <1>4, <2>1
  <1> HIDE DEF E
  <1> QED BY <1>3, <1>4, <1>5, <1>6, <1>7 DEF E

(* One entry more.                                                         *)
LEMMA EntryMore ==
    ASSUME NEW list, IsList(list), NEW x, NEW name
    PROVE  LET more == Append(list, x)
               N == Len(list)
           IN  /\ \A m \in 0 .. N : EntriesWith(more, m, name) = EntriesWith(list, m, name)
               /\ EntriesWith(more, N + 1, name) =
                      EntriesWith(list, N, name) \cup (IF x.entry.name = name THEN {N + 1} ELSE {})
               /\ Cardinality(EntriesWith(more, N + 1, name)) =
                      Cardinality(EntriesWith(list, N, name)) + (IF x.entry.name = name THEN 1 ELSE 0)
  <1> DEFINE more == Append(list, x)
             N == Len(list)
             old == EntriesWith(list, N, name)
  <1>1. N \in Nat /\ (\A i \in 1 .. N : more[i] = list[i]) /\ more[N + 1] = x
    BY ListExtended
  <1> HIDE DEF more, N
  <1>2. \A m \in 0 .. N : EntriesWith(more, m, name) = EntriesWith(list, m, name)
    <2> SUFFICES ASSUME NEW m \in 0 .. N PROVE EntriesWith(more, m, name) = EntriesWith(list, m, name)
      OBVIOUS
    <2>1. \A k \in 1 .. m : more[k] = list[k]
      BY <1>1
    <2> QED BY <2>1 DEF EntriesWith
  <1>3. \A k : k \in 1 .. N + 1 <=> k \in 1 .. N \/ k = N + 1
    BY <1>1
  <1>4. EntriesWith(more, N + 1, name) = old \cup (IF x.entry.name = name THEN {N + 1} ELSE {})
    BY <1>1, <1>3 DEF EntriesWith
  <1>5. IsFiniteSet(old) /\ Cardinality(old) \in Nat
    BY <1>1, CountedEntries
  <1>6. N + 1 \notin old
    BY <1>1 DEF EntriesWith
  <1>7. Cardinality(EntriesWith(more, N + 1, name)) = Cardinality(old) + (IF x.entry.name = name THEN 1 ELSE 0)
    <2> HIDE DEF old
    <2>1. CASE x.entry.name = name
      BY <1>4, <1>5, <1>6, <2>1, FS_AddElement
    <2>2. CASE x.entry.name # name
      BY <1>4, <1>5, <2>2
    <2> QED BY <2>1, <2>2
  <1> QED BY <1>2, <1>4, <1>7 DEF more, N

AccIs(acc) ==
    /\ acc = [wells |-> acc.wells, names |-> acc.names, result |-> acc.result]
    /\ acc.result \in {"fine", "raises", "crashes"}

(* One state more for it.                                                  *)
LEMMA StateAppended ==
    ASSUME NEW acc, AccIs(acc), NEW s, NEW list, IsList(list), NEW x,
           s.name = x.entry.name, Tells(s, x.entry), Says(acc.wells, acc.names, list)
    PROVE  LET r == Appended(acc, s)
           IN  Says(r.wells, r.names, Append(list, x))
  <1> DEFINE w == acc.wells
             r == Appended(acc, s)
             w2 == [name \in DOMAIN w \cup {s.name} |->
                       IF name = s.name THEN Append(Timeline(w, name), s) ELSE w[name]]
             n2 == IF s.name \in DOMAIN w THEN acc.names ELSE Append(acc.names, s.name)
             more == Append(list, x)
             N == Len(list)
             Names0 == {list[m].entry.name : m \in 1 .. N}
             Count(l, m, name) == Cardinality(EntriesWith(l, m, name))
  <1>1. r.wells = w2 /\ r.names = n2
    <2>1. acc = [wells |-> acc.wells, names |-> acc.names, result |-> acc.result]
      BY DEF AccIs
    <2>2. r = [[acc EXCEPT !.wells = w2] EXCEPT !.names = n2]
      BY DEF Appended
    <2> HIDE DEF w2, n2, r
    <2> QED BY <2>1, <2>2
  <1>2. /\ N \in Nat /\ DOMAIN list = 1 .. N /\ IsList(more) /\ Len(more) = N + 1
        /\ DOMAIN more = 1 .. N + 1
        /\ (\A i \in 1 .. N : more[i] = list[i]) /\ more[N + 1] = x
    BY ListExtended
  <1>3. /\ IsList(acc.names) /\ Range(acc.names) = DOMAIN w /\ DOMAIN w = Names0
        /\ \A name \in DOMAIN w : IsList(w[name]) /\ Len(w[name]) = Count(list, N, name)
        /\ \A m \in 1 .. N : Tells(StateOf(w, list, m), list[m].entry)
    BY <1>2 DEF Says
  <1>4. /\ \A name : \A m \in 0 .. N : EntriesWith(more, m, name) = EntriesWith(list, m, name)
        /\ \A name : Count(more, N + 1, name) = Count(list, N, name) + (IF s.name = name THEN 1 ELSE 0)
    BY EntryMore
  <1>5. \A k : k \in 1 .. N + 1 <=> k \in 1 .. N \/ k = N + 1
    BY <1>2
  <1> HIDE DEF more, N, w
  <1>6. IsList(Timeline(w, s.name)) /\ Len(Timeline(w, s.name)) = Count(list, N, s.name)
    <2>1. CASE s.name \in DOMAIN w
      BY <1>3, <2>1 DEF Timeline
    <2>2. CASE s.name \notin DOMAIN w
      <3>1. EntriesWith(list, N, s.name) = {}
        BY <1>3, <2>2 DEF EntriesWith
      <3>2. Count(list, N, s.name) = 0
        BY <1>2, <3>1, CountedEntries
      <3>3. Timeline(w, s.name) = <<>>
        BY <2>2 DEF Timeline
      <3>4. IsList(<<>>) /\ Len(<<>>) = 0
        BY EmptySeq DEF IsList
      <3> QED BY <3>2, <3>3, <3>4
    <2> QED BY <2>1, <2>2
  <1>7. /\ IsList(w2[s.name]) /\ Len(w2[s.name]) = Count(list, N, s.name) + 1
        /\ \A i \in 1 .. Count(list, N, s.name) : w2[s.name][i] = Timeline(w, s.name)[i]
        /\ w2[s.name][Count(list, N, s.name) + 1] = s
    <2>1. w2[s.name] = Append(Timeline(w, s.name), s)
      OBVIOUS
    <2> HIDE DEF w2, Count
    <2> QED BY <1>6, <2>1, ListExtended
  <1>8. /\ DOMAIN w2 = DOMAIN w \cup {s.name}
        /\ \A name \in DOMAIN w : name # s.name => w2[name] = w[name]
    OBVIOUS
  <1>9. DOMAIN w2 = {more[m].entry.name : m \in DOMAIN more}
    <2>1. \A m \in 1 .. N + 1 : more[m].entry.name = IF m = N + 1 THEN s.name ELSE list[m].entry.name
      BY <1>2, <1>5
    <2>2. \A m \in 1 .. N : m \in 1 .. N + 1 /\ m # N + 1
      BY <1>2
    <2>3. N + 1 \in 1 .. N + 1
      BY <1>2
    <2> HIDE DEF w2
    <2> QED BY <1>2, <1>3, <1>5, <1>8, <2>1, <2>2, <2>3
  <1>10. IsList(n2) /\ Range(n2) = DOMAIN w2
    <2>1. CASE s.name \in DOMAIN w
      BY <1>3, <1>8, <2>1
    <2>2. CASE s.name \notin DOMAIN w
      <3>1. IsList(Append(acc.names, s.name)) /\ Range(Append(acc.names, s.name)) = DOMAIN w \cup {s.name}
        BY <1>3, ListExtended
      <3> HIDE DEF w2
      <3> QED BY <1>8, <2>2, <3>1
    <2> QED BY <2>1, <2>2
  <1> HIDE DEF w2, n2
  <1>11. ASSUME NEW name \in DOMAIN w2
         PROVE  IsList(w2[name]) /\ Len(w2[name]) = Count(more, Len(more), name)
    <2>1. CASE name = s.name
      BY <1>2, <1>4, <1>7, <2>1
    <2>2. CASE name # s.name
      <3>1. name \in DOMAIN w /\ w2[name] = w[name]
        BY <1>8, <2>2
      <3>2. Count(list, N, name) \in Nat
        BY <1>2, CountedEntries
      <3> HIDE DEF Count
      <3> QED BY <1>2, <1>3, <1>4, <2>2, <3>1, <3>2
    <2> QED BY <2>1, <2>2
  <1>12. ASSUME NEW m \in 1 .. N PROVE StateOf(w2, more, m) = StateOf(w, list, m)
    <2> DEFINE name == list[m].entry.name
               c == Count(list, m, name)
    <2>1. m \in Nat /\ m \in 0 .. N /\ more[m] = list[m]
      BY <1>2
    <2>2. m \in EntriesWith(list, m, name)
      BY <2>1 DEF EntriesWith
    <2>3. c \in Nat /\ 1 <= c /\ c <= Count(list, N, name) /\ Count(list, N, name) \in Nat
      BY <1>2, <2>1, <2>2, CountedEntries
    <2>4. Count(more, m, name) = c
      BY <1>4, <2>1
    <2>5. StateOf(w2, more, m) = w2[name][c] /\ StateOf(w, list, m) = w[name][c]
      BY <2>1, <2>4 DEF StateOf
    <2>6. name \in DOMAIN w
      BY <1>3
    <2>7. w2[name][c] = w[name][c]
      <3> HIDE DEF c, Count
      <3>1. CASE name = s.name
        <4>1. c \in 1 .. Count(list, N, name)
          BY <2>3
        <4>2. w2[s.name][c] = Timeline(w, s.name)[c]
          BY <1>7, <3>1, <4>1
        <4>3. Timeline(w, s.name) = w[s.name]
          BY <2>6, <3>1 DEF Timeline
        <4> QED BY <3>1, <4>2, <4>3
      <3>2. CASE name # s.name
        BY <1>8, <2>6, <3>2
      <3> QED BY <3>1, <3>2
    <2> QED BY <2>5, <2>7
  <1>13. StateOf(w2, more, N + 1) = s
    <2>1. more[N + 1].entry.name = s.name /\ Count(more, N + 1, s.name) = Count(list, N, s.name) + 1
      BY <1>2, <1>4
    <2>2. StateOf(w2, more, N + 1) = w2[s.name][Count(more, N + 1, s.name)]
      BY <2>1 DEF StateOf
    <2> QED BY <1>7, <2>1, <2>2
  <1>14. \A m \in DOMAIN more : Tells(StateOf(w2, more, m), more[m].entry)
    BY <1>2, <1>3, <1>5, <1>12, <1>13
  <1>15. Says(w2, n2, more)
    BY <1>9, <1>10, <1>11, <1>14 DEF Says
  <1> QED BY <1>1, <1>15 DEF more

-----------------------------------------------------------------------------
(* One well, then all of a step.                                           *)

Item(e, load) == [entry |-> e, load |-> load]
Items(entries, load) == [n \in DOMAIN entries |-> Item(entries[n], load)]
EntryOf(step, w, report) ==
    [name |-> Blocks[step.global].wells[w].name, step |-> step, w |-> w, report |-> report]

LEMMA ResultSet ==
    ASSUME NEW acc, AccIs(acc), NEW x \in {"fine", "raises", "crashes"}
    PROVE  AccIs([acc EXCEPT !.result = x]) /\ [acc EXCEPT !.result = x].result = x
  <1>1. acc = [wells |-> acc.wells, names |-> acc.names, result |-> acc.result]
    BY DEF AccIs
  <1>2. [acc EXCEPT !.result = x] = [wells |-> acc.wells, names |-> acc.names, result |-> x]
    BY <1>1
  <1> QED BY <1>2 DEF AccIs

LEMMA ResultKept ==
    ASSUME NEW acc, AccIs(acc), NEW s
    PROVE  AccIs(Appended(acc, s)) /\ Appended(acc, s).result = acc.result
  <1> DEFINE a == [name \in DOMAIN acc.wells \cup {s.name} |->
                      IF name = s.name THEN Append(Timeline(acc.wells, name), s) ELSE acc.wells[name]]
             b == IF s.name \in DOMAIN acc.wells THEN acc.names ELSE Append(acc.names, s.name)
  <1>1. acc = [wells |-> acc.wells, names |-> acc.names, result |-> acc.result]
        /\ acc.result \in {"fine", "raises", "crashes"}
    BY DEF AccIs
  <1>2. Appended(acc, s) = [[acc EXCEPT !.wells = a] EXCEPT !.names = b]
    BY DEF Appended
  <1> HIDE DEF a, b
  <1>3. Appended(acc, s) = [wells |-> a, names |-> b, result |-> acc.result]
    BY <1>1, <1>2
  <1> QED BY <1>1, <1>3 DEF AccIs

(* What is read for a well of a step.                                      *)
LEMMA StateTells ==
    ASSUME NEW v, NEW step, Reads(v, step), HasHeader(v), HasKw(v, "IWEL"), HasKw(v, "ZWEL"),
           NEW w, NEW parts, NEW connections, NEW report, NEW load
    PROVE  LET s == State(v, w, parts, connections, report, load)
           IN  /\ s.name = EntryOf(step, w, report).name
               /\ Tells(s, EntryOf(step, w, report))
  <1> DEFINE b == Blocks[step.global]
             s == State(v, w, parts, connections, report, load)
             e == EntryOf(step, w, report)
  <1>0. {"IWEL", "ZWEL", "INTEHEAD", "XWEL"} \subseteq Known \ {"LGR"}
    <2>1. /\ KeywordOrder[3] = "INTEHEAD" /\ KeywordOrder[6] = "IWEL"
          /\ KeywordOrder[7] = "ZWEL" /\ KeywordOrder[8] = "XWEL"
      BY DEF KeywordOrder
    <2>2. {3, 6, 7, 8} \subseteq DOMAIN KeywordOrder
      BY OrderOfNames
    <2> QED BY <2>1, <2>2 DEF Known
  <1>1. /\ Data(v, "IWEL") = b /\ Data(v, "ZWEL") = b /\ Data(v, "INTEHEAD") = b
        /\ HasKw(v, "XWEL") <=> "XWEL" \in b.has
        /\ HasKw(v, "XWEL") => Data(v, "XWEL") = b
    BY <1>0 DEF Reads, HasHeader
  <1>2. /\ s.name = Data(v, "ZWEL").wells[w].name /\ s.nr = w - 1
        /\ s.open = Data(v, "IWEL").wells[w].open /\ s.type = Data(v, "IWEL").wells[w].type
        /\ s.report = report /\ s.time = Data(v, "INTEHEAD").date
        /\ s.rate = IF HasKw(v, "XWEL") THEN Data(v, "XWEL").wells[w].rate ELSE 0
    BY DEF State
  <1>3. e.name = b.wells[w].name /\ e.step = step /\ e.w = w /\ e.report = report
    BY DEF EntryOf
  <1> HIDE DEF s, e
  <1>4. s.rate = IF "XWEL" \in b.has THEN b.wells[w].rate ELSE 0
    BY <1>1, <1>2
  <1> HIDE DEF b
  <1> QED BY <1>1, <1>2, <1>3, <1>4 DEF Tells, b, s, e

(* A well that is read is one entry more.                                  *)
LEMMA WellAdded ==
    ASSUME NEW acc, AccIs(acc), NEW v, NEW step, Reads(v, step), HasHeader(v), NEW views,
           NEW w, NEW report, NEW load, NEW ld, NEW list, IsList(list)
    PROVE  LET r == AddWell(acc, v, views, w, report, load)
           IN  /\ AccIs(r)
               /\ r.result = "fine" => acc.result = "fine"
               /\ ~HasKw(v, "IWEL") => r = acc
               /\ (HasKw(v, "IWEL") /\ r.result = "fine" /\ Says(acc.wells, acc.names, list)) =>
                      Says(r.wells, r.names, Append(list, Item(EntryOf(step, w, report), ld)))
  <1> DEFINE r == AddWell(acc, v, views, w, report, load)
             parts == With(v, views, w, Data(v, "ZWEL").wells[w].name)
             s == State(v, w, parts, Connections(parts), report, load)
             e == EntryOf(step, w, report)
             more == Append(list, Item(e, ld))
  <1>1. CASE acc.result # "fine" \/ ~HasKw(v, "IWEL")
    <2>1. r = acc
      BY <1>1 DEF AddWell
    <2> HIDE DEF r
    <2> QED BY <1>1, <2>1 DEF r
  <1>2. CASE acc.result = "fine" /\ HasKw(v, "IWEL")
    <2>1. CASE ReadFails(v, views, w)
      <3>1. r = [acc EXCEPT !.result = "raises"]
        BY <1>2, <2>1 DEF AddWell
      <3> HIDE DEF r
      <3> QED BY <1>2, <3>1, ResultSet DEF r
    <2>2. CASE ~ReadFails(v, views, w)
      <3>1. r = IF NullSegment(Iseg(v, w, load), Connections(parts))
                THEN [acc EXCEPT !.result = "crashes"] ELSE Appended(acc, s)
        BY <1>2, <2>2 DEF AddWell
      <3>2. HasKw(v, "ZWEL")
        BY <2>2 DEF ReadFails
      <3>3. CASE NullSegment(Iseg(v, w, load), Connections(parts))
        <4>1. r = [acc EXCEPT !.result = "crashes"]
          BY <3>1, <3>3
        <4> HIDE DEF r
        <4> QED BY <1>2, <4>1, ResultSet DEF r
      <3>4. CASE ~NullSegment(Iseg(v, w, load), Connections(parts))
        <4>1. r = Appended(acc, s)
          BY <3>1, <3>4
        <4>2. s.name = e.name /\ Tells(s, e)
          BY <1>2, <3>2, StateTells
        <4> HIDE DEF r, s, e
        <4>3. Item(e, ld).entry = e
          BY DEF Item
        <4>4. Says(acc.wells, acc.names, list) => Says(r.wells, r.names, more)
          BY <4>1, <4>2, <4>3, StateAppended
        <4>5. AccIs(r) /\ r.result = acc.result
          BY <4>1, ResultKept
        <4> QED BY <1>2, <4>4, <4>5 DEF r, e
      <3> QED BY <3>3, <3>4
    <2> QED BY <2>1, <2>2
  <1> QED BY <1>1, <1>2 DEF AccIs

(* The first elements behind a list, and one more.                         *)
LEMMA FirstMore ==
    ASSUME NEW n \in Nat, NEW S, NEW f, \A k \in 1 .. n + 1 : f[k] \in S,
           NEW list \in Seq(S)
    PROVE  /\ [k \in 1 .. n |-> f[k]] \in Seq(S)
           /\ list \o [k \in 1 .. n |-> f[k]] \in Seq(S)
           /\ list \o [k \in 1 .. n + 1 |-> f[k]] = Append(list \o [k \in 1 .. n |-> f[k]], f[n + 1])
  <1> DEFINE p == [k \in 1 .. n |-> f[k]]
             q == [k \in 1 .. n + 1 |-> f[k]]
             x == f[n + 1]
  <1>1. p \in Seq(S) /\ Len(p) = n
    <2>1. p \in [1 .. n -> S]
      OBVIOUS
    <2> HIDE DEF p
    <2> QED BY <2>1, WrittenOut
  <1>2. q \in Seq(S) /\ Len(q) = n + 1
    <2>1. q \in [1 .. n + 1 -> S] /\ n + 1 \in Nat
      OBVIOUS
    <2> HIDE DEF q
    <2> QED BY <2>1, WrittenOut
  <1>3. x \in S
    OBVIOUS
  <1>4. (\A k \in 1 .. n : p[k] = f[k]) /\ (\A k \in 1 .. n + 1 : q[k] = f[k])
    OBVIOUS
  <1> HIDE DEF p, q, x
  <1>5. /\ Append(p, x) \in Seq(S) /\ Len(Append(p, x)) = n + 1
        /\ \A k \in 1 .. n : Append(p, x)[k] = p[k]
        /\ Append(p, x)[n + 1] = x
    BY <1>1, <1>3, AppendProperties
  <1>6. q = Append(p, x)
    <2>1. \A k \in 1 .. n + 1 : Append(p, x)[k] = q[k]
      <3> SUFFICES ASSUME NEW k \in 1 .. n + 1 PROVE Append(p, x)[k] = q[k]
        OBVIOUS
      <3>1. CASE k \in 1 .. n
        BY <1>4, <1>5, <3>1
      <3>2. CASE k = n + 1
        BY <1>4, <1>5, <3>2 DEF x
      <3>3. k \in 1 .. n \/ k = n + 1
        OBVIOUS
      <3> QED BY <3>1, <3>2, <3>3
    <2> QED BY <1>2, <1>5, <2>1, SeqEqual
  <1>7. list \o p \in Seq(S) /\ <<x>> \in Seq(S)
    BY <1>1, <1>3, ConcatProperties
  <1>8. Append(p, x) = p \o <<x>> /\ Append(list \o p, x) = (list \o p) \o <<x>>
    BY <1>1, <1>3, <1>7, AppendIsConcat
  <1>9. list \o (p \o <<x>>) = (list \o p) \o <<x>>
    BY <1>1, <1>7, ConcatAssociative
  <1> QED BY <1>1, <1>6, <1>7, <1>8, <1>9 DEF p, q, x

(* All wells of a step, as far as nothing fails.                           *)
LEMMA WellsAdded ==
    ASSUME NEW acc, AccIs(acc), NEW v, NEW step, Reads(v, step), step.global \in DOMAIN Blocks,
           NEW views, NEW report, NEW load, NEW ld, NEW list, IsList(list)
    PROVE  LET r == AddWells(acc, v, views, report, load)
           IN  /\ AccIs(r)
               /\ r.result = "fine" => acc.result = "fine"
               /\ (r.result = "fine" /\ Says(acc.wells, acc.names, list)) =>
                      Says(r.wells, r.names, list \o Items(Entries(step, report), ld))
  <1> DEFINE r == AddWells(acc, v, views, report, load)
             b == Blocks[step.global]
             N == b.nwells
             F(p, w) == AddWell(p, v, views, w, report, load)
             f == [w \in 1 .. N |-> Item(EntryOf(step, w, report), ld)]
             some(n) == list \o [w \in 1 .. n |-> f[w]]
  <1>1. CASE ~HasHeader(v)
    <2>1. r = [acc EXCEPT !.result = "raises"]
      BY <1>1 DEF AddWells
    <2> HIDE DEF r
    <2> QED BY <2>1, ResultSet DEF r
  <1>2. CASE HasHeader(v)
    <2>0. N \in Nat
      BY WellFilesAssumption
    <2>1. Data(v, "INTEHEAD") = b /\ (HasKw(v, "IWEL") <=> "IWEL" \in b.has)
      <3>1. {"INTEHEAD", "IWEL"} \subseteq Known \ {"LGR"}
        <4>1. KeywordOrder[3] = "INTEHEAD" /\ KeywordOrder[6] = "IWEL"
          BY DEF KeywordOrder
        <4>2. {3, 6} \subseteq DOMAIN KeywordOrder
          BY OrderOfNames
        <4> QED BY <4>1, <4>2 DEF Known
      <3> QED BY <1>2, <3>1 DEF Reads, HasHeader
    <2> DEFINE after(u) == u = [w \in 0 .. N |-> IF w = 0 THEN acc ELSE F(u[w - 1], w)]
               Solves(u, n) == /\ DOMAIN u = 0 .. n /\ u[0] = acc
                               /\ \A w \in 1 .. n : u[w] = F(u[w - 1], w)
               Solved == {n \in 0 .. N : \E u : Solves(u, n)}
    <2>2. r = (CHOOSE u : after(u))[N]
      BY <1>2, <2>1 DEF AddWells
    <2>3. 0 \in Solved
      <3> DEFINE u == [w \in 0 .. 0 |-> acc]
      <3>1. DOMAIN u = 0 .. 0 /\ u[0] = acc
        OBVIOUS
      <3> HIDE DEF u, F
      <3>2. Solves(u, 0)
        BY <3>1
      <3> QED BY <2>0, <3>2
    <2>4. ASSUME NEW n \in 0 .. N - 1, n \in Solved PROVE n + 1 \in Solved
      <3>1. PICK u : Solves(u, n)
        BY <2>4
      <3> HIDE DEF F
      <3> DEFINE m == n + 1
                 t == [w \in 0 .. m |-> IF w = m THEN F(u[n], m) ELSE u[w]]
      <3>2. /\ n \in Nat /\ m \in 0 .. N /\ m - 1 = n /\ m \in 0 .. m /\ 0 \in 0 .. m /\ 0 # m /\ n # m
            /\ n \in 0 .. m
            /\ \A w \in 1 .. m : w = m \/ (w \in 1 .. n /\ w # m /\ w - 1 # m /\ w - 1 \in 0 .. m /\ w \in 0 .. m)
        BY <2>0
      <3> HIDE DEF m
      <3>3. t[m] = F(t[n], m) /\ t[0] = acc /\ DOMAIN t = 0 .. m
        BY <3>1, <3>2
      <3>4. \A w \in 1 .. m : t[w] = F(t[w - 1], w)
        <4> SUFFICES ASSUME NEW w \in 1 .. m PROVE t[w] = F(t[w - 1], w)
          OBVIOUS
        <4>1. CASE w = m
          BY <3>2, <3>3, <4>1
        <4>2. CASE w # m
          <5>1. w \in 1 .. n /\ w # m /\ w - 1 # m /\ w - 1 \in 0 .. m /\ w \in 0 .. m
            BY <3>2, <4>2
          <5>2. t[w] = u[w] /\ t[w - 1] = u[w - 1]
            BY <5>1
          <5>3. u[w] = F(u[w - 1], w)
            BY <3>1, <5>1
          <5> QED BY <5>2, <5>3
        <4> QED BY <4>1, <4>2
      <3> HIDE DEF t
      <3>5. Solves(t, m)
        BY <3>3, <3>4
      <3> QED BY <3>2, <3>5 DEF m
    <2>5. \E u : Solves(u, N)
      <3> HIDE DEF Solves
      <3>1. 0 .. N \subseteq Solved
        <4> HIDE DEF Solved, N
        <4> QED BY <2>0, <2>3, <2>4, UpToInduction
      <3>2. N \in 0 .. N
        BY <2>0
      <3> QED BY <3>1, <3>2
    <2> DEFINE u == CHOOSE u : after(u)
    <2>6. Solves(u, N) /\ r = u[N]
      <3>1. PICK t : Solves(t, N)
        BY <2>5
      <3> HIDE DEF F
      <3> DEFINE t2 == [w \in 0 .. N |-> IF w = 0 THEN acc ELSE F(t[w - 1], w)]
      <3>2. \A w \in 0 .. N : w = 0 \/ (w \in 1 .. N /\ w # 0)
        BY <2>0
      <3>3. ASSUME NEW w \in 0 .. N PROVE t2[w] = t[w]
        BY <3>1, <3>2
      <3>4. after([w \in 0 .. N |-> t[w]])
        <4> DEFINE t3 == [w \in 0 .. N |-> t[w]]
        <4>1. \A w \in 0 .. N : w # 0 => w - 1 \in 0 .. N
          BY <2>0
        <4>2. \A w \in 0 .. N : w # 0 => t3[w - 1] = t[w - 1]
          BY <4>1
        <4>3. [w \in 0 .. N |-> IF w = 0 THEN acc ELSE F(t3[w - 1], w)] = t2
          BY <4>2
        <4>4. t3 = t2
          BY <3>3
        <4> HIDE DEF t2
        <4> QED BY <4>3, <4>4
      <3>5. after(u)
        <4> HIDE DEF after
        <4> QED BY <3>4
      <3> HIDE DEF u
      <3>6. DOMAIN u = 0 .. N
        BY <3>5
      <3>7. \A w \in 0 .. N : u[w] = IF w = 0 THEN acc ELSE F(u[w - 1], w)
        BY <3>5
      <3>8. 0 \in 0 .. N /\ \A w \in 1 .. N : w \in 0 .. N /\ w # 0
        BY <2>0
      <3>9. Solves(u, N)
        BY <3>6, <3>7, <3>8
      <3> QED BY <2>2, <3>9 DEF u
    <2> HIDE DEF u, Solved, after
    <2>7. u[0] = acc /\ \A w \in 1 .. N : u[w] = F(u[w - 1], w)
      BY <2>6
    <2> HIDE DEF Solves
    <2>8. PICK S : list \in Seq(S) /\ \A w \in 1 .. N : f[w] \in S
      <3>1. PICK S : list \in Seq(S)
        BY DEF IsList
      <3> DEFINE T == S \cup {f[w] : w \in 1 .. N}
      <3>2. list \in Seq(T)
        BY <3>1, SeqMonotonic
      <3> QED BY <3>2
    <2>9. \A w \in 1 .. N : f[w] = Item(EntryOf(step, w, report), ld)
      OBVIOUS
    <2> HIDE DEF f
    <2>10. /\ some(0) = list
           /\ \A n \in 0 .. N : IsList(some(n))
           /\ \A n \in 0 .. N - 1 : some(n + 1) = Append(some(n), f[n + 1])
      <3>1. some(0) = list
        <4>1. [w \in 1 .. 0 |-> f[w]] = <<>>
          OBVIOUS
        <4> QED BY <2>8, <4>1, ConcatEmptySeq
      <3>2. ASSUME NEW n \in 0 .. N - 1 PROVE IsList(some(n)) /\ some(n + 1) = Append(some(n), f[n + 1])
        <4>1. n \in Nat /\ \A k \in 1 .. n + 1 : f[k] \in S
          BY <2>0, <2>8
        <4>2. list \o [k \in 1 .. n |-> f[k]] \in Seq(S)
              /\ list \o [k \in 1 .. n + 1 |-> f[k]] = Append(list \o [k \in 1 .. n |-> f[k]], f[n + 1])
          BY <2>8, <4>1, FirstMore
        <4> QED BY <4>2 DEF IsList
      <3>3. IsList(some(N))
        <4>1. [k \in 1 .. N |-> f[k]] \in Seq(S)
          <5>1. [k \in 1 .. N |-> f[k]] \in [1 .. N -> S]
            BY <2>8
          <5> QED BY <2>0, <5>1, WrittenOut
        <4> QED BY <2>8, <4>1, ConcatProperties DEF IsList
      <3>4. \A n \in 0 .. N : n \in 0 .. N - 1 \/ n = N
        BY <2>0
      <3> HIDE DEF some
      <3> QED BY <3>1, <3>2, <3>3, <3>4
    <2> DEFINE here(n) == IF HasKw(v, "IWEL") THEN some(n) ELSE list
               Fine(n) == /\ AccIs(u[n]) /\ (u[n].result = "fine" => acc.result = "fine")
                          /\ (u[n].result = "fine" /\ Says(acc.wells, acc.names, list)) =>
                                 Says(u[n].wells, u[n].names, here(n))
               T == {n \in 0 .. N : Fine(n)}
    <2> HIDE DEF some
    <2>11. 0 \in T
      <3>1. here(0) = list /\ 0 \in 0 .. N
        BY <2>0, <2>10
      <3> HIDE DEF here
      <3> QED BY <2>7, <3>1
    <2>12. ASSUME NEW n \in 0 .. N - 1, n \in T PROVE n + 1 \in T
      <3> DEFINE m == n + 1
      <3>1. m \in 0 .. N /\ m \in 1 .. N /\ m - 1 = n /\ n \in 0 .. N
        BY <2>0
      <3>2. u[m] = AddWell(u[n], v, views, m, report, load)
        BY <2>7, <3>1
      <3>3. Fine(n)
        BY <2>12
      <3>4. IsList(some(n)) /\ some(m) = Append(some(n), Item(EntryOf(step, m, report), ld))
        BY <2>9, <2>10, <3>1
      <3> DEFINE q == u[n]
                 p == u[m]
                 old == some(n)
                 new == some(m)
      <3>5. AccIs(q)
        BY <3>3
      <3> HIDE DEF m, q, p, old, new
      <3>6. p = AddWell(q, v, views, m, report, load)
        BY <3>2 DEF p, q
      <3>7. IsList(old) /\ new = Append(old, Item(EntryOf(step, m, report), ld))
        BY <3>4 DEF old, new
      <3>8. /\ AccIs(p)
            /\ p.result = "fine" => q.result = "fine"
            /\ ~HasKw(v, "IWEL") => p = q
            /\ (HasKw(v, "IWEL") /\ p.result = "fine" /\ Says(q.wells, q.names, old)) =>
                   Says(p.wells, p.names, new)
        BY <1>2, <3>5, <3>6, <3>7, WellAdded
      <3>9. here(n) = (IF HasKw(v, "IWEL") THEN old ELSE list) /\ here(m) = (IF HasKw(v, "IWEL") THEN new ELSE list)
        BY DEF old, new
      <3>10. Fine(m)
        <4> HIDE DEF here
        <4> QED BY <3>3, <3>8, <3>9 DEF p, q
      <3> HIDE DEF Fine
      <3> QED BY <3>1, <3>10 DEF m
    <2>13. Fine(N)
      <3> HIDE DEF Fine
      <3>1. 0 .. N \subseteq T
        <4> HIDE DEF T, N
        <4> QED BY <2>0, <2>11, <2>12, UpToInduction
      <3>2. N \in 0 .. N
        BY <2>0
      <3> QED BY <3>1, <3>2
    <2>14. here(N) = list \o Items(Entries(step, report), ld)
      <3>1. CASE HasKw(v, "IWEL")
        <4>1. Entries(step, report) = [w \in 1 .. N |-> EntryOf(step, w, report)]
          BY <2>1, <3>1 DEF Entries, EntryOf
        <4>2. Items(Entries(step, report), ld) = [w \in 1 .. N |-> f[w]]
          BY <2>9, <4>1 DEF Items
        <4> QED BY <3>1, <4>2 DEF some
      <3>2. CASE ~HasKw(v, "IWEL")
        <4>1. Entries(step, report) = <<>>
          BY <2>1, <3>2 DEF Entries
        <4>2. Items(<<>>, ld) = <<>>
          BY DEF Items
        <4> QED BY <2>8, <3>2, <4>1, <4>2, ConcatEmptySeq
      <3> QED BY <3>1, <3>2
    <2> HIDE DEF here, r
    <2> QED BY <2>6, <2>13, <2>14 DEF r
  <1> QED BY <1>1, <1>2

-----------------------------------------------------------------------------
(* All steps of a file.                                                    *)

Report(id, step) ==
    IF Dir[id].type = "unified" THEN Blocks[step.global].report ELSE Dir[id].report
StepEntries(id, n) == Entries(Dir[id].steps[n], Report(id, Dir[id].steps[n]))
EntrySet(id) == UNION {Range(StepEntries(id, n)) : n \in DOMAIN Dir[id].steps}
FirstEntries(id, n) == FlattenSeq([k \in 1 .. n |-> StepEntries(id, k)])

(* The entries of a file, step by step.                                    *)
LEMMA EntriesOfSteps ==
    ASSUME NEW id \in DOMAIN Dir
    PROVE  LET N == Len(Dir[id].steps)
           IN  /\ \A n \in 1 .. N : StepEntries(id, n) \in Seq(EntrySet(id))
               /\ FirstEntries(id, 0) = <<>> /\ FirstEntries(id, N) = EntriesOf(id)
               /\ \A n \in 0 .. N : FirstEntries(id, n) \in Seq(EntrySet(id))
               /\ \A n \in 0 .. N - 1 : FirstEntries(id, n + 1) = FirstEntries(id, n) \o StepEntries(id, n + 1)
  <1> DEFINE N == Len(Dir[id].steps)
             S == EntrySet(id)
             first(n) == [k \in 1 .. n |-> StepEntries(id, k)]
  <1>1. N \in Nat /\ DOMAIN Dir[id].steps = 1 .. N /\ \A n \in 1 .. N : StepFits(Dir[id].steps[n])
    BY StepsOfFile
  <1>2. \A n \in 1 .. N : StepEntries(id, n) \in Seq(S)
    <2> SUFFICES ASSUME NEW n \in 1 .. N PROVE StepEntries(id, n) \in Seq(S)
      OBVIOUS
    <2> DEFINE step == Dir[id].steps[n]
               b == Blocks[step.global]
               E == StepEntries(id, n)
    <2>1. Range(E) \subseteq S
      BY <1>1 DEF EntrySet
    <2>2. CASE "IWEL" \notin b.has
      <3>1. E = <<>>
        BY <2>2 DEF StepEntries, Entries
      <3> QED BY <3>1, EmptySeq
    <2>3. CASE "IWEL" \in b.has
      <3>0. step.global \in DOMAIN Blocks
        BY <1>1 DEF StepFits
      <3>1. b.nwells \in Nat
        BY <3>0, WellFilesAssumption
      <3>2. E = [w \in 1 .. b.nwells |-> E[w]] /\ DOMAIN E = 1 .. b.nwells
        BY <2>3 DEF StepEntries, Entries
      <3> HIDE DEF E, b
      <3>3. E \in [1 .. b.nwells -> Range(E)]
        BY <3>2 DEF Range
      <3>4. E \in Seq(Range(E))
        BY <3>1, <3>3, WrittenOut
      <3> HIDE DEF S
      <3> QED BY <2>1, <3>4, SeqMonotonic DEF E
    <2> QED BY <2>2, <2>3
  <1> HIDE DEF S
  <1>3. FirstEntries(id, 0) = <<>>
    <2>1. first(0) = <<>>
      OBVIOUS
    <2> QED BY <2>1, FlattenNone DEF FirstEntries
  <1>4. FirstEntries(id, N) = EntriesOf(id)
    <2>1. EntriesOf(id) = FlattenSeq([n \in DOMAIN Dir[id].steps |-> StepEntries(id, n)])
      BY DEF EntriesOf, StepEntries, Report
    <2> QED BY <1>1, <2>1 DEF FirstEntries
  <1>5. ASSUME NEW n \in 0 .. N - 1
        PROVE  /\ FirstEntries(id, n) \in Seq(S)
               /\ FirstEntries(id, n + 1) = FirstEntries(id, n) \o StepEntries(id, n + 1)
    <2>1. n \in Nat /\ n + 1 \in 1 .. n + 1 /\ \A k \in 1 .. n + 1 : k \in 1 .. N
      BY <1>1
    <2>2. first(n + 1) \in [1 .. n + 1 -> Seq(S)]
      BY <1>2, <2>1
    <2>3. /\ [k \in 1 .. n |-> first(n + 1)[k]] = first(n)
          /\ first(n + 1)[n + 1] = StepEntries(id, n + 1)
      BY <2>1
    <2> HIDE DEF first
    <2>4. /\ FlattenSeq([k \in 1 .. n |-> first(n + 1)[k]]) \in Seq(S)
          /\ FlattenSeq(first(n + 1)) = FlattenSeq([k \in 1 .. n |-> first(n + 1)[k]]) \o first(n + 1)[n + 1]
      BY <2>1, <2>2, FlattenMore
    <2>5. FlattenSeq(first(n)) \in Seq(S) /\ FlattenSeq(first(n + 1)) = FlattenSeq(first(n)) \o StepEntries(id, n + 1)
      BY <2>3, <2>4
    <2> QED BY <2>5 DEF FirstEntries, first
  <1>6. FirstEntries(id, N) \in Seq(S)
    <2>1. first(N) \in [1 .. N -> Seq(S)]
      BY <1>2
    <2> HIDE DEF first
    <2>2. FlattenSeq(first(N)) \in Seq(S)
      BY <1>1, <2>1, FlattenCut
    <2> QED BY <2>2 DEF FirstEntries, first
  <1>7. \A n \in 0 .. N : n \in 0 .. N - 1 \/ n = N
    BY <1>1
  <1> HIDE DEF N
  <1> QED BY <1>2, <1>3, <1>4, <1>5, <1>6, <1>7 DEF N, S

ItemsFollow(list, a, b, ld) ==
    /\ IsList(list \o Items(a, ld))
    /\ list \o Items(a \o b, ld) = (list \o Items(a, ld)) \o Items(b, ld)

LEMMA ItemsJoined ==
    ASSUME NEW S, NEW a \in Seq(S), NEW b \in Seq(S), NEW ld, NEW list, IsList(list)
    PROVE  ItemsFollow(list, a, b, ld)
  <1> DEFINE I == {Item(x, ld) : x \in S}
             A == Len(a)
             B == Len(b)
             c == a \o b
  <1>1. \A s \in Seq(S) : /\ Items(s, ld) \in Seq(I) /\ Len(Items(s, ld)) = Len(s)
                          /\ \A i \in 1 .. Len(s) : Items(s, ld)[i] = Item(s[i], ld)
    <2> SUFFICES ASSUME NEW s \in Seq(S)
                 PROVE  /\ Items(s, ld) \in Seq(I) /\ Len(Items(s, ld)) = Len(s)
                        /\ \A i \in 1 .. Len(s) : Items(s, ld)[i] = Item(s[i], ld)
      OBVIOUS
    <2>1. Len(s) \in Nat /\ DOMAIN s = 1 .. Len(s) /\ \A i \in 1 .. Len(s) : s[i] \in S
      BY LenProperties, ElementOfSeq
    <2>2. Items(s, ld) \in [1 .. Len(s) -> I] /\ \A i \in 1 .. Len(s) : Items(s, ld)[i] = Item(s[i], ld)
      BY <2>1 DEF Items
    <2> HIDE DEF I
    <2> QED BY <2>1, <2>2, WrittenOut
  <1>2. /\ A \in Nat /\ B \in Nat /\ c \in Seq(S) /\ Len(c) = A + B
        /\ \A i \in 1 .. A + B : c[i] = IF i <= A THEN a[i] ELSE b[i - A]
    BY ConcatProperties, LenProperties
  <1> HIDE DEF I, c
  <1>3. /\ Items(a, ld) \o Items(b, ld) \in Seq(I) /\ Len(Items(a, ld) \o Items(b, ld)) = A + B
        /\ \A i \in 1 .. A + B : (Items(a, ld) \o Items(b, ld))[i] =
               IF i <= A THEN Items(a, ld)[i] ELSE Items(b, ld)[i - A]
    <2> DEFINE p == Items(a, ld)
               q == Items(b, ld)
    <2>1. p \in Seq(I) /\ q \in Seq(I) /\ Len(p) = A /\ Len(q) = B
      BY <1>1
    <2> HIDE DEF p, q, A, B
    <2>2. /\ p \o q \in Seq(I) /\ Len(p \o q) = Len(p) + Len(q)
          /\ \A i \in 1 .. Len(p) + Len(q) : (p \o q)[i] = IF i <= Len(p) THEN p[i] ELSE q[i - Len(p)]
      BY <2>1, ConcatProperties
    <2> QED BY <2>1, <2>2 DEF p, q
  <1>4. Items(c, ld) = Items(a, ld) \o Items(b, ld)
    <2>1. Items(c, ld) \in Seq(I) /\ Len(Items(c, ld)) = A + B
      BY <1>1, <1>2
    <2>2. \A i \in 1 .. A + B : Items(c, ld)[i] = (Items(a, ld) \o Items(b, ld))[i]
      <3> SUFFICES ASSUME NEW i \in 1 .. A + B PROVE Items(c, ld)[i] = (Items(a, ld) \o Items(b, ld))[i]
        OBVIOUS
      <3>1. Items(c, ld)[i] = Item(c[i], ld)
        BY <1>1, <1>2
      <3>2. CASE i <= A
        <4>1. i \in 1 .. A
          BY <1>2, <3>2
        <4>2. Items(a, ld)[i] = Item(a[i], ld)
          BY <1>1, <4>1
        <4> QED BY <1>2, <1>3, <3>1, <3>2, <4>2
      <3>3. CASE ~(i <= A)
        <4>1. i - A \in 1 .. B
          BY <1>2, <3>3
        <4>2. Items(b, ld)[i - A] = Item(b[i - A], ld)
          BY <1>1, <4>1
        <4> QED BY <1>2, <1>3, <3>1, <3>3, <4>2
      <3> QED BY <3>2, <3>3
    <2> QED BY <1>3, <2>1, <2>2, SeqEqual
  <1>5. PICK T : list \in Seq(T)
    BY DEF IsList
  <1> DEFINE U == T \cup I
  <1>6. list \in Seq(U) /\ Items(a, ld) \in Seq(U) /\ Items(b, ld) \in Seq(U)
    BY <1>1, <1>5, SeqMonotonic
  <1> HIDE DEF U
  <1>7. list \o Items(a, ld) \in Seq(U)
    BY <1>6, ConcatProperties
  <1>8. list \o (Items(a, ld) \o Items(b, ld)) = (list \o Items(a, ld)) \o Items(b, ld)
    BY <1>6, ConcatAssociative, SMTT(30)
  <1> QED BY <1>4, <1>7, <1>8 DEF ItemsFollow, IsList, c

(* One step of a unified file after the other.                             *)
LEMMA UnifiedAdded ==
    ASSUME NEW id \in DOMAIN Dir, Dir[id].type = "unified", Opens(id, global_view),
           NEW acc, AccIs(acc), NEW load, NEW ld, NEW list, IsList(list)
    PROVE  LET r == AddUNRSTWells(acc, load)
           IN  /\ AccIs(r)
               /\ r.result = "fine" => acc.result = "fine"
               /\ (r.result = "fine" /\ Says(acc.wells, acc.names, list)) =>
                      Says(r.wells, r.names, list \o Items(EntriesOf(id), ld))
  <1> DEFINE r == AddUNRSTWells(acc, load)
             steps == Dir[id].steps
             N == NumNamedKw(global_view, "SEQNUM")
             V(n) == ViewOfBlock(global_view, "SEQNUM", n - 1)
             F(p, n) == IF p.result # "fine" THEN p
                        ELSE AddWells(p, V(n), LgrViews(V(n)), Data(V(n), "SEQNUM").report, load)
             after(u) == u = [n \in 0 .. N |-> IF n = 0 THEN acc ELSE F(u[n - 1], n)]
             Solves(u, n) == /\ DOMAIN u = 0 .. n /\ u[0] = acc
                             /\ \A k \in 1 .. n : u[k] = F(u[k - 1], k)
             Solved == {n \in 0 .. N : \E u : Solves(u, n)}
             S == EntrySet(id)
             some(n) == list \o Items(FirstEntries(id, n), ld)
  <1>1. /\ Len(steps) \in Nat /\ \A n \in 1 .. Len(steps) : /\ StepFits(steps[n])
                                                            /\ "SEQNUM" \in Blocks[steps[n].global].has
    BY StepsOfFile
  <1>2. N = Len(steps)
    <2>1. HasCuts(Len(steps), StepSeq(id), FileKeywords(id))
      BY FileShape
    <2>2. PICK e : Cuts(e, Len(steps), StepSeq(id), file)
      BY <2>1 DEF Opens, HasCuts
    <2>3. StepsBegin(id, global_view, e, Len(steps))
      BY <2>2, UnifiedSteps
    <2> QED BY <2>3 DEF StepsBegin
  <1>3. \A n \in 1 .. Len(steps) : /\ Reads(V(n), steps[n])
                                   /\ Data(V(n), "SEQNUM").report = Report(id, steps[n])
    <2> SUFFICES ASSUME NEW n \in 1 .. Len(steps)
                 PROVE  Reads(V(n), steps[n]) /\ Data(V(n), "SEQNUM").report = Report(id, steps[n])
      OBVIOUS
    <2>1. Reads(V(n), steps[n])
      BY BlockOfStep
    <2>2. "SEQNUM" \in Known \ {"LGR"}
      <3>1. KeywordOrder[1] = "SEQNUM" /\ 1 \in DOMAIN KeywordOrder
        BY OrderOfNames
      <3> QED BY <3>1 DEF Known
    <2> HIDE DEF V, steps
    <2>3. Data(V(n), "SEQNUM") = Blocks[steps[n].global]
      BY <1>1, <2>1, <2>2 DEF Reads
    <2> QED BY <2>1, <2>3 DEF Report
  <1>4. r = (CHOOSE u : after(u))[N]
    BY DEF AddUNRSTWells
  <1> HIDE DEF F, r
  <1>5. N \in Nat
    BY <1>1, <1>2
  <1> HIDE DEF N
  <1>6. 0 \in Solved
    <2> DEFINE u == [w \in 0 .. 0 |-> acc]
    <2>1. DOMAIN u = 0 .. 0 /\ u[0] = acc
      OBVIOUS
    <2> HIDE DEF u
    <2>2. Solves(u, 0)
      BY <2>1
    <2> QED BY <1>5, <2>2
  <1>7. ASSUME NEW n \in 0 .. N - 1, n \in Solved PROVE n + 1 \in Solved
    <2>1. PICK u : Solves(u, n)
      BY <1>7
    <2> DEFINE m == n + 1
               t == [w \in 0 .. m |-> IF w = m THEN F(u[n], m) ELSE u[w]]
    <2>2. /\ n \in Nat /\ m \in 0 .. N /\ m - 1 = n /\ m \in 0 .. m /\ 0 \in 0 .. m /\ 0 # m /\ n # m
          /\ n \in 0 .. m
          /\ \A w \in 1 .. m : w = m \/ (w \in 1 .. n /\ w # m /\ w - 1 # m /\ w - 1 \in 0 .. m /\ w \in 0 .. m)
      BY <1>5
    <2> HIDE DEF m
    <2>3. t[m] = F(t[n], m) /\ t[0] = acc /\ DOMAIN t = 0 .. m
      BY <2>1, <2>2
    <2>4. \A w \in 1 .. m : t[w] = F(t[w - 1], w)
      <3> SUFFICES ASSUME NEW w \in 1 .. m PROVE t[w] = F(t[w - 1], w)
        OBVIOUS
      <3>1. CASE w = m
        BY <2>2, <2>3, <3>1
      <3>2. CASE w # m
        <4>1. w \in 1 .. n /\ w # m /\ w - 1 # m /\ w - 1 \in 0 .. m /\ w \in 0 .. m
          BY <2>2, <3>2
        <4>2. t[w] = u[w] /\ t[w - 1] = u[w - 1]
          BY <4>1
        <4>3. u[w] = F(u[w - 1], w)
          BY <2>1, <4>1
        <4> QED BY <4>2, <4>3
      <3> QED BY <3>1, <3>2
    <2> HIDE DEF t
    <2>5. Solves(t, m)
      BY <2>3, <2>4
    <2> QED BY <2>2, <2>5 DEF m
  <1>8. \E u : Solves(u, N)
    <2> HIDE DEF Solves
    <2>1. 0 .. N \subseteq Solved
      <3> HIDE DEF Solved
      <3> QED BY <1>5, <1>6, <1>7, UpToInduction
    <2>2. N \in 0 .. N
      BY <1>5
    <2> QED BY <2>1, <2>2
  <1> DEFINE u == CHOOSE u : after(u)
  <1>9. Solves(u, N)
    <2>1. PICK t : Solves(t, N)
      BY <1>8
    <2> DEFINE t2 == [w \in 0 .. N |-> IF w = 0 THEN acc ELSE F(t[w - 1], w)]
               t3 == [w \in 0 .. N |-> t[w]]
    <2>2. \A w \in 0 .. N : w = 0 \/ (w \in 1 .. N /\ w # 0 /\ w - 1 \in 0 .. N)
      BY <1>5
    <2>3. ASSUME NEW w \in 0 .. N PROVE t2[w] = t[w]
      BY <2>1, <2>2
    <2>4. after(t3)
      <3>1. \A w \in 0 .. N : w # 0 => t3[w - 1] = t[w - 1]
        BY <2>2
      <3>2. [w \in 0 .. N |-> IF w = 0 THEN acc ELSE F(t3[w - 1], w)] = t2
        BY <3>1
      <3>3. t3 = t2
        BY <2>3
      <3> HIDE DEF t2
      <3> QED BY <3>2, <3>3
    <2>5. after(u)
      <3> HIDE DEF after
      <3> QED BY <2>4
    <2> HIDE DEF u
    <2>6. DOMAIN u = 0 .. N
      BY <2>5
    <2>7. \A w \in 0 .. N : u[w] = IF w = 0 THEN acc ELSE F(u[w - 1], w)
      BY <2>5
    <2>8. 0 \in 0 .. N /\ \A w \in 1 .. N : w \in 0 .. N /\ w # 0
      BY <1>5
    <2> QED BY <2>6, <2>7, <2>8
  <1>10. r = u[N]
    BY <1>4
  <1> HIDE DEF u, Solved, after
  <1>11. u[0] = acc /\ \A w \in 1 .. N : u[w] = F(u[w - 1], w)
    BY <1>9
  <1> HIDE DEF Solves
  <1>12. /\ FirstEntries(id, 0) = <<>> /\ FirstEntries(id, N) = EntriesOf(id)
         /\ \A n \in 0 .. N : FirstEntries(id, n) \in Seq(S)
         /\ \A n \in 1 .. N : StepEntries(id, n) \in Seq(S)
         /\ \A n \in 0 .. N - 1 : FirstEntries(id, n + 1) = FirstEntries(id, n) \o StepEntries(id, n + 1)
    BY <1>2, EntriesOfSteps
  <1> HIDE DEF S
  <1> DEFINE Fine(n) == /\ AccIs(u[n]) /\ (u[n].result = "fine" => acc.result = "fine")
                        /\ (u[n].result = "fine" /\ Says(acc.wells, acc.names, list)) =>
                               Says(u[n].wells, u[n].names, some(n))
             T == {n \in 0 .. N : Fine(n)}
  <1>13. some(0) = list
    <2>1. Items(<<>>, ld) = <<>>
      BY DEF Items
    <2>2. PICK Q : list \in Seq(Q)
      BY DEF IsList
    <2> QED BY <1>12, <2>1, <2>2, ConcatEmptySeq
  <1>14. 0 \in T
    <2> HIDE DEF some
    <2> QED BY <1>5, <1>11, <1>13
  <1>15. ASSUME NEW n \in 0 .. N - 1, n \in T PROVE n + 1 \in T
    <2> DEFINE m == n + 1
               q == u[n]
               p == u[m]
               old == some(n)
               new == some(m)
               E == StepEntries(id, m)
    <2>1. m \in 0 .. N /\ m \in 1 .. N /\ m - 1 = n /\ n \in 0 .. N
      BY <1>5
    <2>2. Fine(n)
      BY <1>15
    <2>3. p = F(q, m)
      BY <1>11, <2>1
    <2>4. IsList(old) /\ new = old \o Items(E, ld)
      <3> DEFINE a == FirstEntries(id, n)
      <3>1. a \in Seq(S) /\ E \in Seq(S) /\ FirstEntries(id, m) = a \o E
        BY <1>12, <2>1
      <3> HIDE DEF a, E, m
      <3>2. a \in Seq(S) /\ E \in Seq(S)
        BY <3>1
      <3>3. ItemsFollow(list, a, E, ld)
        BY <3>2, ItemsJoined
      <3> QED BY <3>1, <3>3 DEF a, ItemsFollow
    <2>5. AccIs(q)
      BY <2>2
    <2>6. Reads(V(m), steps[m]) /\ steps[m].global \in DOMAIN Blocks
          /\ Data(V(m), "SEQNUM").report = Report(id, steps[m])
      BY <1>1, <1>2, <1>3, <2>1 DEF StepFits
    <2>7. E = Entries(steps[m], Report(id, steps[m]))
      BY DEF StepEntries
    <2> DEFINE v == V(m)
               step == steps[m]
               rep == Report(id, steps[m])
               views == LgrViews(V(m))
    <2>8. p = IF q.result # "fine" THEN q ELSE AddWells(q, v, views, rep, load)
      BY <2>3, <2>6 DEF F
    <2>9. Reads(v, step) /\ step.global \in DOMAIN Blocks /\ E = Entries(step, rep)
      BY <2>6, <2>7
    <2> HIDE DEF v, step, rep, views, E, m, q, p, old, new
    <2>10. /\ AccIs(p)
           /\ p.result = "fine" => q.result = "fine"
           /\ (p.result = "fine" /\ Says(q.wells, q.names, old)) => Says(p.wells, p.names, new)
      <3>1. CASE q.result # "fine"
        BY <2>5, <2>8, <3>1
      <3>2. CASE q.result = "fine"
        <4>1. p = AddWells(q, v, views, rep, load)
          BY <2>8, <3>2
        <4> QED BY <2>4, <2>5, <2>9, <4>1, WellsAdded
      <3> QED BY <3>1, <3>2
    <2>11. Fine(m)
      <3> HIDE DEF some
      <3> QED BY <2>2, <2>10 DEF p, q, old, new
    <2> HIDE DEF Fine
    <2> QED BY <2>1, <2>11 DEF m
  <1>16. Fine(N)
    <2> HIDE DEF Fine
    <2>1. 0 .. N \subseteq T
      <3> HIDE DEF T
      <3> QED BY <1>5, <1>14, <1>15, UpToInduction
    <2>2. N \in 0 .. N
      BY <1>5
    <2> QED BY <2>1, <2>2
  <1>17. some(N) = list \o Items(EntriesOf(id), ld)
    BY <1>12
  <1> HIDE DEF some
  <1> QED BY <1>10, <1>16, <1>17 DEF r

(* The wells that loading a file adds.                                     *)
LEMMA FileAdded ==
    ASSUME NEW id \in DOMAIN Dir, opened = id, Opens(id, global_view),
           NEW acc, AccIs(acc), NEW load, NEW ld, NEW list, IsList(list)
    PROVE  LET r == Loaded(acc, load)
           IN  /\ AccIs(r)
               /\ r.result = "fine" => acc.result = "fine"
               /\ (r.result = "fine" /\ Says(acc.wells, acc.names, list)) =>
                      Says(r.wells, r.names, list \o Items(EntriesOf(id), ld))
  <1> DEFINE r == Loaded(acc, load)
             steps == Dir[id].steps
  <1>1. CASE Dir[id].type = "unified"
    <2>1. r = AddUNRSTWells(acc, load)
      BY <1>1 DEF Loaded
    <2> HIDE DEF r
    <2> QED BY <1>1, <2>1, UnifiedAdded DEF r
  <1>2. CASE Dir[id].type = "restart"
    <2>1. r = AddWells(acc, global_view, LgrViews(global_view), Dir[id].report, load)
      BY <1>2 DEF Loaded
    <2>2. Len(steps) = 1 /\ steps[1].global \in DOMAIN Blocks
      <3>1. Len(steps) = 1 /\ 1 \in 1 .. 1
        BY <1>2, StepsOfFile
      <3> QED BY <3>1, StepsOfFile DEF StepFits
    <2>3. Reads(global_view, steps[1])
      BY <1>2, FileOfStep
    <2>4. Entries(steps[1], Dir[id].report) = EntriesOf(id)
      <3>1. /\ StepEntries(id, 1) \in Seq(EntrySet(id)) /\ FirstEntries(id, 0) = <<>>
            /\ FirstEntries(id, 1) = EntriesOf(id)
            /\ FirstEntries(id, 1) = FirstEntries(id, 0) \o StepEntries(id, 1)
        <4> DEFINE N == Len(steps)
        <4>1. /\ \A n \in 1 .. N : StepEntries(id, n) \in Seq(EntrySet(id))
              /\ FirstEntries(id, 0) = <<>> /\ FirstEntries(id, N) = EntriesOf(id)
              /\ \A n \in 0 .. N - 1 : FirstEntries(id, n + 1) = FirstEntries(id, n) \o StepEntries(id, n + 1)
          BY EntriesOfSteps
        <4>2. N = 1
          BY <2>2
        <4> HIDE DEF N
        <4>3. 1 \in 1 .. N /\ 0 \in 0 .. N - 1 /\ 0 + 1 = 1
          BY <4>2
        <4>4. FirstEntries(id, 0 + 1) = FirstEntries(id, 0) \o StepEntries(id, 0 + 1)
          BY <4>1, <4>3
        <4> QED BY <4>1, <4>2, <4>3, <4>4
      <3>2. StepEntries(id, 1) = EntriesOf(id)
        BY <3>1, ConcatEmptySeq
      <3> QED BY <1>2, <3>2 DEF StepEntries, Report
    <2> DEFINE rep == Dir[id].report
               step == steps[1]
               views == LgrViews(global_view)
    <2>5. Reads(global_view, step) /\ step.global \in DOMAIN Blocks /\ Entries(step, rep) = EntriesOf(id)
          /\ r = AddWells(acc, global_view, views, rep, load)
      BY <2>1, <2>2, <2>3, <2>4
    <2> HIDE DEF r, rep, step, views
    <2>6. /\ AccIs(r)
          /\ r.result = "fine" => acc.result = "fine"
          /\ (r.result = "fine" /\ Says(acc.wells, acc.names, list)) =>
                 Says(r.wells, r.names, list \o Items(Entries(step, rep), ld))
      BY <2>5, WellsAdded
    <2> QED BY <2>5, <2>6 DEF r
  <1>3. CASE Dir[id].type \notin {"unified", "restart"}
    <2>1. r = [acc EXCEPT !.result = "raises"]
      BY <1>3 DEF Loaded
    <2> HIDE DEF r
    <2> QED BY <2>1, ResultSet DEF r
  <1> QED BY <1>1, <1>2, <1>3

-----------------------------------------------------------------------------
(* The invariant: the view of the file is the whole of it, and the time    *)
(* lines tell what was loaded.                                             *)

LoadSet == [id : DOMAIN Dir, segments : BOOLEAN, result : {"fine", "raises", "crashes"}]
ItemSet == UNION {{Item(e, load) : e \in EntrySet(load.id)} : load \in LoadSet}

WellInv ==
    /\ opened # NoFile => opened \in DOMAIN Dir /\ Opens(opened, global_view)
    /\ loads \in Seq(LoadSet)
    /\ AllFine => Says(wells, well_names, Entered)

LEMMA EntriesAreItems ==
    ASSUME NEW load \in LoadSet
    PROVE  EntriesLoaded(load) = Items(EntriesOf(load.id), load) /\ EntriesLoaded(load) \in Seq(ItemSet)
  <1> DEFINE S == EntrySet(load.id)
             s == EntriesOf(load.id)
  <1>1. load.id \in DOMAIN Dir
    BY DEF LoadSet
  <1>2. s \in Seq(S)
    <2> DEFINE N == Len(Dir[load.id].steps)
    <2>1. /\ FirstEntries(load.id, N) = s
          /\ \A n \in 0 .. N : FirstEntries(load.id, n) \in Seq(S)
      BY <1>1, EntriesOfSteps
    <2>2. N \in Nat
      BY <1>1, StepsOfFile
    <2>3. N \in 0 .. N
      BY <2>2
    <2> QED BY <2>1, <2>3
  <1>3. EntriesLoaded(load) = Items(s, load)
    BY DEF EntriesLoaded, Items, Item
  <1>4. \A x \in S : Item(x, load) \in ItemSet
    BY DEF ItemSet
  <1> HIDE DEF S, s
  <1>5. Len(s) \in Nat /\ DOMAIN s = 1 .. Len(s) /\ \A i \in 1 .. Len(s) : s[i] \in S
    BY <1>2, LenProperties, ElementOfSeq
  <1>6. Items(s, load) \in [1 .. Len(s) -> ItemSet]
    BY <1>4, <1>5 DEF Items
  <1>7. Items(s, load) \in Seq(ItemSet)
    BY <1>5, <1>6, WrittenOut
  <1> QED BY <1>3, <1>7 DEF s

(* The entries that were loaded, with those of one more file.              *)
LEMMA EnteredMore ==
    ASSUME loads \in Seq(LoadSet), NEW ld \in LoadSet, loads' = Append(loads, ld)
    PROVE  /\ IsList(Entered) /\ loads' \in Seq(LoadSet)
           /\ Entered' = Entered \o Items(EntriesOf(ld.id), ld)
           /\ AllFine' => AllFine /\ ld.result = "fine"
  <1> DEFINE n == Len(loads)
             more == Append(loads, ld)
             ss == [l \in 1 .. n + 1 |-> EntriesLoaded(more[l])]
             some == [l \in 1 .. n |-> ss[l]]
  <1>1. /\ n \in Nat /\ DOMAIN loads = 1 .. n /\ more \in Seq(LoadSet) /\ DOMAIN more = 1 .. n + 1
        /\ (\A l \in 1 .. n : more[l] = loads[l]) /\ more[n + 1] = ld
        /\ \A l \in 1 .. n + 1 : more[l] \in LoadSet
    BY AppendProperties, LenProperties, ElementOfSeq
  <1>2. \A l \in 1 .. n : l \in 1 .. n + 1
    BY <1>1
  <1>3. n + 1 \in 1 .. n + 1
    BY <1>1
  <1>4. AllFine' => AllFine /\ ld.result = "fine"
    <2>1. AllFine' <=> \A l \in 1 .. n + 1 : more[l].result = "fine"
      BY <1>1 DEF AllFine
    <2>2. AllFine <=> \A l \in 1 .. n : loads[l].result = "fine"
      BY <1>1 DEF AllFine
    <2> HIDE DEF more, n
    <2> QED BY <1>1, <1>2, <1>3, <2>1, <2>2
  <1>5. Entered' = FlattenSeq(ss)
    <2>1. Entered' = FlattenSeq([l \in DOMAIN more |-> EntriesLoaded(more[l])])
      BY DEF Entered, EntriesLoaded
    <2> QED BY <1>1, <2>1
  <1>6. Entered = FlattenSeq(some)
    <2>1. some = [l \in 1 .. n |-> EntriesLoaded(loads[l])]
      BY <1>1, <1>2
    <2> QED BY <1>1, <2>1 DEF Entered
  <1> HIDE DEF more
  <1>7. ss \in [1 .. n + 1 -> Seq(ItemSet)]
    <2>1. \A l \in 1 .. n + 1 : EntriesLoaded(more[l]) \in Seq(ItemSet)
      BY <1>1, EntriesAreItems
    <2> QED BY <2>1
  <1>8. ss[n + 1] = Items(EntriesOf(ld.id), ld)
    BY <1>1, <1>3, EntriesAreItems
  <1> HIDE DEF ss, n
  <1>9. FlattenSeq(some) \in Seq(ItemSet) /\ FlattenSeq(ss) = FlattenSeq(some) \o ss[n + 1]
    BY <1>1, <1>7, FlattenMore
  <1> HIDE DEF some
  <1>10. IsList(Entered)
    BY <1>6, <1>9 DEF IsList
  <1> QED BY <1>1, <1>4, <1>5, <1>6, <1>8, <1>9, <1>10 DEF more

LEMMA FirstTimelines == WellInit => WellInv
  <1> SUFFICES ASSUME WellInit PROVE WellInv
    OBVIOUS
  <1>1. opened = NoFile /\ wells = <<>> /\ well_names = <<>> /\ loads = <<>>
    BY DEF WellInit
  <1>2. Entered = <<>>
    <2>1. [l \in DOMAIN loads |-> EntriesLoaded(loads[l])] = <<>>
      BY <1>1
    <2> QED BY <2>1, FlattenNone DEF Entered
  <1>3. Says(<<>>, <<>>, <<>>)
    <2>1. IsList(<<>>)
      BY EmptySeq DEF IsList
    <2>2. DOMAIN <<>> = {}
      OBVIOUS
    <2> QED BY <2>1, <2>2 DEF Says, Range
  <1>4. loads \in Seq(LoadSet)
    BY <1>1, EmptySeq
  <1> QED BY <1>1, <1>2, <1>3, <1>4 DEF WellInv

LEMMA OpenKeeps ==
    ASSUME WellInv, NEW id \in DOMAIN Dir, Open(id)
    PROVE  WellInv'
  <1> DEFINE list == [n \in DOMAIN file' |-> n]
  <1>1. /\ file' = FileKeywords(id) /\ opened' = id /\ global_view' = Indexed(file', list)
        /\ UNCHANGED <<wells, well_names, loads>>
    BY DEF Open
  <1>2. file' \in Seq(AnyKw)
    BY <1>1, FileShape
  <1>3. list \in Seq(DOMAIN file')
    <2>1. Len(file') \in Nat /\ DOMAIN file' = 1 .. Len(file')
      BY <1>2, LenProperties
    <2>2. list \in [1 .. Len(file') -> DOMAIN file']
      BY <2>1
    <2> HIDE DEF list
    <2> QED BY <2>1, <2>2, WrittenOut
  <1>4. ViewFits(file', global_view') /\ global_view'.kw_list = list
    <2> HIDE DEF list
    <2> QED BY <1>1, <1>3, IndexedFits
  <1>5. Opens(id, global_view)'
    BY <1>1, <1>4 DEF Opens, ViewFits
  <1>6. opened' \in DOMAIN Dir /\ Opens(opened, global_view)'
    BY <1>1, <1>5 DEF Opens
  <1>7. (AllFine => Says(wells, well_names, Entered)) /\ loads \in Seq(LoadSet)
    BY DEF WellInv
  <1>8. (AllFine => Says(wells, well_names, Entered))' /\ (loads \in Seq(LoadSet))'
    <2>1. AllFine' = AllFine /\ Entered' = Entered
      BY <1>1 DEF AllFine, Entered, EntriesLoaded
    <2>2. Says(wells, well_names, Entered)' = Says(wells', well_names', Entered')
      BY DEF Says, StateOf, EntriesWith, Tells
    <2> QED BY <1>1, <1>7, <2>1, <2>2
  <1> QED BY <1>6, <1>8 DEF WellInv

LEMMA LoadKeeps ==
    ASSUME WellInv, NEW load \in BOOLEAN, LoadRstfile(load)
    PROVE  WellInv'
  <1> DEFINE acc == [wells |-> wells, names |-> well_names, result |-> "fine"]
             r == Loaded(acc, load)
             ld == [id |-> opened, segments |-> load, result |-> r.result]
  <1>1. /\ opened # NoFile /\ UNCHANGED <<vars, opened>>
        /\ wells' = r.wells /\ well_names' = r.names /\ loads' = Append(loads, ld)
    BY DEF LoadRstfile
  <1>2. opened \in DOMAIN Dir /\ Opens(opened, global_view) /\ loads \in Seq(LoadSet)
        /\ (AllFine => Says(wells, well_names, Entered))
    BY <1>1 DEF WellInv
  <1>3. AccIs(acc) /\ acc.wells = wells /\ acc.names = well_names
    BY DEF AccIs
  <1> HIDE DEF acc
  <1>4. PICK id : id = opened
    OBVIOUS
  <1>5. id \in DOMAIN Dir /\ Opens(id, global_view)
    BY <1>2, <1>4
  <1>6. IsList(<<>>)
    BY EmptySeq DEF IsList
  <1>7. AccIs(r)
    <2>1. opened = id
      BY <1>4
    <2> QED BY <1>3, <1>5, <1>6, <2>1, FileAdded
  <1>8. ld \in LoadSet /\ ld.id = id /\ ld.result = r.result
    BY <1>4, <1>5, <1>7 DEF LoadSet, AccIs
  <1> HIDE DEF r, ld
  <1>9. /\ IsList(Entered) /\ loads' \in Seq(LoadSet)
        /\ Entered' = Entered \o Items(EntriesOf(id), ld)
        /\ AllFine' => AllFine /\ r.result = "fine"
    BY <1>1, <1>2, <1>8, EnteredMore
  <1>10. AllFine' => Says(wells', well_names', Entered')
    <2> SUFFICES ASSUME AllFine' PROVE Says(wells', well_names', Entered')
      OBVIOUS
    <2>1. Says(wells, well_names, Entered) /\ r.result = "fine"
      BY <1>2, <1>9
    <2> DEFINE list == Entered
    <2>2. IsList(list) /\ Says(acc.wells, acc.names, list) /\ Entered' = list \o Items(EntriesOf(id), ld)
      BY <1>3, <1>9, <2>1
    <2>3. opened = id
      BY <1>4
    <2> HIDE DEF list
    <2>4. Says(r.wells, r.names, list \o Items(EntriesOf(id), ld))
      BY <1>3, <1>5, <2>1, <2>2, <2>3, FileAdded DEF r
    <2> QED BY <1>1, <2>2, <2>4
  <1>11. (opened # NoFile => opened \in DOMAIN Dir /\ Opens(opened, global_view))'
    BY <1>1, <1>2 DEF vars, Opens, ViewFits
  <1>12. Says(wells, well_names, Entered)' = Says(wells', well_names', Entered')
    BY DEF Says, StateOf, EntriesWith, Tells
  <1> QED BY <1>9, <1>10, <1>11, <1>12 DEF WellInv

(* The time line of a well is one state for each entry of the well in the  *)
(* files that were loaded, as the files list them: for any contents of the *)
(* blocks, any number of steps and local grids, whatever files were loaded *)
(* before (well_info.cpp, well_ts.hpp).                                    *)
THEOREM TimelinesOfReports == WellSpec => []TimelineOfReports
  <1>1. WellInit => WellInv
    BY FirstTimelines
  <1>2. WellInv /\ [WellNext]_allVars => WellInv'
    <2> SUFFICES ASSUME WellInv, [WellNext]_allVars PROVE WellInv'
      OBVIOUS
    <2>1. ASSUME opened' = NoFile \/ UNCHANGED <<vars, opened>>, UNCHANGED <<wells, well_names, loads>>
          PROVE  WellInv'
      <3>1. AllFine' = AllFine /\ Entered' = Entered
        BY <2>1 DEF AllFine, Entered, EntriesLoaded
      <3>2. Says(wells, well_names, Entered)' = Says(wells', well_names', Entered')
        BY DEF Says, StateOf, EntriesWith, Tells
      <3>3. (AllFine => Says(wells, well_names, Entered))' /\ (loads \in Seq(LoadSet))'
        BY <2>1, <3>1, <3>2 DEF WellInv
      <3>4. (opened # NoFile => opened \in DOMAIN Dir /\ Opens(opened, global_view))'
        BY <2>1 DEF WellInv, vars, Opens, ViewFits
      <3> QED BY <3>3, <3>4 DEF WellInv
    <2>2. CASE opened = NoFile /\ Next /\ UNCHANGED wellVars
      BY <2>1, <2>2 DEF wellVars
    <2>3. CASE \E id \in DOMAIN Dir : Open(id)
      BY <2>3, OpenKeeps
    <2>4. CASE \E load \in BOOLEAN : LoadRstfile(load)
      BY <2>4, LoadKeeps
    <2>5. CASE UNCHANGED allVars
      BY <2>1, <2>5 DEF allVars, wellVars
    <2> QED BY <2>2, <2>3, <2>4, <2>5 DEF WellNext
  <1>3. WellInv => TimelineOfReports
    BY DEF WellInv, Says, TimelineOfReports
  <1> QED BY <1>1, <1>2, <1>3, PTL DEF WellSpec
=============================================================================
