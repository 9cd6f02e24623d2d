--------------------------- MODULE SummaryProofs ---------------------------
(***************************************************************************)
(* The files of a chain of restarts make one timeline, a search finds the  *)
(* first step that is not before a time, and regular report steps are      *)
(* found where they end: for any number of files, steps and writers.  And  *)
(* which files those are: header and data that are found in a directory    *)
(* go together, and what was written last is found.                        *)
(*                                                                         *)
(* The argument for a chain: a file is in the order of time when it is     *)
(* read or written, a chain in the order of where its files start          *)
(* (ChainOK), so a file is cut to what lies before the start of the next.  *)
(* The timeline is these parts one after the other, and the offset of a    *)
(* file is where its part begins; so an internal index is a place in the   *)
(* timeline. The binary search keeps the first step of interest between    *)
(* its two ends (Narrowing). Report steps are those of one file at a time  *)
(* when no two keep steps of the same, and the reports of a file count up  *)
(* by ones.                                                                *)
(*                                                                         *)
(* The argument for a directory (CaseFiles): files are formatted as their  *)
(* names tell (DirShape), and a write names its files by the case, the     *)
(* format and the reports (LatestShape), so that a search for these finds  *)
(* them; what it finds stands until a file changes.                        *)
(***************************************************************************)
EXTENDS SummaryData, CaseFiles, Induction

-----------------------------------------------------------------------------
(* Lists one after the other.                                              *)

(* off[n] is the number of elements of the first n lists.                  *)
Offsets(off, s, N) ==
    /\ off \in [0 .. N -> Nat] /\ off[0] = 0
    /\ \A n \in 1 .. N : off[n] = off[n - 1] + Len(s[n])

(* F is the lists one after the other.                                     *)
Laid(F, off, s, N) ==
    /\ Len(F) = off[N]
    /\ \A n \in 1 .. N : \A i \in 1 .. Len(s[n]) : F[off[n - 1] + i] = s[n][i]

LEMMA OffsetsExist ==
    ASSUME NEW N \in Nat, NEW S, NEW s \in [1 .. N -> Seq(S)]
    PROVE  \E off : Offsets(off, s, N)
  <1> DEFINE step == [n \in 1 .. N |-> [x \in Nat |-> x + Len(s[n])]]
  <1>1. \A n \in 1 .. N : Len(s[n]) \in Nat
    BY LenProperties
  <1>2. step \in [1 .. N -> [Nat -> Nat]] /\ 0 \in Nat
    BY <1>1
  <1>3. PICK off : Recurs(off, N, Nat, 0, step)
    BY <1>2, RecursionSolved
  <1>4. ASSUME NEW n \in 1 .. N PROVE off[n] = off[n - 1] + Len(s[n])
    <2>1. n - 1 \in 0 .. N
      OBVIOUS
    <2>2. off[n - 1] \in Nat
      BY <1>3, <2>1 DEF Recurs
    <2>3. off[n] = step[n][off[n - 1]]
      BY <1>3 DEF Recurs
    <2> QED BY <2>2, <2>3
  <1> HIDE DEF step
  <1> QED BY <1>3, <1>4 DEF Recurs, Offsets

(* Offsets do not fall.                                                    *)
LEMMA OffsetsRise ==
    ASSUME NEW N \in Nat, NEW S, NEW s \in [1 .. N -> Seq(S)], NEW off, Offsets(off, s, N),
           NEW m \in 0 .. N, NEW n \in 0 .. N, m <= n
    PROVE  off[m] <= off[n]
  <1> DEFINE T == {k \in 0 .. N : m <= k => off[m] <= off[k]}
  <1>0. \A k \in 0 .. N : off[k] \in Nat
    BY DEF Offsets
  <1>1. 0 \in T
    <2>1. m <= 0 => m = 0
      OBVIOUS
    <2> QED BY <1>0, <2>1
  <1>2. ASSUME NEW k \in 0 .. N - 1, k \in T PROVE k + 1 \in T
    <2>1. k \in Nat /\ k + 1 \in 1 .. N /\ (k + 1) - 1 = k /\ k \in 0 .. N
      OBVIOUS
    <2>2. off[k + 1] = off[k] + Len(s[k + 1]) /\ Len(s[k + 1]) \in Nat
      BY <2>1, LenProperties DEF Offsets
    <2>3. CASE m <= k
      BY <1>0, <1>2, <2>1, <2>2, <2>3
    <2>4. CASE ~(m <= k)
      <3>1. m <= k + 1 => m = k + 1
        BY <2>1, <2>4
      <3> QED BY <1>0, <2>1, <3>1
    <2> QED BY <2>3, <2>4
  <1> HIDE DEF T
  <1>3. 0 .. N \subseteq T
    BY <1>1, <1>2, UpToInduction
  <1> QED BY <1>3 DEF T

(* Every place is in one of the lists.                                     *)
Placed(off, s, N) ==
    \A k \in 1 .. off[N] : \E n \in 1 .. N : \E i \in 1 .. Len(s[n]) : k = off[n - 1] + i
LEMMA PlaceInList ==
    ASSUME NEW N \in Nat, NEW S, NEW s \in [1 .. N -> Seq(S)], NEW off, Offsets(off, s, N)
    PROVE  Placed(off, s, N)
  <1> SUFFICES ASSUME NEW k \in 1 .. off[N]
               PROVE  \E n \in 1 .. N : \E i \in 1 .. Len(s[n]) : k = off[n - 1] + i
    BY DEF Placed
  <1> DEFINE T == {n \in 0 .. N : k <= off[n]}
  <1>0. \A n \in 0 .. N : off[n] \in Nat
    BY DEF Offsets
  <1>1. N \in T /\ T \in SUBSET Nat
    BY <1>0
  <1>2. PICK n \in T : \A m \in T : n <= m
    BY <1>1, LeastElement
  <1>3. off[0] = 0 /\ k \in Nat /\ k > 0
    BY <1>0 DEF Offsets
  <1>4. n \in 1 .. N /\ n - 1 \in 0 .. N
    BY <1>2, <1>3
  <1>5. ~(k <= off[n - 1])
    BY <1>2, <1>4
  <1>6. off[n] = off[n - 1] + Len(s[n]) /\ Len(s[n]) \in Nat
    BY <1>4, LenProperties DEF Offsets
  <1>7. off[n - 1] \in Nat /\ k <= off[n]
    BY <1>0, <1>2, <1>4
  <1> DEFINE i == k - off[n - 1]
  <1>8. i \in 1 .. Len(s[n]) /\ k = off[n - 1] + i
    BY <1>3, <1>5, <1>6, <1>7
  <1> HIDE DEF i
  <1> QED BY <1>4, <1>8

(* FlattenSeq lays lists one after the other.                              *)
LEMMA Flattened ==
    ASSUME NEW N \in Nat, NEW S, NEW s \in [1 .. N -> Seq(S)], NEW off, Offsets(off, s, N)
    PROVE  FlattenSeq(s) \in Seq(S) /\ Laid(FlattenSeq(s), off, s, N)
  <1>0. Len(s) = N /\ s \in Seq(Seq(S))
    BY WrittenOut
  <1>1. CASE N = 0
    <2>1. s = <<>>
      BY <1>0, <1>1, EmptySeq
    <2>2. FlattenSeq(s) = <<>>
      BY <1>0, <1>1, <2>1 DEF FlattenSeq
    <2>3. <<>> \in Seq(S) /\ Len(<<>>) = 0
      BY EmptySeq
    <2> QED BY <1>1, <2>2, <2>3 DEF Laid, Offsets
  <1>2. CASE N # 0
    <2> DEFINE Solves(f) == f = [i \in 1 .. Len(s) |-> IF i = 1 THEN s[i] ELSE f[i - 1] \o s[i]]
               f == CHOOSE f : Solves(f)
               step == [n \in 1 .. N |-> [x \in Seq(S) |-> x \o s[n]]]
    <2>1. FlattenSeq(s) = f[N]
      BY <1>0, <1>2 DEF FlattenSeq
    <2>2. \E g : Solves(g)
      <3>1. \A n \in 1 .. N : \A x \in Seq(S) : x \o s[n] \in Seq(S)
        BY ConcatProperties
      <3>2. step \in [1 .. N -> [Seq(S) -> Seq(S)]] /\ <<>> \in Seq(S)
        BY <3>1, EmptySeq
      <3>3. PICK u : Recurs(u, N, Seq(S), <<>>, step)
        BY <3>2, RecursionSolved
      <3> DEFINE g == [i \in 1 .. N |-> u[i]]
      <3>4. ASSUME NEW i \in 1 .. N PROVE u[i] = IF i = 1 THEN s[i] ELSE u[i - 1] \o s[i]
        <4>1. i - 1 \in 0 .. N /\ u[i - 1] \in Seq(S) /\ u[0] = <<>>
          BY <3>3 DEF Recurs
        <4>2. u[i] = u[i - 1] \o s[i]
          BY <3>3, <4>1 DEF Recurs
        <4>3. <<>> \o s[i] = s[i]
          BY ConcatEmptySeq
        <4> QED BY <4>1, <4>2, <4>3
      <3>5. ASSUME NEW i \in 1 .. N PROVE g[i] = IF i = 1 THEN s[i] ELSE g[i - 1] \o s[i]
        <4>1. i # 1 => i - 1 \in 1 .. N
          OBVIOUS
        <4>2. i # 1 => g[i - 1] = u[i - 1]
          BY <4>1
        <4> QED BY <3>4, <4>2
      <3>6. g = [i \in 1 .. N |-> g[i]]
        OBVIOUS
      <3> HIDE DEF g
      <3>7. Solves(g)
        BY <1>0, <3>5, <3>6
      <3> HIDE DEF Solves
      <3> QED BY <3>7
    <2>3. Solves(f)
      BY <2>2
    <2> HIDE DEF f
    <2>4. \A i \in 1 .. N : f[i] = IF i = 1 THEN s[i] ELSE f[i - 1] \o s[i]
      BY <1>0, <2>3, Zenon
    <2> HIDE DEF Solves, step
    <2> DEFINE T == {m \in 0 .. N : m > 0 => f[m] \in Seq(S) /\ Laid(f[m], off, s, m)}
    <2>5. 0 \in T
      OBVIOUS
    <2>6. ASSUME NEW m \in 0 .. N - 1, m \in T PROVE m + 1 \in T
      <3>1. m \in Nat /\ m + 1 \in 1 .. N /\ (m + 1) - 1 = m /\ m \in 0 .. N /\ 1 .. m \subseteq 1 .. N
        OBVIOUS
      <3>2. s[m + 1] \in Seq(S) /\ Len(s[m + 1]) \in Nat /\ off[m + 1] = off[m] + Len(s[m + 1])
        BY <3>1, LenProperties DEF Offsets
      <3>3. CASE m = 0
        <4>1. f[m + 1] = s[m + 1] /\ off[m] = 0
          BY <2>4, <3>1, <3>3 DEF Offsets
        <4>2. Len(f[m + 1]) = off[m + 1]
          BY <3>2, <4>1
        <4>3. \A n \in 1 .. m + 1 : n = m + 1
          BY <3>3
        <4>4. Laid(f[m + 1], off, s, m + 1)
          <5>1. ASSUME NEW n \in 1 .. m + 1, NEW i \in 1 .. Len(s[n])
                PROVE  f[m + 1][off[n - 1] + i] = s[n][i]
            <6>1. n = m + 1 /\ n - 1 = m
              BY <3>1, <4>3
            <6>2. i \in Nat /\ off[n - 1] + i = i
              BY <3>2, <4>1, <6>1
            <6> QED BY <4>1, <6>1, <6>2
          <5> QED BY <4>2, <5>1 DEF Laid
        <4> HIDE DEF Laid
        <4> QED BY <3>1, <3>2, <4>1, <4>4
      <3>4. CASE m # 0
        <4>1. f[m] \in Seq(S) /\ Laid(f[m], off, s, m)
          BY <2>6, <3>1, <3>4
        <4>2. f[m + 1] = f[m] \o s[m + 1]
          <5>1. m + 1 # 1
            BY <3>1, <3>4
          <5>2. f[m + 1] = f[(m + 1) - 1] \o s[m + 1]
            BY <2>4, <3>1, <5>1
          <5> QED BY <3>1, <5>2
        <4>3. /\ f[m + 1] \in Seq(S)
              /\ Len(f[m + 1]) = Len(f[m]) + Len(s[m + 1])
              /\ \A j \in 1 .. Len(f[m]) + Len(s[m + 1]) :
                     f[m + 1][j] = IF j <= Len(f[m]) THEN f[m][j] ELSE s[m + 1][j - Len(f[m])]
          <5> DEFINE c == f[m] \o s[m + 1]
          <5>1. /\ c \in Seq(S)
                /\ Len(c) = Len(f[m]) + Len(s[m + 1])
                /\ \A j \in 1 .. Len(f[m]) + Len(s[m + 1]) :
                       c[j] = IF j <= Len(f[m]) THEN f[m][j] ELSE s[m + 1][j - Len(f[m])]
            BY <3>2, <4>1, ConcatProperties
          <5>2. f[m + 1] = c
            BY <4>2
          <5> HIDE DEF c
          <5> QED BY <5>1, <5>2
        <4>4. Len(f[m]) = off[m] /\ off[m] \in Nat
          BY <3>1, <4>1 DEF Laid, Offsets
        <4>5. ASSUME NEW n \in 1 .. m + 1, NEW i \in 1 .. Len(s[n])
              PROVE  f[m + 1][off[n - 1] + i] = s[n][i]
          <5>1. CASE n = m + 1
            <6>1. /\ off[m] + i \in 1 .. off[m] + Len(s[m + 1]) /\ ~(off[m] + i <= off[m])
                  /\ (off[m] + i) - off[m] = i
              BY <3>2, <4>4, <5>1
            <6> QED BY <3>1, <4>3, <4>4, <5>1, <6>1
          <5>2. CASE n # m + 1
            <6>1. n \in 1 .. m /\ n \in 1 .. N /\ n \in 0 .. N /\ n - 1 \in 0 .. N /\ n <= m
              BY <3>1, <5>2
            <6>2. off[n] <= off[m]
              BY <3>1, <6>1, OffsetsRise
            <6>3. off[n] = off[n - 1] + Len(s[n]) /\ Len(s[n]) \in Nat /\ off[n - 1] \in Nat
              BY <6>1, LenProperties DEF Offsets
            <6>4. off[n - 1] + i \in 1 .. off[m] + Len(s[m + 1]) /\ off[n - 1] + i <= off[m]
              <7>1. i \in Nat /\ 1 <= i /\ i <= Len(s[n]) /\ off[n] \in Nat
                BY <6>3
              <7>2. off[n - 1] + i \in Nat /\ 1 <= off[n - 1] + i /\ off[n - 1] + i <= off[n]
                BY <6>3, <7>1
              <7>3. off[n - 1] + i <= off[m] /\ off[m] <= off[m] + Len(s[m + 1])
                BY <3>2, <4>4, <6>2, <7>1, <7>2
              <7>4. off[m] + Len(s[m + 1]) \in Nat
                BY <3>2, <4>4
              <7> QED BY <4>4, <7>2, <7>3, <7>4
            <6>5. f[m][off[n - 1] + i] = s[n][i]
              BY <4>1, <6>1 DEF Laid
            <6> QED BY <4>3, <4>4, <6>4, <6>5
          <5> QED BY <5>1, <5>2
        <4>6. Laid(f[m + 1], off, s, m + 1)
          BY <3>2, <4>3, <4>4, <4>5 DEF Laid
        <4> QED BY <3>1, <4>3, <4>6
      <3> QED BY <3>3, <3>4
    <2> HIDE DEF T
    <2>7. 0 .. N \subseteq T
      BY <2>5, <2>6, UpToInduction
    <2>8. N \in T /\ N > 0
      BY <1>2, <2>7
    <2>9. f[N] \in Seq(S) /\ Laid(f[N], off, s, N)
      BY <2>8 DEF T
    <2> QED BY <2>1, <2>9
  <1> QED BY <1>1, <1>2

(* Lists whose elements are in order one before the other are so together. *)
ListsInOrder(s, N, R) ==
    /\ \A n \in 1 .. N : \A i, j \in 1 .. Len(s[n]) : i < j => <<s[n][i], s[n][j]>> \in R
    /\ \A m, n \in 1 .. N : m < n =>
           \A i \in 1 .. Len(s[m]), j \in 1 .. Len(s[n]) : <<s[m][i], s[n][j]>> \in R

LEMMA FlattenedInOrder ==
    ASSUME NEW N \in Nat, NEW S, NEW s \in [1 .. N -> Seq(S)], NEW R, ListsInOrder(s, N, R)
    PROVE  /\ FlattenSeq(s) \in Seq(S) /\ Len(FlattenSeq(s)) \in Nat
           /\ DOMAIN FlattenSeq(s) = 1 .. Len(FlattenSeq(s))
           /\ \A k, l \in 1 .. Len(FlattenSeq(s)) :
                  k < l => <<FlattenSeq(s)[k], FlattenSeq(s)[l]>> \in R
  <1> DEFINE F == FlattenSeq(s)
  <1>1. PICK off : Offsets(off, s, N)
    BY OffsetsExist
  <1>2. F \in Seq(S) /\ Laid(F, off, s, N)
    BY <1>1, Flattened
  <1>3. Len(F) \in Nat /\ DOMAIN F = 1 .. Len(F) /\ Len(F) = off[N]
    BY <1>2, LenProperties DEF Laid
  <1> HIDE DEF F
  <1>4. ASSUME NEW k \in 1 .. off[N], NEW l \in 1 .. off[N], k < l PROVE <<F[k], F[l]>> \in R
    <2>0. Placed(off, s, N)
      BY <1>1, PlaceInList
    <2>8. PICK m \in 1 .. N : \E i \in 1 .. Len(s[m]) : k = off[m - 1] + i
      BY <2>0 DEF Placed
    <2>1. PICK i \in 1 .. Len(s[m]) : k = off[m - 1] + i
      BY <2>8
    <2>9. PICK n \in 1 .. N : \E j \in 1 .. Len(s[n]) : l = off[n - 1] + j
      BY <2>0 DEF Placed
    <2>2. PICK j \in 1 .. Len(s[n]) : l = off[n - 1] + j
      BY <2>9
    <2>3. F[k] = s[m][i] /\ F[l] = s[n][j]
      BY <1>2, <2>1, <2>2 DEF Laid
    <2>4. /\ m \in 0 .. N /\ n \in 0 .. N /\ m - 1 \in 0 .. N /\ n - 1 \in 0 .. N
          /\ off[m - 1] \in Nat /\ off[n - 1] \in Nat /\ off[m] \in Nat /\ off[n] \in Nat
          /\ off[n] = off[n - 1] + Len(s[n])
          /\ Len(s[m]) \in Nat /\ Len(s[n]) \in Nat /\ i \in Nat /\ j \in Nat
      <3>1. m \in 0 .. N /\ n \in 0 .. N /\ m - 1 \in 0 .. N /\ n - 1 \in 0 .. N
        OBVIOUS
      <3>2. Len(s[m]) \in Nat /\ Len(s[n]) \in Nat
        BY LenProperties
      <3> QED BY <1>1, <3>1, <3>2 DEF Offsets
    <2>5. CASE m < n
      BY <2>3, <2>5 DEF ListsInOrder
    <2>6. CASE m = n
      <3>1. i < j
        BY <1>4, <2>1, <2>2, <2>4, <2>6
      <3> QED BY <2>3, <2>6, <3>1 DEF ListsInOrder
    <2>7. CASE n < m
      <3>1. n <= m - 1
        BY <2>7
      <3>2. off[n] <= off[m - 1]
        BY <1>1, <2>4, <3>1, OffsetsRise
      <3>3. j <= Len(s[n]) /\ i > 0
        BY <2>4
      <3>4. l <= off[n]
        BY <2>2, <2>4, <3>3
      <3>5. k > off[m - 1]
        BY <2>1, <2>4, <3>3
      <3> QED BY <1>4, <2>4, <3>2, <3>4, <3>5
    <2> QED BY <2>5, <2>6, <2>7
  <1> QED BY <1>2, <1>3, <1>4 DEF F

-----------------------------------------------------------------------------
(* The files that are loaded.                                              *)
TimeStep == [time : Nat, report : Nat]

(* Times rise and report steps do not fall.                                *)
Later(s, t)   == s.time < t.time /\ s.report <= t.report
Ascend(steps) == \A m, n \in DOMAIN steps : m < n => Later(steps[m], steps[n])

(* The same of steps in any order.                                         *)
Ordered(steps) ==
    \A m, n \in DOMAIN steps : m # n => Later(steps[m], steps[n]) \/ Later(steps[n], steps[m])

LEMMA AscendingAscends ==
    ASSUME NEW N \in Nat, NEW P \in SUBSET (1 .. N)
    PROVE  /\ Ascends(Ascending(P), P)
           /\ Cardinality(P) \in Nat
           /\ Ascending(P) \in [1 .. Cardinality(P) -> P]
  <1> DEFINE c == Cardinality(P)
             Good(s) == \A i, j \in DOMAIN s : i < j => s[i] < s[j]
  <1>1. P \in SUBSET (0 .. (N + 1) - 1) /\ N + 1 \in Nat
    OBVIOUS
  <1>2. c \in Nat /\ \E s : Ascends(s, P)
    BY <1>1, AscentExists
  <1>3. \E s \in [1 .. c -> P] : Good(s)
    BY <1>2 DEF Ascends
  <1>4. Ascending(P) \in [1 .. c -> P] /\ Good(Ascending(P))
    BY <1>3 DEF Ascending
  <1> QED BY <1>2, <1>4 DEF Ascends

(* The loader keeps the order of the file, which is the order of time.     *)
LEMMA LoaderInOrder ==
    ASSUME NEW kws \in UnifiedFiles, NEW first \in FirstSteps
    PROVE  Loader(kws, first) \in Seq(TimeStep) /\ Ascend(Loader(kws, first))
  <1> DEFINE P == {n \in DOMAIN kws : kws[n] # SEQHDR}
             params == Ascending(P)
             c == Cardinality(P)
             Headers(n) == Cardinality({m \in 1 .. n : kws[m] = SEQHDR})
             loaded == [i \in DOMAIN params |->
                           Step(kws[params[i]], first - 1 + Headers(params[i]))]
  <1>1. /\ kws \in Seq(Times \cup {SEQHDR}) /\ DOMAIN kws = 1 .. Len(kws) /\ Len(kws) \in Nat
        /\ first \in Nat /\ first - 1 \in Nat
    <2>1. kws \in Seq(Times \cup {SEQHDR}) /\ first \in Nat \ {0}
      BY SummaryDataAssumption
    <2> QED BY <2>1, LenProperties
  <1>2. P \in SUBSET (1 .. Len(kws))
    BY <1>1
  <1>3. Ascends(params, P) /\ c \in Nat /\ params \in [1 .. c -> P] /\ DOMAIN params = 1 .. c
    BY <1>1, <1>2, AscendingAscends
  <1>4. \A n \in P : kws[n] \in Nat /\ Headers(n) \in Nat
    <2> SUFFICES ASSUME NEW n \in P PROVE kws[n] \in Nat /\ Headers(n) \in Nat
      OBVIOUS
    <2>1. n \in 1 .. Len(kws) /\ 1 \in Int /\ n \in Int
      BY <1>1, <1>2
    <2>2. kws[n] \in Times \cup {SEQHDR}
      BY <1>1, <2>1, ElementOfSeq
    <2>3. IsFiniteSet(1 .. n)
      BY <2>1, FS_Interval
    <2>4. IsFiniteSet({m \in 1 .. n : kws[m] = SEQHDR})
      BY <2>3, FS_Subset
    <2>5. Headers(n) \in Nat
      BY <2>4, FS_CardinalityType
    <2>6. kws[n] \in Nat
      BY <2>2 DEF Times, SEQHDR
    <2> QED BY <2>5, <2>6
  <1>5. Loader(kws, first) = loaded
    BY DEF Loader
  <1> HIDE DEF Headers, P, params, c
  <1>6. \A i \in 1 .. c : /\ loaded[i] \in TimeStep /\ loaded[i].time = kws[params[i]]
                          /\ loaded[i].report = first - 1 + Headers(params[i])
    BY <1>1, <1>3, <1>4 DEF TimeStep, Step
  <1>7. loaded \in [1 .. c -> TimeStep]
    BY <1>3, <1>6
  <1>8. loaded \in Seq(TimeStep) /\ DOMAIN loaded = 1 .. c
    BY <1>3, <1>7, WrittenOut
  <1> HIDE DEF loaded
  <1>9. ASSUME NEW m \in 1 .. c, NEW n \in 1 .. c, m < n
        PROVE  Later(loaded[m], loaded[n])
    <2>1. params[m] \in P /\ params[n] \in P /\ params[m] < params[n]
      BY <1>3, <1>9 DEF Ascends, c
    <2>2. /\ params[m] \in DOMAIN kws /\ params[n] \in DOMAIN kws
          /\ kws[params[m]] # SEQHDR /\ kws[params[n]] # SEQHDR
      BY <2>1 DEF P
    <2>3. kws[params[m]] < kws[params[n]]
      BY <2>1, <2>2, SimulatorAssumption
    <2>4. Headers(params[m]) <= Headers(params[n])
      <3> DEFINE A == {k \in 1 .. params[m] : kws[k] = SEQHDR}
                 B == {k \in 1 .. params[n] : kws[k] = SEQHDR}
      <3>1. params[m] \in Int /\ params[n] \in Int /\ 1 \in Int
        <4>1. \A k \in P : k \in Int
          BY <1>1, <1>2
        <4> QED BY <2>1, <4>1
      <3>2. A \subseteq B
        BY <2>1, <3>1
      <3>3. IsFiniteSet(1 .. params[n])
        BY <3>1, FS_Interval
      <3>4. IsFiniteSet(B)
        BY <3>3, FS_Subset
      <3>5. Cardinality(A) <= Cardinality(B)
        BY <3>2, <3>4, FS_Subset
      <3> QED BY <3>5 DEF Headers
    <2>5. loaded[m].report <= loaded[n].report
      <3>1. Headers(params[m]) \in Nat /\ Headers(params[n]) \in Nat
        BY <1>4, <2>1
      <3> QED BY <1>1, <1>6, <2>4, <3>1
    <2> QED BY <1>6, <2>3, <2>5 DEF Later
  <1> QED BY <1>5, <1>8, <1>9 DEF Ascend

(* Sorting leaves the steps as they are, and different times apart.        *)
LEMMA SortedInOrder ==
    ASSUME NEW steps \in Seq(TimeStep), NEW s \in SortedBy(steps)
    PROVE  /\ s \in Seq(TimeStep) /\ InTimeOrder(s) /\ Len(s) = Len(steps)
           /\ Ordered(steps) => Ascend(s)
  <1> DEFINE N == Len(steps)
  <1>1. N \in Nat /\ DOMAIN steps = 1 .. N /\ steps \in [1 .. N -> TimeStep]
    BY LenProperties
  <1>2. PICK p \in Bijection(1 .. N, 1 .. N) :
            s = [n \in 1 .. N |-> steps[p[n]]] /\ InTimeOrder(s)
    BY <1>1 DEF SortedBy
  <1>3. p \in [1 .. N -> 1 .. N]
    BY <1>2 DEF Bijection, Injection
  <1>4. \A m, n \in 1 .. N : p[m] = p[n] => m = n
    BY <1>2 DEF Bijection, Injection, IsInjective
  <1> HIDE DEF N
  <1>5. s \in [1 .. N -> TimeStep]
    BY <1>1, <1>2, <1>3
  <1>6. s \in Seq(TimeStep) /\ Len(s) = N /\ DOMAIN s = 1 .. N
    BY <1>1, <1>5, WrittenOut
  <1>7. ASSUME Ordered(steps), NEW m \in 1 .. N, NEW n \in 1 .. N, m < n
        PROVE  Later(s[m], s[n])
    <2>1. s[m].time <= s[n].time
      BY <1>2, <1>6, <1>7 DEF InTimeOrder
    <2>2. p[m] # p[n]
      BY <1>4, <1>7
    <2>3. Later(steps[p[m]], steps[p[n]]) \/ Later(steps[p[n]], steps[p[m]])
      BY <1>1, <1>3, <1>7, <2>2 DEF Ordered
    <2>4. s[m].time \in Nat /\ s[n].time \in Nat /\ (Later(s[m], s[n]) \/ Later(s[n], s[m]))
      BY <1>2, <1>5, <2>3 DEF TimeStep
    <2> QED BY <2>1, <2>4 DEF Later
  <1> QED BY <1>2, <1>6, <1>7 DEF Ascend, N

LEMMA BlockArithmetic ==
    ASSUME NEW L \in Nat, NEW h \in 1 .. L, NEW stop \in h .. L
    PROVE  /\ h + 1 \in Int /\ stop \in Int /\ h \in Nat /\ stop - h \in Nat
           /\ stop - (h + 1) + 1 = stop - h /\ (h + 1 <= stop \/ stop - h = 0)
           /\ \A n \in h + 1 .. stop : n \in 1 .. L
           /\ \A i \in 1 .. stop - h : h + i \in h + 1 .. stop /\ i \in Nat /\ h + 1 + i - 1 = h + i
  OBVIOUS

(* The keywords of a block of a unified file: from a SEQHDR up to the next.*)
Seqhdrs(kws) == {n \in DOMAIN kws : kws[n] = SEQHDR}

ViewIs(kws, hdrs, c, b, stop) ==
    /\ hdrs[b] \in 1 .. Len(kws) /\ stop \in hdrs[b] .. Len(kws)
    /\ b < c => stop < hdrs[b + 1]
    /\ \A n \in hdrs[b] + 1 .. stop : kws[n] # SEQHDR
    /\ SummaryView(kws, b) = SubSeq(kws, hdrs[b] + 1, stop)

LEMMA ViewOfBlock ==
    ASSUME NEW S, NEW kws \in Seq(S), NEW b \in 1 .. Cardinality(Seqhdrs(kws))
    PROVE  \E stop : ViewIs(kws, Ascending(Seqhdrs(kws)), Cardinality(Seqhdrs(kws)), b, stop)
  <1> DEFINE Q == Seqhdrs(kws)
             hdrs == Ascending(Q)
             c == Cardinality(Q)
             stop == IF b < Len(hdrs) THEN hdrs[b + 1] - 1 ELSE Len(kws)
  <1>1. DOMAIN kws = 1 .. Len(kws) /\ Len(kws) \in Nat
    BY LenProperties
  <1>2. Q \in SUBSET (1 .. Len(kws))
    BY <1>1 DEF Seqhdrs
  <1>3. /\ c \in Nat /\ hdrs \in [1 .. c -> Q] /\ Len(hdrs) = c
        /\ \A m, n \in 1 .. c : m < n => hdrs[m] < hdrs[n]
    <2>1. Ascends(hdrs, Q) /\ c \in Nat /\ hdrs \in [1 .. c -> Q]
      BY <1>1, <1>2, AscendingAscends
    <2> QED BY <2>1, WrittenOut DEF Ascends
  <1>4. SummaryView(kws, b) = SubSeq(kws, hdrs[b] + 1, stop)
    BY DEF SummaryView, Seqhdrs
  <1>5. IsFiniteSet(Q)
    <2>1. 1 \in Int /\ Len(kws) \in Int
      BY <1>1
    <2> QED BY <1>2, <2>1, FS_Interval, FS_Subset
  <1>6. \A n \in Q : \E k \in 1 .. c : hdrs[k] = n
    <2>1. Q \in SUBSET Int
      BY <1>1, <1>2
    <2>2. Ascends(hdrs, Q)
      BY <1>1, <1>2, AscendingAscends
    <2>3. Cardinality(Q) \in Nat
      BY <1>3
    <2> HIDE DEF hdrs
    <2>4. \A n \in Q : \E k \in 1 .. Cardinality(Q) : hdrs[k] = n
      <3> HIDE DEF Q
      <3> QED BY <1>5, <2>1, <2>2, <2>3, AscentComplete
    <2> QED BY <2>4
  <1> HIDE DEF hdrs, c
  <1>7. b \in 1 .. c /\ hdrs[b] \in 1 .. Len(kws)
    BY <1>2, <1>3 DEF c
  <1>8. b < c => b + 1 \in 1 .. c /\ hdrs[b + 1] \in 1 .. Len(kws) /\ hdrs[b] < hdrs[b + 1]
    <2> SUFFICES ASSUME b < c
                 PROVE  b + 1 \in 1 .. c /\ hdrs[b + 1] \in 1 .. Len(kws) /\ hdrs[b] < hdrs[b + 1]
      OBVIOUS
    <2>1. b + 1 \in 1 .. c /\ b < b + 1
      BY <1>3, <1>7
    <2> QED BY <1>2, <1>3, <1>7, <2>1
  <1>9. stop \in hdrs[b] .. Len(kws) /\ (b < c => stop < hdrs[b + 1])
    BY <1>1, <1>3, <1>7, <1>8
  <1>10. ASSUME NEW n \in hdrs[b] + 1 .. stop, kws[n] = SEQHDR PROVE FALSE
    <2>1. n \in 1 .. Len(kws) /\ n \in Int /\ hdrs[b] < n /\ n <= stop
      BY <1>1, <1>7, <1>9
    <2>2. n \in Q
      BY <1>1, <1>10, <2>1 DEF Seqhdrs
    <2>3. PICK k \in 1 .. c : hdrs[k] = n
      BY <1>6, <2>2
    <2>4. k > b
      <3>1. CASE k = b
        BY <1>7, <2>1, <2>3, <3>1
      <3>2. CASE k < b
        <4>1. hdrs[k] < hdrs[b]
          BY <1>3, <1>7, <3>2
        <4> QED BY <1>7, <2>1, <2>3, <4>1
      <3> QED BY <1>3, <1>7, <3>1, <3>2
    <2>5. b < c
      BY <1>3, <1>7, <2>4
    <2>6. hdrs[b + 1] <= hdrs[k]
      <3>1. k = b + 1 \/ b + 1 < k
        BY <1>7, <2>4
      <3>2. hdrs[b + 1] \in Int /\ hdrs[k] \in Int /\ b + 1 \in 1 .. c
        BY <1>8, <2>1, <2>3, <2>5
      <3>3. b + 1 < k => hdrs[b + 1] < hdrs[k]
        BY <1>3, <3>2
      <3> QED BY <3>1, <3>2, <3>3
    <2> QED BY <1>8, <1>9, <2>1, <2>3, <2>5, <2>6
  <1> HIDE DEF stop
  <1> QED BY <1>4, <1>7, <1>9, <1>10 DEF ViewIs, hdrs, c

(* A file that is read block by block has the steps in their order, too.   *)
LEMMA EagerInOrder ==
    ASSUME NEW kws \in UnifiedFiles, NEW first \in FirstSteps
    PROVE  Eager(kws, first) \in Seq(TimeStep) /\ Ordered(Eager(kws, first))
  <1> DEFINE Q == Seqhdrs(kws)
             hdrs == Ascending(Q)
             c == Cardinality(Q)
             s == [b \in 1 .. c |-> AddRdFile(b - 1 + first, SummaryView(kws, b))]
             R == {pair \in TimeStep \X TimeStep : Later(pair[1], pair[2])}
             F == FlattenSeq(s)
  <1>1. /\ kws \in Seq(Times \cup {SEQHDR}) /\ DOMAIN kws = 1 .. Len(kws) /\ Len(kws) \in Nat
        /\ first \in Nat /\ first > 0
    <2>1. kws \in Seq(Times \cup {SEQHDR}) /\ first \in Nat \ {0}
      BY SummaryDataAssumption
    <2> QED BY <2>1, LenProperties
  <1>2. Q \in SUBSET (1 .. Len(kws))
    BY <1>1 DEF Seqhdrs
  <1>3. c \in Nat /\ hdrs \in [1 .. c -> Q] /\ \A m, n \in 1 .. c : m < n => hdrs[m] < hdrs[n]
    BY <1>1, <1>2, AscendingAscends DEF Ascends
  <1>4. Eager(kws, first) = F
    BY DEF Eager, Seqhdrs
  <1> DEFINE Stop(b) == CHOOSE stop : ViewIs(kws, hdrs, c, b, stop)
  <1>5. \A b \in 1 .. c : ViewIs(kws, hdrs, c, b, Stop(b))
    BY <1>1, ViewOfBlock
  <1> HIDE DEF Q, hdrs, c, Stop
  <1>6. ASSUME NEW b \in 1 .. c
        PROVE  /\ s[b] \in Seq(TimeStep)
               /\ \A i \in 1 .. Len(s[b]) :
                      /\ hdrs[b] + i \in hdrs[b] + 1 .. Stop(b) /\ i \in Nat
                      /\ s[b][i] \in TimeStep /\ s[b][i].time = kws[hdrs[b] + i]
                      /\ s[b][i].report = b - 1 + first
    <2> DEFINE view == SummaryView(kws, b)
               l == Stop(b) - hdrs[b]
    <2>1. /\ hdrs[b] \in 1 .. Len(kws) /\ Stop(b) \in hdrs[b] .. Len(kws)
          /\ \A n \in hdrs[b] + 1 .. Stop(b) : kws[n] # SEQHDR
          /\ view = SubSeq(kws, hdrs[b] + 1, Stop(b))
      BY <1>5 DEF ViewIs
    <2>2. /\ hdrs[b] + 1 \in Int /\ Stop(b) \in Int /\ hdrs[b] \in Nat /\ l \in Nat
          /\ Stop(b) - (hdrs[b] + 1) + 1 = l /\ (hdrs[b] + 1 <= Stop(b) \/ l = 0)
          /\ \A n \in hdrs[b] + 1 .. Stop(b) : n \in 1 .. Len(kws)
          /\ \A i \in 1 .. l : /\ hdrs[b] + i \in hdrs[b] + 1 .. Stop(b) /\ i \in Nat
                               /\ hdrs[b] + 1 + i - 1 = hdrs[b] + i
      BY <1>1, <2>1, BlockArithmetic
    <2>3. /\ view \in Seq(Times \cup {SEQHDR})
          /\ Len(view) = l
          /\ \A i \in 1 .. l : view[i] = kws[hdrs[b] + 1 + i - 1]
      <3> DEFINE from == hdrs[b] + 1
                 to == Stop(b)
                 S == Times \cup {SEQHDR}
      <3>1. from \in Int /\ to \in Int /\ to - from + 1 = l /\ (from <= to \/ l = 0) /\ l \in Nat
        BY <2>2
      <3>2. \A n \in from .. to : kws[n] \in S
        <4>1. \A n \in 1 .. Len(kws) : kws[n] \in S
          BY <1>1, ElementOfSeq
        <4> QED BY <2>2, <4>1
      <3>3. view = SubSeq(kws, from, to)
        BY <2>1
      <3> HIDE DEF view, from, to, l, S
      <3>4. /\ view \in Seq(S)
            /\ Len(view) = IF from <= to THEN to - from + 1 ELSE 0
            /\ \A i \in 1 .. to - from + 1 : view[i] = kws[from + i - 1]
        BY <3>1, <3>2, <3>3, SubSeqProperties
      <3>5. Len(view) = l
        BY <3>1, <3>4
      <3> QED BY <3>1, <3>4, <3>5 DEF from, S
    <2>4. s[b] = [n \in DOMAIN view |-> Step(view[n], b - 1 + first)]
      BY DEF AddRdFile
    <2> HIDE DEF view, s
    <2>5. DOMAIN view = 1 .. l
      BY <2>3, LenProperties
    <2> HIDE DEF l
    <2>6. ASSUME NEW i \in 1 .. l
          PROVE  /\ hdrs[b] + i \in hdrs[b] + 1 .. Stop(b) /\ i \in Nat
                 /\ s[b][i] \in TimeStep /\ s[b][i].time = kws[hdrs[b] + i]
                 /\ s[b][i].report = b - 1 + first
      <3>1. hdrs[b] + i \in hdrs[b] + 1 .. Stop(b) /\ i \in Nat /\ hdrs[b] + 1 + i - 1 = hdrs[b] + i
        BY <2>2
      <3>2. view[i] = kws[hdrs[b] + i] /\ view[i] \in Times \cup {SEQHDR}
        BY <2>3, <2>5, <3>1, ElementOfSeq
      <3>3. view[i] \in Nat
        BY <3>2 DEF Times, SEQHDR
      <3>4. s[b][i] = [time |-> view[i], report |-> b - 1 + first] /\ b - 1 + first \in Nat
        BY <1>1, <1>3, <2>4, <2>5 DEF Step
      <3> QED BY <3>1, <3>2, <3>3, <3>4 DEF TimeStep
    <2>7. s[b] \in [1 .. l -> TimeStep]
      BY <2>4, <2>5, <2>6
    <2>8. s[b] \in Seq(TimeStep) /\ Len(s[b]) = l
      BY <2>2, <2>7, WrittenOut DEF l
    <2> QED BY <2>6, <2>8
  <1>7. s \in [1 .. c -> Seq(TimeStep)]
    BY <1>6
  <1> HIDE DEF s
  <1>8. ASSUME NEW m \in 1 .. c, NEW n \in 1 .. c, NEW i \in 1 .. Len(s[m]), NEW j \in 1 .. Len(s[n]),
               m <= n, hdrs[m] + i < hdrs[n] + j
        PROVE  <<s[m][i], s[n][j]>> \in R
    <2>1. /\ hdrs[m] + i \in hdrs[m] + 1 .. Stop(m) /\ s[m][i].time = kws[hdrs[m] + i]
          /\ hdrs[n] + j \in hdrs[n] + 1 .. Stop(n) /\ s[n][j].time = kws[hdrs[n] + j]
          /\ s[m][i] \in TimeStep /\ s[n][j] \in TimeStep
      BY <1>6
    <2>2. /\ hdrs[m] \in 1 .. Len(kws) /\ Stop(m) \in hdrs[m] .. Len(kws)
          /\ hdrs[n] \in 1 .. Len(kws) /\ Stop(n) \in hdrs[n] .. Len(kws)
          /\ kws[hdrs[m] + i] # SEQHDR /\ kws[hdrs[n] + j] # SEQHDR
      BY <1>5, <2>1 DEF ViewIs
    <2>3. hdrs[m] + i \in DOMAIN kws /\ hdrs[n] + j \in DOMAIN kws
      <3>1. hdrs[m] + i \in 1 .. Len(kws)
        BY <1>1, <2>1, <2>2, BlockArithmetic
      <3>2. hdrs[n] + j \in 1 .. Len(kws)
        BY <1>1, <2>1, <2>2, BlockArithmetic
      <3> QED BY <1>1, <3>1, <3>2
    <2>4. kws[hdrs[m] + i] < kws[hdrs[n] + j]
      BY <1>8, <2>2, <2>3, SimulatorAssumption
    <2>5. s[m][i].report <= s[n][j].report
      <3>1. s[m][i].report = m - 1 + first /\ s[n][j].report = n - 1 + first
        BY <1>6
      <3>2. m \in Int /\ n \in Int /\ first \in Int /\ m <= n
        BY <1>1, <1>8
      <3> QED BY <3>1, <3>2
    <2> QED BY <2>1, <2>4, <2>5 DEF Later
  <1>9. ListsInOrder(s, c, R)
    <2>1. ASSUME NEW n \in 1 .. c, NEW i \in 1 .. Len(s[n]), NEW j \in 1 .. Len(s[n]), i < j
          PROVE  <<s[n][i], s[n][j]>> \in R
      <3>1. hdrs[n] \in Nat /\ i \in Nat /\ j \in Nat
        BY <1>1, <1>2, <1>3, <1>6 DEF Q
      <3>2. hdrs[n] + i < hdrs[n] + j
        BY <2>1, <3>1
      <3> QED BY <1>8, <3>2
    <2>2. ASSUME NEW m \in 1 .. c, NEW n \in 1 .. c, m < n,
                 NEW i \in 1 .. Len(s[m]), NEW j \in 1 .. Len(s[n])
          PROVE  <<s[m][i], s[n][j]>> \in R
      <3>1. /\ hdrs[m] + i \in hdrs[m] + 1 .. Stop(m) /\ hdrs[n] + j \in hdrs[n] + 1 .. Stop(n)
            /\ i \in Nat /\ j \in Nat
        BY <1>6
      <3>2. m < c /\ m + 1 \in 1 .. c /\ (m + 1 = n \/ m + 1 < n)
        BY <1>3, <2>2
      <3>3. Stop(m) < hdrs[m + 1] /\ hdrs[m + 1] <= hdrs[n] /\ hdrs[m] \in Nat /\ hdrs[n] \in Nat
            /\ hdrs[m + 1] \in Nat /\ Stop(m) \in Nat
        <4>1. Stop(m) < hdrs[m + 1] /\ Stop(m) \in hdrs[m] .. Len(kws) /\ hdrs[m] \in 1 .. Len(kws)
          BY <1>5, <3>2 DEF ViewIs
        <4>2. hdrs[n] \in 1 .. Len(kws) /\ hdrs[m + 1] \in 1 .. Len(kws)
          BY <1>5, <3>2 DEF ViewIs
        <4>3. hdrs[m + 1] <= hdrs[n]
          BY <1>3, <3>2, <4>2
        <4> QED BY <1>1, <4>1, <4>2, <4>3
      <3>4. hdrs[m] + i < hdrs[n] + j /\ m <= n
        BY <2>2, <3>1, <3>3
      <3> HIDE DEF R
      <3> QED BY <1>8, <3>4
    <2> HIDE DEF R
    <2> QED BY <2>1, <2>2 DEF ListsInOrder
  <1> HIDE DEF F
  <1>10. /\ F \in Seq(TimeStep) /\ Len(F) \in Nat /\ DOMAIN F = 1 .. Len(F)
         /\ \A k, l \in 1 .. Len(F) : k < l => <<F[k], F[l]>> \in R
    <2> HIDE DEF R
    <2> QED BY <1>3, <1>7, <1>9, FlattenedInOrder DEF F
  <1>11. \A k, l \in 1 .. Len(F) : k < l => Later(F[k], F[l])
    BY <1>10
  <1>12. Ordered(F)
    BY <1>10, <1>11 DEF Ordered
  <1> QED BY <1>4, <1>10, <1>12

(* And so has a case of separate files, one for each report step.          *)
LEMMA SeparateInOrder ==
    ASSUME NEW disk \in SeparateFiles
    PROVE  Separate(disk) \in Seq(TimeStep) /\ Ordered(Separate(disk))
  <1> DEFINE s == [r \in 1 .. MaxReport |->
                      IF r \in DOMAIN disk THEN AddRdFile(r, disk[r]) ELSE <<>>]
             R == {pair \in TimeStep \X TimeStep : Later(pair[1], pair[2])}
             F == FlattenSeq(s)
  <1>1. /\ MaxReport \in Nat
        /\ \A r \in DOMAIN disk : disk[r] \in Seq(Times)
    BY SummaryDataAssumption
  <1>2. Separate(disk) = F
    BY DEF Separate
  <1>3. ASSUME NEW r \in 1 .. MaxReport
        PROVE  /\ s[r] \in Seq(TimeStep)
               /\ \A i \in 1 .. Len(s[r]) :
                      /\ r \in DOMAIN disk /\ i \in DOMAIN disk[r] /\ i \in Nat
                      /\ s[r][i] \in TimeStep /\ s[r][i].time = disk[r][i]
                      /\ s[r][i].report = r
    <2>1. CASE r \in DOMAIN disk
      <3> DEFINE times == disk[r]
                 l == Len(times)
      <3>1. times \in Seq(Times) /\ l \in Nat /\ DOMAIN times = 1 .. l
        BY <1>1, <2>1, LenProperties
      <3>2. s[r] = [n \in DOMAIN times |-> Step(times[n], r)]
        BY <2>1 DEF AddRdFile
      <3> HIDE DEF s, l
      <3>3. ASSUME NEW i \in 1 .. l
            PROVE  s[r][i] \in TimeStep /\ s[r][i].time = times[i] /\ s[r][i].report = r
        <4>1. times[i] \in Times
          BY <3>1, ElementOfSeq DEF l
        <4>2. times[i] \in Nat /\ r \in Nat
          BY <4>1 DEF Times
        <4> QED BY <3>1, <3>2, <4>2 DEF Step, TimeStep
      <3>4. s[r] \in [1 .. l -> TimeStep]
        BY <3>1, <3>2, <3>3
      <3>5. s[r] \in Seq(TimeStep) /\ Len(s[r]) = l
        BY <3>1, <3>4, WrittenOut
      <3>6. \A i \in 1 .. l : i \in Nat
        BY <3>1
      <3> QED BY <2>1, <3>1, <3>3, <3>5, <3>6
    <2>2. CASE r \notin DOMAIN disk
      <3>1. s[r] = <<>>
        BY <2>2
      <3>2. s[r] \in Seq(TimeStep) /\ Len(s[r]) = 0
        BY <3>1, EmptySeq
      <3>3. 1 .. Len(s[r]) = {}
        BY <3>2
      <3> QED BY <3>2, <3>3
    <2> QED BY <2>1, <2>2
  <1>4. s \in [1 .. MaxReport -> Seq(TimeStep)]
    BY <1>3
  <1> HIDE DEF s
  <1>5. ASSUME NEW q \in 1 .. MaxReport, NEW r \in 1 .. MaxReport,
               NEW m \in 1 .. Len(s[q]), NEW n \in 1 .. Len(s[r]), q < r \/ (q = r /\ m < n)
        PROVE  <<s[q][m], s[r][n]>> \in R
    <2>1. /\ q \in DOMAIN disk /\ m \in DOMAIN disk[q] /\ s[q][m] \in TimeStep
          /\ s[q][m].time = disk[q][m]
          /\ r \in DOMAIN disk /\ n \in DOMAIN disk[r] /\ s[r][n] \in TimeStep
          /\ s[r][n].time = disk[r][n]
      BY <1>3
    <2>2. disk[q][m] < disk[r][n]
      BY <1>5, <2>1, SimulatorAssumption
    <2>3. s[q][m].report = q /\ s[r][n].report = r /\ q <= r
      BY <1>3, <1>5
    <2> QED BY <2>1, <2>2, <2>3 DEF Later
  <1>6. ListsInOrder(s, MaxReport, R)
    <2> HIDE DEF R
    <2> QED BY <1>5 DEF ListsInOrder
  <1> HIDE DEF F
  <1>7. /\ F \in Seq(TimeStep) /\ Len(F) \in Nat /\ DOMAIN F = 1 .. Len(F)
        /\ \A k, l \in 1 .. Len(F) : k < l => <<F[k], F[l]>> \in R
    <2> HIDE DEF R
    <2> QED BY <1>1, <1>4, <1>6, FlattenedInOrder DEF F
  <1>8. \A k, l \in 1 .. Len(F) : k < l => Later(F[k], F[l])
    BY <1>7
  <1>9. Ordered(F)
    BY <1>7, <1>8 DEF Ordered
  <1> QED BY <1>2, <1>7, <1>9

-----------------------------------------------------------------------------
(* A file of a chain: its index is in the order of time and is what has    *)
(* been written; the steps that were loaded have different times.          *)
FileOK(f) ==
    /\ f.index \in Seq(TimeStep) /\ f.data \in Seq(TimeStep)
    /\ InTimeOrder(f.index)
    /\ f.data # <<>> => f.index = f.data
    /\ IF f.first_step = 0 THEN f.index = f.data ELSE Ascend(f.index)

SummaryFile ==
    {f \in [data : Seq(TimeStep), index : Seq(TimeStep), kws : Seq(Nat),
            first_step : Nat, age : Nat] : FileOK(f)}

LEMMA AscendInTimeOrder ==
    ASSUME NEW s \in Seq(TimeStep), Ascend(s)
    PROVE  InTimeOrder(s)
  <1>1. \A n \in DOMAIN s : s[n] \in TimeStep
    BY ElementOfSeq, LenProperties
  <1>2. \A n \in DOMAIN s : s[n].time \in Nat
    BY <1>1 DEF TimeStep
  <1> QED BY <1>2 DEF Ascend, Later, InTimeOrder

LEMMA LoadedFile ==
    ASSUME NEW f \in LoadedFiles
    PROVE  f \in SummaryFile /\ f.first_step # 0
  <1> DEFINE Lazy(kws, first) == [data |-> <<>>, index |-> Loader(kws, first),
                                  kws |-> kws, first_step |-> first, age |-> 0]
             Sorted(kws, first, s) == [data |-> s, index |-> s,
                                       kws |-> kws, first_step |-> first, age |-> 0]
  <1>1. \A first \in FirstSteps : first \in Nat /\ first # 0
    BY SummaryDataAssumption
  <1>2. ASSUME NEW kws \in UnifiedFiles PROVE kws \in Seq(Nat)
    <2>1. kws \in Seq(Times \cup {SEQHDR}) /\ Times \cup {SEQHDR} \subseteq Nat
      BY SummaryDataAssumption DEF Times, SEQHDR
    <2>2. kws \in [1 .. Len(kws) -> Nat] /\ Len(kws) \in Nat
      BY <2>1, LenProperties
    <2> QED BY <2>2, SeqDef
  <1>3. <<>> \in Seq(TimeStep) /\ <<>> \in Seq(Nat)
    BY EmptySeq
  <1>4. ASSUME NEW kws \in UnifiedFiles, NEW first \in FirstSteps, f = Lazy(kws, first)
        PROVE  f \in SummaryFile /\ f.first_step # 0
    <2>1. Loader(kws, first) \in Seq(TimeStep) /\ Ascend(Loader(kws, first))
      BY LoaderInOrder
    <2>2. InTimeOrder(Loader(kws, first))
      BY <2>1, AscendInTimeOrder
    <2>3. f.first_step = first /\ f.data = <<>> /\ f.index = Loader(kws, first)
      BY <1>4
    <2>4. FileOK(f)
      BY <1>1, <1>3, <2>1, <2>2, <2>3 DEF FileOK
    <2>5. f \in [data : Seq(TimeStep), index : Seq(TimeStep), kws : Seq(Nat),
                 first_step : Nat, age : Nat]
      BY <1>1, <1>2, <1>3, <1>4, <2>1
    <2> QED BY <1>1, <2>3, <2>4, <2>5 DEF SummaryFile
  <1>5. ASSUME NEW kws \in Seq(Nat), NEW first \in Nat \ {0}, NEW steps \in Seq(TimeStep),
               Ordered(steps), NEW s \in SortedBy(steps), f = Sorted(kws, first, s)
        PROVE  f \in SummaryFile /\ f.first_step # 0
    <2>1. s \in Seq(TimeStep) /\ InTimeOrder(s) /\ Ascend(s)
      BY <1>5, SortedInOrder
    <2>2. f.first_step = first /\ f.data = s /\ f.index = s
      BY <1>5
    <2>3. FileOK(f)
      BY <2>1, <2>2 DEF FileOK
    <2>4. f \in [data : Seq(TimeStep), index : Seq(TimeStep), kws : Seq(Nat),
                 first_step : Nat, age : Nat]
      BY <1>5, <2>1
    <2> QED BY <2>2, <2>3, <2>4 DEF SummaryFile
  <1>6. \/ \E kws \in UnifiedFiles, first \in FirstSteps : f = Lazy(kws, first)
        \/ \E kws \in UnifiedFiles, first \in FirstSteps :
               \E s \in SortedBy(Eager(kws, first)) : f = Sorted(kws, first, s)
        \/ \E disk \in SeparateFiles : \E s \in SortedBy(Separate(disk)) : f = Sorted(<<>>, 1, s)
    <2> DEFINE A == {Lazy(kws, first) : kws \in UnifiedFiles, first \in FirstSteps}
               B == UNION {{Sorted(kws, first, s) : s \in SortedBy(Eager(kws, first))} :
                              kws \in UnifiedFiles, first \in FirstSteps}
               C == UNION {{Sorted(<<>>, 1, s) : s \in SortedBy(Separate(disk))} :
                              disk \in SeparateFiles}
    <2>1. LoadedFiles = A \cup B \cup C
      BY SMT DEF LoadedFiles
    <2> HIDE DEF Lazy, Sorted
    <2>2. f \in A => \E kws \in UnifiedFiles, first \in FirstSteps : f = Lazy(kws, first)
      OBVIOUS
    <2>3. f \in B => \E kws \in UnifiedFiles, first \in FirstSteps :
                         \E s \in SortedBy(Eager(kws, first)) : f = Sorted(kws, first, s)
      OBVIOUS
    <2>4. f \in C => \E disk \in SeparateFiles : \E s \in SortedBy(Separate(disk)) : f = Sorted(<<>>, 1, s)
      OBVIOUS
    <2> HIDE DEF A, B, C
    <2> QED BY <2>1, <2>2, <2>3, <2>4
  <1> HIDE DEF Lazy, Sorted
  <1>7. CASE \E kws \in UnifiedFiles, first \in FirstSteps : f = Lazy(kws, first)
    BY <1>4, <1>7
  <1>8. CASE \E kws \in UnifiedFiles, first \in FirstSteps :
                 \E s \in SortedBy(Eager(kws, first)) : f = Sorted(kws, first, s)
    <2>1. PICK kws \in UnifiedFiles, first \in FirstSteps :
              \E s \in SortedBy(Eager(kws, first)) : f = Sorted(kws, first, s)
      BY <1>8
    <2>2. Eager(kws, first) \in Seq(TimeStep) /\ Ordered(Eager(kws, first))
      BY EagerInOrder
    <2>3. kws \in Seq(Nat) /\ first \in Nat \ {0}
      BY <1>1, <1>2
    <2> QED BY <1>5, <2>1, <2>2, <2>3
  <1>9. CASE \E disk \in SeparateFiles :
                 \E s \in SortedBy(Separate(disk)) : f = Sorted(<<>>, 1, s)
    <2>1. PICK disk \in SeparateFiles : \E s \in SortedBy(Separate(disk)) : f = Sorted(<<>>, 1, s)
      BY <1>9
    <2>2. Separate(disk) \in Seq(TimeStep) /\ Ordered(Separate(disk))
      BY SeparateInOrder
    <2>3. 1 \in Nat \ {0}
      OBVIOUS
    <2> QED BY <1>3, <1>5, <2>1, <2>2, <2>3
  <1> QED BY <1>6, <1>7, <1>8, <1>9

-----------------------------------------------------------------------------
(* The files of a chain, in any order: one that is written, or files that  *)
(* have been loaded, none of them empty and no newer one with a later      *)
(* start.                                                                  *)
FilesOK(files) ==
    /\ files \in Seq(SummaryFile)
    /\ \/ Len(files) = 1 /\ files[1].first_step = 0
       \/ \A n \in DOMAIN files : files[n].first_step # 0 /\ files[n].index # <<>>
    /\ \A n \in DOMAIN files : files[n].age < Len(files)
    /\ \A m, n \in DOMAIN files :
           files[m].age > files[n].age => DataStart(files[m]) <= DataStart(files[n])

(* The index is the one of these files, which are in order.                *)
ChainOK ==
    /\ FilesOK(data_files)
    /\ Len(data_files) < 2 \/ InOrder(data_files)
    /\ DOMAIN index = DOMAIN data_files /\ Len(index) = Len(data_files)
    /\ \A n \in DOMAIN data_files :
           \E garbage \in Garbage : index[n] = IndexNode(data_files, n, garbage)

LEMMA FilesArranged ==
    ASSUME NEW files, FilesOK(files), NEW fs \in Arranged(files)
    PROVE  FilesOK(fs) /\ Len(fs) = Len(files) /\ (Len(fs) < 2 \/ InOrder(fs))
  <1> DEFINE N == Len(files)
  <1>1. N \in Nat /\ DOMAIN files = 1 .. N /\ files \in [1 .. N -> SummaryFile]
    BY LenProperties DEF FilesOK
  <1>2. PICK p \in Bijection(1 .. N, 1 .. N) : fs = [n \in 1 .. N |-> files[p[n]]]
    BY <1>1 DEF Arranged
  <1>3. Len(fs) < 2 \/ InOrder(fs)
    BY DEF Arranged
  <1>4. p \in [1 .. N -> 1 .. N]
    BY <1>2 DEF Bijection, Injection
  <1> HIDE DEF N
  <1>5. fs \in [1 .. N -> SummaryFile]
    BY <1>1, <1>2, <1>4
  <1>6. fs \in Seq(SummaryFile) /\ Len(fs) = N /\ DOMAIN fs = 1 .. N
    BY <1>1, <1>5, WrittenOut
  <1>7. \/ N = 1 /\ fs[1].first_step = 0
        \/ \A n \in 1 .. N : fs[n].first_step # 0 /\ fs[n].index # <<>>
    <2>1. CASE N = 1 /\ files[1].first_step = 0
      <3>1. p[1] = 1 /\ fs[1] = files[p[1]]
        BY <1>2, <1>4, <2>1
      <3> QED BY <2>1, <3>1
    <2>2. CASE \A n \in DOMAIN files : files[n].first_step # 0 /\ files[n].index # <<>>
      BY <1>1, <1>2, <1>4, <2>2
    <2> QED BY <2>1, <2>2 DEF FilesOK, N
  <1>8. \A n \in 1 .. N : fs[n].age < N
    BY <1>1, <1>2, <1>4 DEF FilesOK, N
  <1>9. \A m, n \in 1 .. N : fs[m].age > fs[n].age => DataStart(fs[m]) <= DataStart(fs[n])
    BY <1>1, <1>2, <1>4 DEF FilesOK
  <1> QED BY <1>3, <1>6, <1>7, <1>8, <1>9 DEF FilesOK, N

(* Building the index makes a chain of the files.                          *)
LEMMA ChainBuilt ==
    ASSUME NEW files, FilesOK(files), BuildIndex(files)
    PROVE  ChainOK'
  <1>1. PICK fs \in Arranged(files), garbage \in Garbage :
            data_files' = fs /\ index' = [n \in DOMAIN fs |-> IndexNode(fs, n, garbage)]
    BY DEF BuildIndex
  <1>2. FilesOK(fs) /\ (Len(fs) < 2 \/ InOrder(fs))
    BY FilesArranged
  <1>3. Len(fs) \in Nat /\ DOMAIN fs = 1 .. Len(fs)
    BY <1>2, LenProperties DEF FilesOK
  <1> DEFINE nodes == [n \in DOMAIN fs |-> IndexNode(fs, n, garbage)]
  <1>4. DOMAIN nodes = DOMAIN fs /\ Len(nodes) = Len(fs)
    <2>1. nodes \in [1 .. Len(fs) -> {IndexNode(fs, n, garbage) : n \in DOMAIN fs}]
      BY <1>3
    <2> HIDE DEF nodes
    <2> QED BY <1>3, <2>1, WrittenOut
  <1>5. \A n \in DOMAIN fs : \E g \in Garbage : nodes[n] = IndexNode(fs, n, g)
    <2>1. \A n \in DOMAIN fs : nodes[n] = IndexNode(fs, n, garbage)
      OBVIOUS
    <2> HIDE DEF nodes
    <2> QED BY <2>1
  <1>6. data_files' = fs /\ index' = nodes
    BY <1>1
  <1> HIDE DEF nodes
  <1>7. FilesOK(fs) /\ (Len(fs) < 2 \/ InOrder(fs)) /\ DOMAIN nodes = DOMAIN fs /\ Len(nodes) = Len(fs)
    BY <1>2, <1>4
  <1> QED BY <1>5, <1>6, <1>7 DEF ChainOK

(* What is kept of a file is what is before the next one.                  *)
LEMMA BeforeNext ==
    ASSUME NEW f \in SummaryFile, NEW end_time
    PROVE  /\ LengthBefore(f, end_time) \in 0 .. Len(f.index)
           /\ \A k \in 1 .. LengthBefore(f, end_time) : f.index[k].time < end_time
           /\ \A k \in 1 .. Len(f.index) :
                  (\A m \in 1 .. k : f.index[m].time < end_time) => k <= LengthBefore(f, end_time)
  <1> DEFINE N == Len(f.index)
             P == {n \in 1 .. N : \A m \in 1 .. n : f.index[m].time < end_time}
  <1>1. N \in Nat /\ DOMAIN f.index = 1 .. N
    BY LenProperties DEF SummaryFile, FileOK
  <1>2. LengthBefore(f, end_time) = Cardinality(P)
    BY <1>1 DEF LengthBefore
  <1>3. P \in SUBSET (1 .. N) /\ \A n \in P : \A m \in 1 .. n : m \in P
    <2> HIDE DEF N
    <2> QED BY <1>1
  <1>4. P = 1 .. Cardinality(P) /\ Cardinality(P) \in 0 .. N
    <2> HIDE DEF P, N
    <2> QED BY <1>1, <1>3, InitialSegment
  <1>5. \A k \in P : f.index[k].time < end_time
    BY <1>1
  <1> QED BY <1>1, <1>2, <1>4, <1>5

LEMMA NodeLength ==
    ASSUME ChainOK, NEW n \in DOMAIN data_files
    PROVE  /\ data_files[n] \in SummaryFile
           /\ index[n].length = IF n = Len(data_files) THEN Len(data_files[n].index)
                                ELSE LengthBefore(data_files[n], DataStart(data_files[n + 1]))
           /\ index[n].length \in 0 .. Len(data_files[n].index)
  <1> DEFINE f == data_files[n]
             l == IF n = Len(data_files) THEN Len(f.index)
                  ELSE LengthBefore(f, DataStart(data_files[n + 1]))
  <1>1. f \in SummaryFile
    <2>1. data_files \in Seq(SummaryFile)
      BY DEF ChainOK, FilesOK
    <2> QED BY <2>1, LenProperties, ElementOfSeq
  <1>2. Len(f.index) \in Nat
    BY <1>1, LenProperties DEF SummaryFile, FileOK
  <1>3. l \in 0 .. Len(f.index)
    BY <1>1, <1>2, BeforeNext
  <1>4. PICK g \in Garbage : index[n] = IndexNode(data_files, n, g)
    BY DEF ChainOK
  <1>5. g.length = 0
    BY SummaryDataAssumption
  <1>6. index[n].length = l
    <2>1. CASE l = 0
      <3>1. index[n] = g
        BY <1>4, <2>1 DEF IndexNode
      <3> QED BY <1>5, <2>1, <3>1
    <2>2. CASE l # 0
      BY <1>4, <2>2 DEF IndexNode
    <2> QED BY <2>1, <2>2
  <1> QED BY <1>1, <1>3, <1>6

-----------------------------------------------------------------------------
(* The timeline of a chain.                                                *)

FileCount == Len(data_files)
KeptSteps == [n \in DOMAIN index |-> SubSeq(data_files[n].index, 1, index[n].length)]

LEMMA FilesTyped ==
    ASSUME ChainOK
    PROVE  /\ FileCount \in Nat /\ DOMAIN data_files = 1 .. FileCount
           /\ DOMAIN index = 1 .. FileCount /\ Len(index) = FileCount
           /\ data_files # <<>> => FileCount > 0
           /\ FileCount > 1 => \A n \in 1 .. FileCount : data_files[n].index # <<>>
           /\ \A n \in 1 .. FileCount :
                  LET steps == data_files[n].index
                  IN  /\ steps \in Seq(TimeStep) /\ Len(steps) \in Nat /\ DOMAIN steps = 1 .. Len(steps)
                      /\ \A k \in 1 .. Len(steps) :
                             steps[k] \in TimeStep /\ steps[k].time \in Nat /\ steps[k].report \in Nat
                      /\ steps # <<>> => /\ Len(steps) > 0 /\ DataStart(data_files[n]) = steps[1].time
                                         /\ SimEnd(data_files[n]) = steps[Len(steps)].time
                      /\ Len(steps) > 0 => steps # <<>>
  <1>1. data_files \in Seq(SummaryFile)
    BY DEF ChainOK, FilesOK
  <1>2. FileCount \in Nat /\ DOMAIN data_files = 1 .. FileCount
    BY <1>1, LenProperties DEF FileCount
  <1>3. DOMAIN index = 1 .. FileCount /\ Len(index) = FileCount
    BY <1>2 DEF ChainOK, FileCount
  <1>4. data_files # <<>> => FileCount > 0
    BY <1>1, <1>2, EmptySeq DEF FileCount
  <1>5. FileCount > 1 => \A n \in 1 .. FileCount : data_files[n].index # <<>>
    BY <1>2 DEF ChainOK, FilesOK, FileCount
  <1>6. ASSUME NEW n \in 1 .. FileCount
        PROVE  LET steps == data_files[n].index
               IN  /\ steps \in Seq(TimeStep) /\ Len(steps) \in Nat /\ DOMAIN steps = 1 .. Len(steps)
                   /\ \A k \in 1 .. Len(steps) :
                          steps[k] \in TimeStep /\ steps[k].time \in Nat /\ steps[k].report \in Nat
                   /\ steps # <<>> => /\ Len(steps) > 0 /\ DataStart(data_files[n]) = steps[1].time
                                      /\ SimEnd(data_files[n]) = steps[Len(steps)].time
                   /\ Len(steps) > 0 => steps # <<>>
    <2> DEFINE steps == data_files[n].index
    <2>1. steps \in Seq(TimeStep)
      BY <1>2, NodeLength DEF SummaryFile, FileOK
    <2>2. Len(steps) \in Nat /\ DOMAIN steps = 1 .. Len(steps)
      BY <2>1, LenProperties
    <2>3. \A k \in 1 .. Len(steps) : steps[k] \in TimeStep
      BY <2>1, ElementOfSeq
    <2>4. \A k \in 1 .. Len(steps) : steps[k].time \in Nat /\ steps[k].report \in Nat
      BY <2>3 DEF TimeStep
    <2>5. steps # <<>> => Len(steps) > 0
      BY <2>1, <2>2, EmptySeq
    <2>6. Len(<<>>) = 0
      BY EmptySeq
    <2>7. steps # <<>> => Head(steps) = steps[1] /\ Last(steps) = steps[Len(steps)]
      BY <2>1 DEF Last
    <2> QED BY <2>1, <2>2, <2>3, <2>4, <2>5, <2>6, <2>7 DEF DataStart, SimEnd
  <1> QED BY <1>2, <1>3, <1>4, <1>5, <1>6

(* Files that follow one another start one after the other.                *)
LEMMA StartsInOrder ==
    ASSUME ChainOK, NEW m \in 1 .. FileCount, NEW n \in 1 .. FileCount, m < n
    PROVE  /\ DataStart(data_files[m + 1]) <= DataStart(data_files[n])
           /\ DataStart(data_files[m + 1]) \in Nat /\ DataStart(data_files[n]) \in Nat
  <1> DEFINE start(k) == DataStart(data_files[k])
             T == {k \in 0 .. FileCount : m < k => start(m + 1) <= start(k)}
  <1>1. FileCount \in Nat /\ FileCount > 1
    BY FilesTyped
  <1>2. \A k \in 1 .. FileCount : start(k) \in Nat
    <2> SUFFICES ASSUME NEW k \in 1 .. FileCount PROVE start(k) \in Nat
      OBVIOUS
    <2> DEFINE steps == data_files[k].index
    <2>1. steps # <<>> /\ Len(steps) \in Nat /\ Len(steps) > 0 /\ start(k) = steps[1].time
      BY <1>1, FilesTyped
    <2>2. 1 \in 1 .. Len(steps)
      BY <2>1
    <2>3. steps[1].time \in Nat
      BY <2>2, FilesTyped
    <2> QED BY <2>1, <2>3
  <1>3. \A k \in 2 .. FileCount : start(k - 1) <= start(k)
    BY <1>1 DEF ChainOK, InOrder, FileCount
  <1> HIDE DEF start
  <1>4. 0 \in T
    BY <1>1
  <1>5. ASSUME NEW k \in 0 .. FileCount - 1, k \in T PROVE k + 1 \in T
    <2>1. k + 1 \in 1 .. FileCount /\ (k + 1) - 1 = k
      BY <1>1
    <2>2. CASE m < k
      <3>1. k \in 1 .. FileCount /\ m + 1 \in 1 .. FileCount /\ k + 1 \in 2 .. FileCount
        BY <1>1, <2>1, <2>2
      <3>2. start(k) <= start(k + 1)
        BY <1>3, <2>1, <3>1
      <3>3. start(m + 1) <= start(k + 1)
        BY <1>2, <1>5, <2>1, <2>2, <3>1, <3>2
      <3> QED BY <2>1, <3>3
    <2>3. CASE ~(m < k)
      <3>1. m < k + 1 => m + 1 = k + 1
        BY <1>1, <2>1, <2>3
      <3>2. start(k + 1) <= start(k + 1)
        BY <1>2, <2>1
      <3> QED BY <2>1, <3>1, <3>2
    <2> QED BY <2>2, <2>3
  <1> HIDE DEF T
  <1>6. 0 .. FileCount \subseteq T
    BY <1>1, <1>4, <1>5, UpToInduction
  <1>7. start(m + 1) <= start(n)
    BY <1>1, <1>6 DEF T
  <1>8. m + 1 \in 1 .. FileCount
    BY <1>1
  <1> QED BY <1>2, <1>7, <1>8 DEF start

(* What is kept of a file is where it was, and before the later files.     *)
LEMMA KeptTyped ==
    ASSUME ChainOK, NEW n \in 1 .. FileCount
    PROVE  /\ KeptSteps[n] \in Seq(TimeStep) /\ Len(KeptSteps[n]) = index[n].length
           /\ index[n].length \in 0 .. Len(data_files[n].index)
           /\ n = FileCount => index[n].length = Len(data_files[n].index)
           /\ \A k \in 1 .. index[n].length :
                  /\ KeptSteps[n][k] = data_files[n].index[k]
                  /\ k \in 1 .. Len(data_files[n].index)
                  /\ n < FileCount => data_files[n].index[k].time < DataStart(data_files[n + 1])
  <1> DEFINE steps == data_files[n].index
             l == index[n].length
  <1>1. /\ steps \in Seq(TimeStep) /\ Len(steps) \in Nat /\ n \in DOMAIN data_files /\ n \in DOMAIN index
        /\ \A k \in 1 .. Len(steps) : steps[k] \in TimeStep
    BY FilesTyped
  <1>2. l \in 0 .. Len(steps) /\ data_files[n] \in SummaryFile
    BY <1>1, NodeLength
  <1>3. KeptSteps[n] = SubSeq(steps, 1, l)
    BY <1>1 DEF KeptSteps
  <1>4. n = FileCount => l = Len(steps)
    BY <1>1, NodeLength DEF FileCount
  <1>5. n < FileCount => \A k \in 1 .. l : steps[k].time < DataStart(data_files[n + 1])
    <2> SUFFICES ASSUME n < FileCount
                 PROVE  \A k \in 1 .. l : steps[k].time < DataStart(data_files[n + 1])
      OBVIOUS
    <2>1. l = LengthBefore(data_files[n], DataStart(data_files[n + 1]))
      BY <1>1, NodeLength DEF FileCount
    <2> QED BY <1>2, <2>1, BeforeNext
  <1> HIDE DEF steps, l
  <1>6. \A k \in 1 .. l : k \in 1 .. Len(steps)
    BY <1>1, <1>2
  <1>7. /\ SubSeq(steps, 1, l) \in Seq(TimeStep) /\ Len(SubSeq(steps, 1, l)) = l
        /\ \A k \in 1 .. l : SubSeq(steps, 1, l)[k] = steps[k]
    <2>1. l \in Int /\ 1 \in Int /\ l - 1 + 1 = l /\ (1 <= l \/ l = 0)
      BY <1>1, <1>2
    <2>2. \A k \in 1 .. l : steps[k] \in TimeStep /\ 1 + k - 1 = k
      BY <1>1, <1>6
    <2>3. /\ SubSeq(steps, 1, l) \in Seq(TimeStep)
          /\ Len(SubSeq(steps, 1, l)) = IF 1 <= l THEN l - 1 + 1 ELSE 0
          /\ \A k \in 1 .. l - 1 + 1 : SubSeq(steps, 1, l)[k] = steps[1 + k - 1]
      BY <2>1, <2>2, SubSeqProperties
    <2> QED BY <2>1, <2>2, <2>3
  <1> QED BY <1>2, <1>3, <1>4, <1>5, <1>6, <1>7 DEF steps, l

LEMMA KeptInOrder ==
    ASSUME ChainOK
    PROVE  /\ KeptSteps \in [1 .. FileCount -> Seq(TimeStep)]
           /\ \A n \in 1 .. FileCount : \A i, j \in 1 .. Len(KeptSteps[n]) :
                  i < j => KeptSteps[n][i].time <= KeptSteps[n][j].time
           /\ ~Writing => \A n \in 1 .. FileCount : \A i, j \in 1 .. Len(KeptSteps[n]) :
                  i < j => KeptSteps[n][i].time < KeptSteps[n][j].time
           /\ \A m, n \in 1 .. FileCount : m < n =>
                  \A i \in 1 .. Len(KeptSteps[m]), j \in 1 .. Len(KeptSteps[n]) :
                      KeptSteps[m][i].time < KeptSteps[n][j].time
  <1>1. KeptSteps \in [1 .. FileCount -> Seq(TimeStep)]
    <2>1. DOMAIN KeptSteps = 1 .. FileCount
      BY FilesTyped DEF KeptSteps
    <2>2. \A n \in 1 .. FileCount : KeptSteps[n] \in Seq(TimeStep)
      BY KeptTyped
    <2>3. KeptSteps = [n \in DOMAIN index |-> KeptSteps[n]]
      BY DEF KeptSteps
    <2> QED BY <2>2, <2>3, FilesTyped
  <1>2. ASSUME NEW n \in 1 .. FileCount, NEW i \in 1 .. Len(KeptSteps[n]), NEW j \in 1 .. Len(KeptSteps[n]),
               i < j
        PROVE  /\ KeptSteps[n][i].time <= KeptSteps[n][j].time
               /\ ~Writing => KeptSteps[n][i].time < KeptSteps[n][j].time
    <2> DEFINE steps == data_files[n].index
    <2>1. /\ KeptSteps[n][i] = steps[i] /\ KeptSteps[n][j] = steps[j]
          /\ i \in DOMAIN steps /\ j \in DOMAIN steps
      BY KeptTyped, FilesTyped
    <2>2. FileOK(data_files[n]) /\ data_files[n].first_step \in Nat
      BY FilesTyped, NodeLength DEF SummaryFile
    <2>3. steps[i].time <= steps[j].time
      BY <1>2, <2>1, <2>2 DEF FileOK, InTimeOrder
    <2>4. ASSUME ~Writing PROVE steps[i].time < steps[j].time
      <3>1. data_files[n].first_step # 0
        <4>1. DOMAIN data_files = 1 .. FileCount /\ FileCount \in Nat /\ data_files \in Seq(SummaryFile)
          BY FilesTyped DEF ChainOK, FilesOK
        <4>2. data_files # <<>>
          BY <4>1
        <4>3. Head(data_files) = data_files[1]
          BY <4>1, <4>2
        <4>4. data_files[1].first_step # 0
          BY <2>4, <4>2, <4>3 DEF Writing
        <4> QED BY <4>1, <4>4 DEF ChainOK, FilesOK
      <3>2. Ascend(steps)
        BY <2>2, <3>1 DEF FileOK
      <3> QED BY <1>2, <2>1, <3>2 DEF Ascend, Later
    <2> QED BY <2>1, <2>3, <2>4
  <1>3. ASSUME NEW m \in 1 .. FileCount, NEW n \in 1 .. FileCount, m < n,
               NEW i \in 1 .. Len(KeptSteps[m]), NEW j \in 1 .. Len(KeptSteps[n])
        PROVE  KeptSteps[m][i].time < KeptSteps[n][j].time
    <2> DEFINE steps == data_files[n].index
    <2>1. FileCount \in Nat /\ m < FileCount
      BY <1>3, FilesTyped
    <2>2. /\ KeptSteps[m][i].time < DataStart(data_files[m + 1])
          /\ KeptSteps[m][i].time \in Nat
      BY <2>1, KeptTyped, FilesTyped
    <2>3. /\ DataStart(data_files[m + 1]) <= DataStart(data_files[n])
          /\ DataStart(data_files[m + 1]) \in Nat /\ DataStart(data_files[n]) \in Nat
      BY <1>3, StartsInOrder
    <2>4. KeptSteps[n][j] = steps[j] /\ j \in 1 .. Len(steps) /\ steps[j].time \in Nat
      BY KeptTyped, FilesTyped
    <2>5. DataStart(data_files[n]) = steps[1].time /\ 1 \in 1 .. Len(steps)
          /\ DOMAIN steps = 1 .. Len(steps)
      BY <2>4, FilesTyped
    <2>6. steps[1].time <= steps[j].time
      <3>1. InTimeOrder(steps)
        BY FilesTyped, NodeLength DEF SummaryFile, FileOK
      <3>2. j = 1 \/ 1 < j
        BY <2>4
      <3> QED BY <2>4, <2>5, <3>1, <3>2 DEF InTimeOrder
    <2> DEFINE a == KeptSteps[m][i].time
               b == DataStart(data_files[m + 1])
               c == DataStart(data_files[n])
               d == KeptSteps[n][j].time
    <2>7. a \in Nat /\ b \in Nat /\ a < b
      BY <2>2, <2>3
    <2>8. c \in Nat /\ b <= c
      BY <2>3
    <2>9. d \in Nat /\ c <= d
      BY <2>4, <2>5, <2>6
    <2> HIDE DEF a, b, c, d
    <2>10. a < d
      BY <2>7, <2>8, <2>9
    <2> QED BY <2>10 DEF a, d
  <1> QED BY <1>1, <1>2, <1>3

(* The timeline is in the order of time; that of loaded files has no time  *)
(* twice.                                                                  *)
LEMMA TimelineInOrder ==
    ASSUME ChainOK
    PROVE  /\ Timeline \in Seq(TimeStep) /\ Len(Timeline) \in Nat
           /\ DOMAIN Timeline = 1 .. Len(Timeline)
           /\ \A k \in 1 .. Len(Timeline) : Timeline[k].time \in Nat
           /\ \A k, l \in 1 .. Len(Timeline) : k < l => Timeline[k].time <= Timeline[l].time
           /\ ~Writing =>
                  \A k, l \in 1 .. Len(Timeline) : k < l => Timeline[k].time < Timeline[l].time
  <1> DEFINE R(strict) == {pair \in TimeStep \X TimeStep :
                               IF strict THEN pair[1].time < pair[2].time ELSE pair[1].time <= pair[2].time}
             F == FlattenSeq(KeptSteps)
  <1>1. FileCount \in Nat /\ KeptSteps \in [1 .. FileCount -> Seq(TimeStep)]
    BY FilesTyped, KeptInOrder
  <1>2. Timeline = F
    BY DEF Timeline, KeptSteps
  <1>3. \A n \in 1 .. FileCount : \A i \in 1 .. Len(KeptSteps[n]) :
            KeptSteps[n][i] \in TimeStep /\ KeptSteps[n][i].time \in Nat
    <2>1. \A n \in 1 .. FileCount : \A i \in 1 .. Len(KeptSteps[n]) : KeptSteps[n][i] \in TimeStep
      BY <1>1, ElementOfSeq
    <2> QED BY <2>1 DEF TimeStep
  <1>4. ASSUME NEW strict \in BOOLEAN, strict => ~Writing
        PROVE  ListsInOrder(KeptSteps, FileCount, R(strict))
    <2>1. ASSUME NEW n \in 1 .. FileCount,
                 NEW i \in 1 .. Len(KeptSteps[n]), NEW j \in 1 .. Len(KeptSteps[n]), i < j
          PROVE  <<KeptSteps[n][i], KeptSteps[n][j]>> \in R(strict)
      <3>1. /\ KeptSteps[n][i].time <= KeptSteps[n][j].time
            /\ strict => KeptSteps[n][i].time < KeptSteps[n][j].time
        BY <1>4, <2>1, KeptInOrder
      <3> QED BY <1>3, <3>1
    <2>2. ASSUME NEW m \in 1 .. FileCount, NEW n \in 1 .. FileCount, m < n,
                 NEW i \in 1 .. Len(KeptSteps[m]), NEW j \in 1 .. Len(KeptSteps[n])
          PROVE  <<KeptSteps[m][i], KeptSteps[n][j]>> \in R(strict)
      <3>1. KeptSteps[m][i].time < KeptSteps[n][j].time
        BY <2>2, KeptInOrder
      <3>2. KeptSteps[m][i].time <= KeptSteps[n][j].time
        BY <1>3, <3>1
      <3> QED BY <1>3, <3>1, <3>2
    <2> HIDE DEF R
    <2> QED BY <2>1, <2>2 DEF ListsInOrder
  <1> HIDE DEF F
  <1>5. ASSUME NEW strict \in BOOLEAN, strict => ~Writing
        PROVE  /\ F \in Seq(TimeStep) /\ Len(F) \in Nat /\ DOMAIN F = 1 .. Len(F)
               /\ \A k, l \in 1 .. Len(F) : k < l => <<F[k], F[l]>> \in R(strict)
    <2>1. ListsInOrder(KeptSteps, FileCount, R(strict))
      BY <1>4, <1>5
    <2> HIDE DEF R
    <2> QED BY <1>1, <2>1, FlattenedInOrder DEF F
  <1>6. /\ F \in Seq(TimeStep) /\ Len(F) \in Nat /\ DOMAIN F = 1 .. Len(F)
        /\ \A k, l \in 1 .. Len(F) : k < l => F[k].time <= F[l].time
    BY <1>5
  <1>7. ~Writing => \A k, l \in 1 .. Len(F) : k < l => F[k].time < F[l].time
    BY <1>5
  <1>8. \A k \in 1 .. Len(F) : F[k].time \in Nat
    <2>1. \A k \in 1 .. Len(F) : F[k] \in TimeStep
      BY <1>6, ElementOfSeq
    <2> QED BY <2>1 DEF TimeStep
  <1> QED BY <1>2, <1>6, <1>7, <1>8

-----------------------------------------------------------------------------
(* Internal indexes.                                                       *)

(* Offset counts what is kept of the files before.                         *)
LEMMA OffsetCounts ==
    ASSUME ChainOK, NEW off, Offsets(off, KeptSteps, FileCount)
    PROVE  /\ \A n \in 1 .. FileCount + 1 : Offset(n) = off[n - 1] /\ off[n - 1] \in Nat
           /\ Length = off[FileCount]
           /\ \A n \in 1 .. FileCount : off[n] = off[n - 1] + index[n].length
  <1> DEFINE Solves(e) == e = [m \in 0 .. Len(index) |->
                                  IF m = 0 THEN 0 ELSE e[m - 1] + index[m].length]
             end == CHOOSE e : Solves(e)
             N == FileCount
  <1>1. N \in Nat /\ Len(index) = N /\ KeptSteps \in [1 .. N -> Seq(TimeStep)]
    BY FilesTyped, KeptInOrder
  <1>2. \A n : Offset(n) = end[n - 1]
    BY DEF Offset
  <1>3. \A n \in 1 .. N : off[n] = off[n - 1] + index[n].length
    BY KeptTyped DEF Offsets
  <1>4. off \in [0 .. N -> Nat] /\ off[0] = 0
    BY DEF Offsets
  <1> HIDE DEF N
  <1>5. Solves(off)
    <2>1. \A m \in 0 .. N : off[m] = IF m = 0 THEN 0 ELSE off[m - 1] + index[m].length
      <3> SUFFICES ASSUME NEW m \in 0 .. N
                   PROVE  off[m] = IF m = 0 THEN 0 ELSE off[m - 1] + index[m].length
        OBVIOUS
      <3>1. m # 0 => m \in 1 .. N
        BY <1>1
      <3> QED BY <1>3, <1>4, <3>1
    <2>2. off = [m \in 0 .. N |-> off[m]]
      BY <1>4
    <2> QED BY <1>1, <2>1, <2>2
  <1>6. Solves(end)
    <2> HIDE DEF Solves
    <2> QED BY <1>5
  <1> HIDE DEF end
  <1>7. \A m \in 0 .. N : end[m] = IF m = 0 THEN 0 ELSE end[m - 1] + index[m].length
    BY <1>1, <1>6, Zenon
  <1> HIDE DEF Solves
  <1> DEFINE T == {m \in 0 .. N : end[m] = off[m]}
  <1>8. 0 \in T
    BY <1>1, <1>4, <1>7
  <1>9. ASSUME NEW m \in 0 .. N - 1, m \in T PROVE m + 1 \in T
    <2>1. m + 1 \in 1 .. N /\ m + 1 \in 0 .. N /\ (m + 1) - 1 = m /\ m + 1 # 0
      BY <1>1
    <2>2. end[m + 1] = end[m] + index[m + 1].length
      BY <1>7, <2>1
    <2>3. off[m + 1] = off[m] + index[m + 1].length
      BY <1>3, <2>1
    <2> QED BY <1>9, <2>1, <2>2, <2>3
  <1> HIDE DEF T
  <1>10. 0 .. N \subseteq T
    BY <1>1, <1>8, <1>9, UpToInduction
  <1>11. \A m \in 0 .. N : end[m] = off[m] /\ off[m] \in Nat
    BY <1>4, <1>10 DEF T
  <1>12. \A n \in 1 .. N + 1 : n - 1 \in 0 .. N
    BY <1>1
  <1>13. Length = end[N]
    <2>1. Length = end[(N + 1) - 1] /\ (N + 1) - 1 = N
      BY <1>1, <1>2 DEF Length
    <2> QED BY <2>1
  <1> QED BY <1>1, <1>2, <1>3, <1>11, <1>12, <1>13 DEF N

(* Looking an internal index up finds the step that the timeline has there.*)
LEMMA LookupFinds ==
    ASSUME ChainOK
    PROVE  /\ Length = Len(Timeline)
           /\ \A k \in 1 .. Len(Timeline) : IgetSimTime(k - 1) = Timeline[k].time
  <1> DEFINE N == FileCount
  <1>1. N \in Nat /\ DOMAIN index = 1 .. N /\ KeptSteps \in [1 .. N -> Seq(TimeStep)]
    BY FilesTyped, KeptInOrder
  <1>2. PICK off : Offsets(off, KeptSteps, N)
    BY <1>1, OffsetsExist
  <1>3. Laid(Timeline, off, KeptSteps, N)
    <2>1. Timeline = FlattenSeq(KeptSteps)
      BY DEF Timeline, KeptSteps
    <2> QED BY <1>1, <1>2, <2>1, Flattened
  <1>4. /\ \A n \in 1 .. N + 1 : Offset(n) = off[n - 1] /\ off[n - 1] \in Nat
        /\ Length = off[N]
        /\ \A n \in 1 .. N : off[n] = off[n - 1] + index[n].length
    BY <1>2, OffsetCounts
  <1>5. Length = Len(Timeline)
    BY <1>3, <1>4 DEF Laid
  <1>6. \A n \in 1 .. N : /\ Offset(n) = off[n - 1] /\ off[n - 1] \in Nat /\ off[n] \in Nat
                          /\ index[n].length \in Nat /\ Len(KeptSteps[n]) = index[n].length
    <2> SUFFICES ASSUME NEW n \in 1 .. N
                 PROVE  /\ Offset(n) = off[n - 1] /\ off[n - 1] \in Nat /\ off[n] \in Nat
                        /\ index[n].length \in Nat /\ Len(KeptSteps[n]) = index[n].length
      OBVIOUS
    <2>1. n \in 1 .. N + 1 /\ n + 1 \in 1 .. N + 1 /\ (n + 1) - 1 = n
      BY <1>1
    <2>2. Len(KeptSteps[n]) = index[n].length /\ Len(KeptSteps[n]) \in Nat
      BY <1>1, KeptTyped, LenProperties
    <2> QED BY <1>4, <2>1, <2>2
  <1>7. ASSUME NEW k \in 1 .. Len(Timeline) PROVE IgetSimTime(k - 1) = Timeline[k].time
    <2> DEFINE Holds(m) == Offset(m) <= k - 1 /\ k - 1 < Offset(m) + index[m].length
               n == CHOOSE m \in DOMAIN index : Holds(m)
    <2>1. Placed(off, KeptSteps, N) /\ k \in 1 .. off[N]
      BY <1>1, <1>2, <1>4, <1>5, PlaceInList
    <2>2. PICK m \in 1 .. N : \E i \in 1 .. Len(KeptSteps[m]) : k = off[m - 1] + i
      BY <2>1 DEF Placed
    <2>3. PICK i \in 1 .. Len(KeptSteps[m]) : k = off[m - 1] + i
      BY <2>2
    <2>4. Holds(m)
      <3>1. i \in Nat /\ i >= 1 /\ i <= index[m].length
        BY <1>6
      <3>2. Offset(m) = off[m - 1] /\ off[m - 1] \in Nat /\ index[m].length \in Nat
        BY <1>6
      <3> QED BY <2>3, <3>1, <3>2
    <2>5. n \in 1 .. N /\ Holds(n)
      <3> HIDE DEF Holds
      <3> QED BY <1>1, <2>4
    <2> HIDE DEF n
    <2> DEFINE j == k - off[n - 1]
    <2>6. j \in 1 .. Len(KeptSteps[n]) /\ k = off[n - 1] + j /\ (k - 1) - Offset(n) + 1 = j
      <3>1. k \in Nat
        BY <1>4, <1>5
      <3>2. Offset(n) = off[n - 1] /\ off[n - 1] \in Nat /\ index[n].length \in Nat
            /\ Len(KeptSteps[n]) = index[n].length
        BY <1>6, <2>5
      <3> QED BY <2>5, <3>1, <3>2
    <2> HIDE DEF j
    <2>7. Timeline[k] = KeptSteps[n][j]
      BY <1>3, <2>5, <2>6 DEF Laid
    <2>8. KeptSteps[n][j] = data_files[n].index[j]
      <3>1. j \in 1 .. index[n].length
        BY <1>6, <2>5, <2>6
      <3> QED BY <2>5, <3>1, KeptTyped
    <2>9. IgetSimTime(k - 1) = data_files[n].index[(k - 1) - Offset(n) + 1].time
      BY DEF IgetSimTime, SimTime, n
    <2> QED BY <2>6, <2>7, <2>8, <2>9
  <1> QED BY <1>5, <1>7

(* The timeline ends when the last file does.                              *)
LEMMA TimelineEnds ==
    ASSUME ChainOK, data_files # <<>>, HasData
    PROVE  /\ Len(Timeline) > 0
           /\ SimEnd(Last(data_files)) = Timeline[Len(Timeline)].time
  <1> DEFINE N == FileCount
             steps == data_files[N].index
             L == Len(steps)
  <1>1. N \in Nat /\ N > 0 /\ N \in 1 .. N /\ KeptSteps \in [1 .. N -> Seq(TimeStep)]
    BY FilesTyped, KeptInOrder
  <1>2. Last(data_files) = data_files[N]
    BY DEF Last, FileCount
  <1>3. L \in Nat /\ L > 0 /\ SimEnd(data_files[N]) = steps[L].time
    <2>1. steps # <<>>
      BY <1>1, FilesTyped DEF HasData
    <2> QED BY <1>1, <2>1, FilesTyped
  <1>4. index[N].length = L /\ Len(KeptSteps[N]) = L /\ KeptSteps[N][L] = steps[L]
    <2>1. index[N].length = L /\ Len(KeptSteps[N]) = L
      BY <1>1, KeptTyped
    <2>2. L \in 1 .. index[N].length
      BY <1>3, <2>1
    <2> QED BY <1>1, <2>1, <2>2, KeptTyped
  <1>5. PICK off : Offsets(off, KeptSteps, N)
    BY <1>1, OffsetsExist
  <1>6. Laid(Timeline, off, KeptSteps, N)
    <2>1. Timeline = FlattenSeq(KeptSteps)
      BY DEF Timeline, KeptSteps
    <2> QED BY <1>1, <1>5, <2>1, Flattened
  <1> HIDE DEF L, steps
  <1>7. off[N] = off[N - 1] + L /\ off[N - 1] \in Nat
    <2>1. N - 1 \in 0 .. N
      BY <1>1
    <2> QED BY <1>1, <1>4, <1>5, <2>1 DEF Offsets
  <1>8. Len(Timeline) = off[N - 1] + L /\ Timeline[off[N - 1] + L] = KeptSteps[N][L]
    <2>1. L \in 1 .. Len(KeptSteps[N])
      BY <1>3, <1>4
    <2> QED BY <1>1, <1>6, <1>7, <2>1 DEF Laid
  <1>9. Len(Timeline) > 0
    BY <1>3, <1>7, <1>8
  <1> QED BY <1>2, <1>3, <1>4, <1>8, <1>9

-----------------------------------------------------------------------------
(* The search: the time is not after the step at the high end, and it is   *)
(* after the step at the low end, once the low end has moved.              *)
Calls == [op : {"none", "search", "found", "report", "reported"}, time : Nat, low : Int, high : Int]

Narrowing ==
    call.op = "search" =>
        /\ 0 <= call.low /\ call.low <= call.high /\ call.high < Len(Timeline)
        /\ call.time <= Timeline[call.high + 1].time
        /\ call.low # 0 => Timeline[call.low + 1].time < call.time

CallOK ==
    /\ call \in Calls
    /\ data_files = <<>> => call = NoCall
    /\ Narrowing
    /\ SearchFindsFirst

IInv == ChainOK /\ CallOK

LEMMA NoCallOK ==
    ASSUME call = NoCall
    PROVE  CallOK
  <1>1. call \in Calls /\ call.op = "none"
    BY DEF NoCall, Calls
  <1> QED BY <1>1 DEF CallOK, Narrowing, SearchFindsFirst

(* A new chain is made only when no call is in progress.                   *)
LEMMA ChainStep ==
    ASSUME NEW files, FilesOK(files), BuildIndex(files), call = NoCall, UNCHANGED call
    PROVE  IInv'
  <1>1. ChainOK'
    BY ChainBuilt
  <1>2. CallOK'
    <2>1. call' = NoCall'
      BY DEF NoCall
    <2>2. (call \in Calls /\ call.op = "none")'
      BY <2>1 DEF NoCall, Calls
    <2> QED BY <2>1, <2>2 DEF CallOK, Narrowing, SearchFindsFirst
  <1> QED BY <1>1, <1>2 DEF IInv

LEMMA OneFileOK ==
    ASSUME NEW f \in SummaryFile, f.age = 0, f.first_step = 0 \/ f.index # <<>>
    PROVE  FilesOK(<<f>>)
  <1> DEFINE files == <<f>>
  <1>1. files \in Seq(SummaryFile) /\ Len(files) = 1 /\ DOMAIN files = 1 .. 1 /\ files[1] = f
    OBVIOUS
  <1> HIDE DEF files
  <1>2. \A n \in DOMAIN files : files[n] = f
    BY <1>1
  <1>3. \A m, n \in DOMAIN files : ~(files[m].age > files[n].age)
    BY <1>2
  <1> QED BY <1>1, <1>2, <1>3 DEF FilesOK, files

LEMMA AllocWriterStep ==
    ASSUME IInv, AllocWriter
    PROVE  IInv'
  <1> DEFINE f == [data |-> <<>>, index |-> <<>>, kws |-> <<>>, first_step |-> 0, age |-> 0]
  <1>1. <<>> \in Seq(TimeStep) /\ <<>> \in Seq(Nat) /\ InTimeOrder(<<>>)
    <2>1. DOMAIN <<>> = {}
      OBVIOUS
    <2> QED BY <2>1, EmptySeq DEF InTimeOrder
  <1>2. FileOK(f)
    BY <1>1 DEF FileOK
  <1>3. f \in SummaryFile
    BY <1>1, <1>2 DEF SummaryFile
  <1>4. f.age = 0 /\ f.first_step = 0
    OBVIOUS
  <1> HIDE DEF f
  <1>5. FilesOK(<<f>>)
    BY <1>3, <1>4, OneFileOK
  <1>6. BuildIndex(<<f>>) /\ UNCHANGED call /\ call = NoCall
    BY DEF AllocWriter, IInv, CallOK, f
  <1> QED BY <1>5, <1>6, ChainStep

LEMMA FreadStep ==
    ASSUME IInv, NEW f \in LoadedFiles, Fread(f)
    PROVE  IInv'
  <1>1. f \in SummaryFile /\ f.index # <<>>
    BY LoadedFile DEF Fread
  <1>2. f.age = 0
    <2>1. \E d, i, k, s : f = [data |-> d, index |-> i, kws |-> k, first_step |-> s, age |-> 0]
      BY SMT DEF LoadedFiles
    <2> QED BY <2>1
  <1>3. FilesOK(<<f>>)
    BY <1>1, <1>2, OneFileOK
  <1>4. BuildIndex(<<f>>) /\ UNCHANGED call /\ call = NoCall
    BY DEF Fread, IInv, CallOK
  <1> QED BY <1>3, <1>4, ChainStep

LEMMA AddCaseStep ==
    ASSUME IInv, NEW f \in LoadedFiles, AddCase(f)
    PROVE  IInv'
  <1> DEFINE N == Len(data_files)
             g == [f EXCEPT !.age = N]
             files == Append(data_files, g)
  <1>1. f \in SummaryFile /\ f.first_step # 0
    BY LoadedFile
  <1>2. /\ call = NoCall /\ data_files # <<>> /\ ~Writing /\ f.index # <<>> /\ UNCHANGED call
        /\ \A n \in DOMAIN data_files : DataStart(f) <= DataStart(data_files[n])
        /\ BuildIndex(files)
    BY DEF AddCase
  <1>3. data_files \in Seq(SummaryFile) /\ N \in Nat /\ DOMAIN data_files = 1 .. N /\ FilesOK(data_files)
    BY LenProperties DEF IInv, ChainOK, FilesOK
  <1>4. /\ g.age = N /\ g.first_step # 0 /\ g.index = f.index /\ g.index # <<>> /\ g \in SummaryFile
        /\ DataStart(g) = DataStart(f)
    <2>1. g.age = N /\ g.first_step = f.first_step /\ g.index = f.index /\ g.data = f.data
      BY <1>1 DEF SummaryFile
    <2>2. FileOK(g)
      BY <1>1, <2>1 DEF SummaryFile, FileOK
    <2>3. g \in SummaryFile
      BY <1>1, <1>3, <2>2 DEF SummaryFile
    <2> QED BY <1>1, <1>2, <2>1, <2>3 DEF DataStart
  <1> HIDE DEF g
  <1>5. /\ files \in Seq(SummaryFile) /\ Len(files) = N + 1 /\ DOMAIN files = 1 .. N + 1
        /\ \A n \in 1 .. N : files[n] = data_files[n]
        /\ files[N + 1] = g
    BY <1>3, <1>4, AppendProperties, LenProperties
  <1> HIDE DEF files
  <1>6. \A n \in 1 .. N : data_files[n].first_step # 0 /\ data_files[n].index # <<>>
    <2>1. Head(data_files) = data_files[1]
      BY <1>2, <1>3
    <2>2. data_files[1].first_step # 0
      BY <1>2, <2>1 DEF Writing
    <2> QED BY <1>3, <2>2 DEF FilesOK
  <1> HIDE DEF N
  <1>7. \A n \in DOMAIN files : files[n].first_step # 0 /\ files[n].index # <<>>
    BY <1>3, <1>4, <1>5, <1>6
  <1>8. \A n \in 1 .. N : data_files[n].age < N /\ data_files[n].age \in Nat
    <2>1. \A n \in 1 .. N : data_files[n] \in SummaryFile
      BY <1>3, ElementOfSeq DEF N
    <2> QED BY <1>3, <2>1 DEF FilesOK, N, SummaryFile
  <1>9. \A n \in DOMAIN files : files[n].age < N + 1
    BY <1>3, <1>4, <1>5, <1>8
  <1>10. ASSUME NEW m \in DOMAIN files, NEW n \in DOMAIN files, files[m].age > files[n].age
         PROVE  DataStart(files[m]) <= DataStart(files[n])
    <2>1. n \in 1 .. N /\ files[n] = data_files[n]
      <3>1. n # N + 1
        BY <1>3, <1>4, <1>5, <1>8, <1>10
      <3> QED BY <1>3, <1>5, <3>1
    <2>2. CASE m = N + 1
      BY <1>2, <1>3, <1>4, <1>5, <2>1, <2>2
    <2>3. CASE m # N + 1
      <3>1. m \in 1 .. N /\ files[m] = data_files[m]
        BY <1>3, <1>5, <2>3
      <3> QED BY <1>3, <1>10, <2>1, <3>1 DEF FilesOK
    <2> QED BY <2>2, <2>3
  <1>11. FilesOK(files)
    BY <1>3, <1>5, <1>7, <1>9, <1>10 DEF FilesOK
  <1> QED BY <1>2, <1>11, ChainStep

LEMMA AddNewTstepStep ==
    ASSUME IInv, NEW report \in Reports, NEW t \in Times, AddNewTstep(report, t)
    PROVE  IInv'
  <1> DEFINE f == Last(data_files)
             step == Step(t, report)
             added == Append(f.data, step)
  <1>1. /\ call = NoCall /\ Writing /\ UNCHANGED call
    BY DEF AddNewTstep
  <1>2. PICK g \in Added(f, step) : BuildIndex(<<g>>)
    BY DEF AddNewTstep
  <1>3. f \in SummaryFile /\ f.first_step = 0 /\ f.age = 0
    <2>1. data_files \in Seq(SummaryFile) /\ data_files # <<>> /\ Head(data_files).first_step = 0
      BY <1>1 DEF IInv, ChainOK, FilesOK, Writing
    <2>2. Len(data_files) \in Nat /\ Len(data_files) > 0 /\ DOMAIN data_files = 1 .. Len(data_files)
          /\ Head(data_files) = data_files[1]
      BY <2>1, LenProperties, EmptySeq
    <2>3. Len(data_files) = 1
      BY <2>1, <2>2 DEF IInv, ChainOK, FilesOK
    <2>4. f = data_files[1] /\ f \in SummaryFile
      BY <2>1, <2>2, <2>3 DEF Last
    <2>5. f.age < 1 /\ f.age \in Nat
      BY <2>2, <2>3, <2>4 DEF IInv, ChainOK, FilesOK, SummaryFile
    <2> QED BY <2>1, <2>2, <2>4, <2>5
  <1>4. step \in TimeStep /\ step.time = t /\ step.report = report
    <2>1. t \in Nat /\ report \in Nat
      BY DEF Times, Reports
    <2> QED BY <2>1 DEF Step, TimeStep
  <1> HIDE DEF f, step
  <1>5. /\ f.data \in Seq(TimeStep) /\ InTimeOrder(f.data)
        /\ Len(f.data) \in Nat /\ DOMAIN f.data = 1 .. Len(f.data)
    BY <1>3, LenProperties DEF SummaryFile, FileOK
  <1>6. /\ added \in Seq(TimeStep) /\ Len(added) = Len(f.data) + 1 /\ DOMAIN added = 1 .. Len(f.data) + 1
        /\ \A n \in 1 .. Len(f.data) : added[n] = f.data[n]
        /\ added[Len(f.data) + 1] = step
    BY <1>4, <1>5, AppendProperties, LenProperties
  <1> HIDE DEF added
  <1>7. \E s \in Seq(TimeStep) : InTimeOrder(s) /\ g = [f EXCEPT !.data = s, !.index = s]
    <2>1. CASE /\ f.data # <<>>
               /\ Last(f.data).report = step.report
               /\ Last(f.data).time < step.time
      <3>1. g = [f EXCEPT !.data = Append(@, step), !.index = Append(@, step)]
        BY <1>2, <2>1 DEF Added
      <3>2. f.index = f.data
        BY <1>3 DEF SummaryFile, FileOK
      <3>3. g = [f EXCEPT !.data = added, !.index = added]
        BY <1>3, <3>1, <3>2 DEF SummaryFile, added
      <3>4. ASSUME NEW m \in 1 .. Len(f.data) + 1, NEW n \in 1 .. Len(f.data) + 1, m < n
            PROVE  added[m].time <= added[n].time
        <4>1. m \in 1 .. Len(f.data) /\ Len(f.data) \in 1 .. Len(f.data) /\ added[m] = f.data[m]
          BY <1>5, <1>6, <3>4
        <4>2. f.data[m].time \in Nat /\ f.data[Len(f.data)].time \in Nat /\ step.time \in Nat
          <5>1. f.data[m] \in TimeStep /\ f.data[Len(f.data)] \in TimeStep
            BY <1>5, <4>1, ElementOfSeq
          <5> QED BY <1>4, <5>1 DEF TimeStep
        <4>3. CASE n = Len(f.data) + 1
          <5>1. added[n] = step /\ f.data[Len(f.data)].time < step.time
            BY <1>6, <2>1, <4>3 DEF Last
          <5>2. f.data[m].time <= f.data[Len(f.data)].time
            <6>1. m = Len(f.data) \/ m < Len(f.data)
              BY <1>5, <4>1
            <6> QED BY <1>5, <4>1, <4>2, <6>1 DEF InTimeOrder
          <5> QED BY <4>1, <4>2, <5>1, <5>2
        <4>4. CASE n # Len(f.data) + 1
          <5>1. n \in 1 .. Len(f.data) /\ added[n] = f.data[n]
            BY <1>5, <1>6, <4>4
          <5> QED BY <1>5, <3>4, <4>1, <5>1 DEF InTimeOrder
        <4> QED BY <4>3, <4>4
      <3>5. InTimeOrder(added)
        BY <1>6, <3>4 DEF InTimeOrder
      <3> QED BY <1>6, <3>3, <3>5
    <2>2. CASE ~(/\ f.data # <<>>
                 /\ Last(f.data).report = step.report
                 /\ Last(f.data).time < step.time)
      <3>1. PICK s \in SortedBy(added) : g = [f EXCEPT !.data = s, !.index = s]
        BY <1>2, <2>2 DEF Added, added
      <3> QED BY <1>6, <3>1, SortedInOrder
    <2> QED BY <2>1, <2>2
  <1>8. g \in SummaryFile /\ g.age = 0 /\ g.first_step = 0
    <2>1. PICK s \in Seq(TimeStep) : InTimeOrder(s) /\ g = [f EXCEPT !.data = s, !.index = s]
      BY <1>7
    <2>2. /\ g.data = s /\ g.index = s /\ g.first_step = 0 /\ g.age = 0
          /\ g \in [data : Seq(TimeStep), index : Seq(TimeStep), kws : Seq(Nat),
                    first_step : Nat, age : Nat]
      BY <1>3, <2>1 DEF SummaryFile
    <2>3. FileOK(g)
      BY <2>1, <2>2 DEF FileOK
    <2> QED BY <2>2, <2>3 DEF SummaryFile
  <1>9. FilesOK(<<g>>)
    BY <1>8, OneFileOK
  <1> QED BY <1>1, <1>2, <1>9, ChainStep

LEMMA LookupTimeTyped ==
    ASSUME ChainOK, NEW t
    PROVE  LookupTime(t) \in DOMAIN index \cup {NotFound, Throws, Undefined}
  <1> DEFINE Stops(n) == /\ t >= index[n].time1
                         /\ \/ t <= index[n].time2
                            \/ n = Len(index)
                            \/ t < index[n + 1].time1
             stops == {n \in DOMAIN index : Stops(n)}
             first == CHOOSE m \in stops : \A k \in stops : m <= k
  <1>1. LookupTime(t) = IF t < index[1].time1 THEN Throws
                        ELSE IF stops = {} THEN Undefined
                        ELSE IF t <= index[first].time2 THEN first
                        ELSE IF first = Len(index) THEN Throws ELSE NotFound
    BY DEF LookupTime
  <1> HIDE DEF Stops
  <1>2. stops # {} => first \in DOMAIN index
    <2>1. stops \in SUBSET Nat
      BY FilesTyped
    <2> HIDE DEF stops
    <2>2. stops # {} => \E m \in stops : \A k \in stops : m <= k
      BY <2>1, LeastElement
    <2>3. stops # {} => first \in stops
      BY <2>2
    <2> HIDE DEF first
    <2> QED BY <2>3 DEF stops
  <1> HIDE DEF stops, first
  <1> QED BY <1>1, <1>2

(* Nothing but the call changes.                                           *)
LEMMA CallStep ==
    ASSUME IInv, data_files # <<>>, UNCHANGED <<data_files, index>>, call' \in Calls,
           call'.op = "search" =>
               /\ 0 <= call'.low /\ call'.low <= call'.high /\ call'.high < Len(Timeline)
               /\ call'.time <= Timeline[call'.high + 1].time
               /\ call'.low # 0 => Timeline[call'.low + 1].time < call'.time,
           (call'.op = "found" /\ call'.low # Throws) =>
               /\ call'.low + 1 \in DOMAIN Timeline
               /\ Timeline[call'.low + 1].time >= call'.time
               /\ \A n \in 1 .. call'.low : Timeline[n].time < call'.time
    PROVE  IInv'
  <1>1. data_files' = data_files /\ index' = index
    OBVIOUS
  <1>2. Timeline' = Timeline
    BY <1>1 DEF Timeline
  <1>3. ChainOK'
    BY <1>1 DEF IInv, ChainOK
  <1>4. CallOK'
    BY <1>1, <1>2 DEF CallOK, Narrowing, SearchFindsFirst
  <1> QED BY <1>3, <1>4 DEF IInv

LEMMA AskedTyped ==
    ASSUME NEW op \in {"found", "reported"}, NEW t \in Nat, NEW answer \in Int
    PROVE  Answer(op, t, answer) \in Calls /\ Answer(op, t, answer).op = op
           /\ Answer(op, t, answer).low = answer /\ Answer(op, t, answer).time = t
  BY DEF Answer, Calls

LEMMA CallSearchStep ==
    ASSUME IInv, NEW t \in Times, CallSearch(t)
    PROVE  IInv'
  <1>0. ChainOK /\ data_files # <<>> /\ UNCHANGED <<data_files, index>> /\ t \in Nat /\ Throws \in Int
    BY DEF IInv, CallSearch, Ask, Times, Throws
  <1>1. CASE HasData /\ CheckSimTime(t)
    <2>1. call' = [op |-> "search", time |-> t, low |-> 0, high |-> Length - 1]
      BY <1>1 DEF CallSearch, Ask
    <2>2. Length = Len(Timeline) /\ Len(Timeline) \in Nat /\ Len(Timeline) > 0
      BY <1>0, <1>1, LookupFinds, TimelineInOrder, TimelineEnds
    <2>3. t <= Timeline[Len(Timeline)].time
      BY <1>0, <1>1, TimelineEnds DEF CheckSimTime
    <2>4. Length - 1 \in Int /\ 0 <= Length - 1 /\ Length - 1 < Len(Timeline) /\ (Length - 1) + 1 = Len(Timeline)
      BY <2>2
    <2>5. /\ call' \in Calls /\ call'.op = "search" /\ call'.low = 0 /\ call'.high = Length - 1
          /\ call'.time = t
      BY <1>0, <2>1, <2>4 DEF Calls
    <2> QED BY <1>0, <2>3, <2>4, <2>5, CallStep
  <1>2. CASE ~(HasData /\ CheckSimTime(t))
    <2>1. call' = Answer("found", t, Throws)
      BY <1>2 DEF CallSearch, Ask
    <2>2. call' \in Calls /\ call'.op = "found" /\ call'.low = Throws
      BY <1>0, <2>1, AskedTyped
    <2> QED BY <1>0, <2>2, CallStep
  <1> QED BY <1>1, <1>2

LEMMA CallReportStepStep ==
    ASSUME IInv, NEW t \in Times, CallReportStep(t)
    PROVE  IInv'
  <1>0. ChainOK /\ data_files # <<>> /\ UNCHANGED <<data_files, index>> /\ t \in Nat
        /\ Throws \in Int /\ NotFound \in Int /\ Undefined \in Int
    BY DEF IInv, CallReportStep, Ask, Times, Throws, NotFound, Undefined
  <1> DEFINE n == LookupTime(t)
  <1>1. n \in Int /\ (~(n < 0) => n \in 1 .. FileCount)
    <2>1. n \in DOMAIN index \cup {NotFound, Throws, Undefined}
      BY <1>0, LookupTimeTyped
    <2> HIDE DEF n
    <2>2. n \in 1 .. FileCount \/ n \in {-1, -2, -3}
      BY <1>0, <2>1, FilesTyped DEF NotFound, Throws, Undefined
    <2> QED BY <1>0, <2>2, FilesTyped
  <1>2. call' = IF ~HasData THEN Answer("reported", t, Throws)
                ELSE IF ~CheckSimTime(t) THEN Answer("reported", t, NotFound)
                ELSE IF n < 0 THEN Answer("reported", t, n)
                ELSE [op |-> "report", time |-> t, low |-> n, high |-> FirstReport(data_files[n])]
    BY DEF CallReportStep, Ask
  <1> HIDE DEF n
  <1>3. call' \in Calls /\ call'.op \in {"report", "reported"}
    <2>1. CASE call' = Answer("reported", t, Throws)
      BY <1>0, <2>1, AskedTyped
    <2>2. CASE call' = Answer("reported", t, NotFound)
      BY <1>0, <2>2, AskedTyped
    <2>3. CASE call' = Answer("reported", t, n)
      BY <1>0, <1>1, <2>3, AskedTyped
    <2>4. CASE /\ HasData /\ ~(n < 0)
               /\ call' = [op |-> "report", time |-> t, low |-> n, high |-> FirstReport(data_files[n])]
      <3> DEFINE steps == data_files[n].index
      <3>1. n \in 1 .. FileCount
        BY <1>1, <2>4
      <3>2. steps # <<>> /\ steps \in Seq(TimeStep) /\ Len(steps) > 0 /\ Len(steps) \in Nat
        BY <1>0, <2>4, <3>1, FilesTyped DEF HasData
      <3>3. Head(steps) = steps[1] /\ 1 \in 1 .. Len(steps)
        BY <3>2
      <3>4. FirstReport(data_files[n]) \in Nat
        BY <1>0, <3>1, <3>3, FilesTyped DEF FirstReport
      <3> QED BY <1>0, <1>1, <2>4, <3>4 DEF Calls
    <2> QED BY <1>2, <2>1, <2>2, <2>3, <2>4
  <1> QED BY <1>0, <1>3, CallStep

LEMMA SearchStep ==
    ASSUME IInv, Search
    PROVE  IInv'
  <1> DEFINE low == call.low
             high == call.high
             t == call.time
             center == Halve(low, high)
             T(k) == Timeline[k].time
             N == Len(Timeline)
  <1>0. ChainOK /\ UNCHANGED <<data_files, index>> /\ call.op = "search" /\ call \in Calls
    BY DEF IInv, CallOK, Search
  <1>1. data_files # <<>>
    BY <1>0 DEF IInv, CallOK, NoCall
  <1>2. /\ low \in Nat /\ high \in Nat /\ t \in Nat /\ low <= high /\ high < N /\ N \in Nat
        /\ t <= T(high + 1)
        /\ low # 0 => T(low + 1) < t
    BY <1>0, TimelineInOrder DEF IInv, CallOK, Narrowing, Calls
  <1>3. /\ \A k \in 1 .. N : T(k) \in Nat
        /\ \A k, l \in 1 .. N : k < l => T(k) <= T(l)
        /\ \A i \in 0 .. N - 1 : IgetSimTime(i) = T(i + 1)
    <2>1. ASSUME NEW i \in 0 .. N - 1 PROVE IgetSimTime(i) = T(i + 1)
      <3>1. i + 1 \in 1 .. Len(Timeline) /\ (i + 1) - 1 = i
        BY <1>2
      <3>2. IgetSimTime((i + 1) - 1) = Timeline[i + 1].time
        BY <1>0, <3>1, LookupFinds
      <3> QED BY <3>1, <3>2
    <2> QED BY <1>0, <2>1, TimelineInOrder
  <1>4. CASE low + 1 < high
    <2>1. center \in Nat /\ low < center /\ center < high /\ center \in 0 .. N - 1
      BY <1>2, <1>4 DEF Halve
    <2>2. IgetSimTime(center) = T(center + 1)
      BY <1>3, <2>1
    <2>3. call' = SearchHalf(t, center)
      BY <1>4 DEF Search
    <2> HIDE DEF center
    <2>4. CASE t > IgetSimTime(center)
      <3>1. call' = [call EXCEPT !.low = center]
        BY <2>3, <2>4 DEF SearchHalf
      <3>2. call' \in Calls /\ call'.op = "search" /\ call'.low = center /\ call'.high = high /\ call'.time = t
        BY <1>0, <2>1, <3>1 DEF Calls
      <3>3. T(center + 1) < t
        <4>1. center + 1 \in 1 .. N
          BY <1>2, <2>1
        <4> QED BY <1>2, <1>3, <2>2, <2>4, <4>1
      <3> QED BY <1>0, <1>1, <1>2, <2>1, <3>2, <3>3, CallStep
    <2>5. CASE ~(t > IgetSimTime(center))
      <3>1. call' = [call EXCEPT !.high = center]
        BY <2>3, <2>5 DEF SearchHalf
      <3>2. call' \in Calls /\ call'.op = "search" /\ call'.low = low /\ call'.high = center /\ call'.time = t
        BY <1>0, <2>1, <3>1 DEF Calls
      <3>3. t <= T(center + 1)
        <4>1. center + 1 \in 1 .. N
          BY <1>2, <2>1
        <4> QED BY <1>2, <1>3, <2>2, <2>5, <4>1
      <3>4. center < N /\ low <= center
        BY <1>2, <2>1
      <3> QED BY <1>0, <1>1, <1>2, <2>1, <3>2, <3>3, <3>4, CallStep
    <2> QED BY <2>4, <2>5
  <1>5. CASE ~(low + 1 < high)
    <2> DEFINE answer == IF t <= IgetSimTime(low) THEN low ELSE high
    <2>1. call' = Answer("found", t, answer)
      BY <1>5 DEF Search
    <2>2. high = low \/ high = low + 1
      BY <1>2, <1>5
    <2>3. /\ low \in 0 .. N - 1 /\ low + 1 \in 1 .. N /\ high + 1 \in 1 .. N
          /\ IgetSimTime(low) = T(low + 1) /\ T(low + 1) \in Nat /\ T(high + 1) \in Nat
      <3>1. low \in 0 .. N - 1 /\ low + 1 \in 1 .. N /\ high + 1 \in 1 .. N
        BY <1>2
      <3> QED BY <1>3, <3>1
    <2>4. /\ answer \in Nat /\ answer + 1 \in 1 .. N
          /\ T(answer + 1) >= t
          /\ answer = 0 \/ (\E k \in 1 .. N : k = answer /\ T(k) < t)
      <3>1. CASE t <= IgetSimTime(low)
        <4>1. answer = low
          BY <3>1
        <4>2. low = 0
          BY <1>2, <2>3, <3>1
        <4> QED BY <1>2, <2>3, <3>1, <4>1, <4>2
      <3>2. CASE ~(t <= IgetSimTime(low))
        <4>1. answer = high
          BY <3>2
        <4>2. T(low + 1) < t
          BY <1>2, <2>3, <3>2
        <4>3. high = low + 1
          BY <1>2, <2>2, <2>3, <4>2
        <4>4. high \in 1 .. N /\ T(high) < t
          BY <2>3, <4>2, <4>3
        <4> QED BY <1>2, <2>3, <4>1, <4>4
      <3> QED BY <3>1, <3>2
    <2> HIDE DEF answer
    <2>5. ASSUME NEW n \in 1 .. answer PROVE T(n) < t
      <3>1. PICK k \in 1 .. N : k = answer /\ T(k) < t
        BY <2>4
      <3>2. n \in 1 .. N /\ (n = k \/ n < k)
        BY <2>4, <3>1
      <3>3. T(n) \in Nat /\ T(k) \in Nat
        BY <1>3, <3>2
      <3>4. T(n) <= T(k)
        <4>1. CASE n = k
          BY <3>3, <4>1
        <4>2. CASE n < k
          BY <1>3, <3>2, <4>2
        <4> QED BY <3>2, <4>1, <4>2
      <3> QED BY <1>2, <3>1, <3>3, <3>4
    <2>6. call' \in Calls /\ call'.op = "found" /\ call'.low = answer /\ call'.time = t
      BY <1>2, <2>1, <2>4, AskedTyped
    <2>7. answer + 1 \in DOMAIN Timeline
      BY <1>0, <2>4, TimelineInOrder
    <2> QED BY <1>0, <1>1, <2>4, <2>5, <2>6, <2>7, CallStep
  <1> QED BY <1>4, <1>5

LEMMA CompareReportStep ==
    ASSUME IInv, CompareReport
    PROVE  IInv'
  <1>0. /\ UNCHANGED <<data_files, index>> /\ call \in Calls /\ call.op = "report" /\ call.high \in Int
        /\ call.time \in Nat /\ NotFound \in Int
    BY DEF IInv, CallOK, CompareReport, Calls, NotFound
  <1>1. data_files # <<>>
    BY <1>0 DEF IInv, CallOK, NoCall
  <1>2. \/ call' = Answer("reported", call.time, call.high)
        \/ call' = Answer("reported", call.time, NotFound)
        \/ call' = [call EXCEPT !.high = @ + 1]
    BY DEF CompareReport
  <1>3. call' \in Calls /\ call'.op \in {"report", "reported"}
    <2>1. CASE call' = Answer("reported", call.time, call.high)
      BY <1>0, <2>1, AskedTyped
    <2>2. CASE call' = Answer("reported", call.time, NotFound)
      BY <1>0, <2>2, AskedTyped
    <2>3. CASE call' = [call EXCEPT !.high = @ + 1]
      BY <1>0, <2>3 DEF Calls
    <2> QED BY <1>2, <2>1, <2>2, <2>3
  <1> QED BY <1>0, <1>1, <1>3, CallStep

LEMMA ReturnStep ==
    ASSUME IInv, Return
    PROVE  IInv'
  <1>1. /\ UNCHANGED <<data_files, index>> /\ call' = NoCall /\ call.op # "none"
    BY DEF Return
  <1>2. data_files # <<>>
    BY <1>1 DEF IInv, CallOK, NoCall
  <1>3. call' \in Calls /\ call'.op = "none"
    BY <1>1 DEF NoCall, Calls
  <1> QED BY <1>1, <1>2, <1>3, CallStep

LEMMA StutterStep ==
    ASSUME IInv, UNCHANGED vars
    PROVE  IInv'
  <1>1. data_files' = data_files /\ index' = index /\ call' = call
    BY DEF vars
  <1>2. Timeline' = Timeline
    BY <1>1 DEF Timeline
  <1> QED BY <1>1, <1>2 DEF IInv, ChainOK, CallOK, Narrowing, SearchFindsFirst

LEMMA InitOK == Init => IInv
  <1> SUFFICES ASSUME Init PROVE IInv
    OBVIOUS
  <1>1. data_files = <<>> /\ index = <<>> /\ call = NoCall
    BY DEF Init
  <1>2. <<>> \in Seq(SummaryFile) /\ Len(<<>>) = 0 /\ DOMAIN <<>> = {}
    BY EmptySeq
  <1>3. ChainOK
    BY <1>1, <1>2 DEF ChainOK, FilesOK
  <1> QED BY <1>1, <1>3, NoCallOK DEF IInv

LEMMA IInvKept ==
    ASSUME IInv, [Next]_vars
    PROVE  IInv'
  <1>1. CASE AllocWriter
    BY <1>1, AllocWriterStep
  <1>2. ASSUME NEW report \in Reports, NEW t \in Times, AddNewTstep(report, t) PROVE IInv'
    BY <1>2, AddNewTstepStep
  <1>3. ASSUME NEW f \in LoadedFiles, Fread(f) PROVE IInv'
    BY <1>3, FreadStep
  <1>4. ASSUME NEW f \in LoadedFiles, AddCase(f) PROVE IInv'
    BY <1>4, AddCaseStep
  <1>5. ASSUME NEW t \in Times, CallSearch(t) PROVE IInv'
    BY <1>5, CallSearchStep
  <1>6. ASSUME NEW t \in Times, CallReportStep(t) PROVE IInv'
    BY <1>6, CallReportStepStep
  <1>7. CASE Search
    BY <1>7, SearchStep
  <1>8. CASE CompareReport
    BY <1>8, CompareReportStep
  <1>9. CASE MissingReport
    BY <1>9, StutterStep DEF MissingReport
  <1>10. CASE Return
    BY <1>10, ReturnStep
  <1>11. CASE UNCHANGED vars
    BY <1>11, StutterStep
  <1> QED BY <1>1, <1>2, <1>3, <1>4, <1>5, <1>6, <1>7, <1>8, <1>9, <1>10, <1>11 DEF Next

-----------------------------------------------------------------------------
(* What the invariant is for.                                              *)

(* The invariant holds in every state: the files of a chain are in order   *)
(* with their index, and a search keeps the time between its ends.         *)
THEOREM InvariantHolds == Spec => []IInv
  <1>1. IInv /\ [Next]_vars => IInv'
    BY IInvKept
  <1> QED BY InitOK, <1>1, PTL DEF Spec

(* rd_sum_data_get_index_from_sim_time: the binary search returns the      *)
(* first time step that is not before the time, over any number of files   *)
(* and with any number of steps at the same time.                          *)
THEOREM FirstIsFound == Spec => []SearchFindsFirst
  <1>1. IInv => SearchFindsFirst
    BY DEF IInv, CallOK
  <1> QED BY InvariantHolds, <1>1, PTL

(* rd_sum_file_data::add_new_tstep and fread: the index of every file is   *)
(* in the order of time and is what was added, and the joined index goes   *)
(* with the files.                                                         *)
THEOREM DataIsFollowed == Spec => []IndexFollowsData
  <1>1. IInv => IndexFollowsData
    <2> SUFFICES ASSUME ChainOK, NEW n \in DOMAIN data_files
                 PROVE  LET f == data_files[n]
                        IN  /\ InTimeOrder(f.index)
                            /\ f.data # <<>> => f.index = f.data
                            /\ n = Len(index) => index[n].length = Len(f.index)
      BY DEF IInv, IndexFollowsData
    <2>1. FileOK(data_files[n])
      BY NodeLength DEF SummaryFile
    <2>2. n = Len(index) => index[n].length = Len(data_files[n].index)
      BY NodeLength DEF ChainOK
    <2> QED BY <2>1, <2>2 DEF FileOK
  <1> QED BY InvariantHolds, <1>1, PTL

(* What is kept of a file of an older run is before the start of a newer   *)
(* one.                                                                    *)
LEMMA OldGivesWay ==
    ASSUME ChainOK, StartsDiffer
    PROVE  HistoryDropped
  <1> SUFFICES ASSUME NEW m \in 1 .. FileCount, NEW n \in 1 .. FileCount,
                      data_files[m].age > data_files[n].age, NEW k \in 1 .. index[m].length
               PROVE  SimTime(data_files[m], k - 1) < DataStart(data_files[n])
    BY FilesTyped DEF HistoryDropped
  <1> DEFINE start(i) == DataStart(data_files[i])
             time     == data_files[m].index[k].time
  <1>1. FileCount \in Nat /\ m # n
    <2>1. data_files[m].age \in Nat
      BY FilesTyped, NodeLength DEF SummaryFile
    <2> QED BY <2>1, FilesTyped
  <1>2. start(m) <= start(n) /\ start(m) # start(n)
    BY <1>1, FilesTyped DEF ChainOK, FilesOK, StartsDiffer
  <1>3. k \in Nat /\ k \in 1 .. Len(data_files[m].index)
    BY KeptTyped, FilesTyped
  <1>4. SimTime(data_files[m], k - 1) = time
    <2>1. k - 1 + 1 = k
      BY <1>3
    <2> QED BY <2>1 DEF SimTime
  <1>5. m < n
    <2> SUFFICES ASSUME n < m PROVE FALSE
      BY <1>1
    <2>1. start(n + 1) <= start(m) /\ start(n + 1) \in Nat /\ start(m) \in Nat
      BY StartsInOrder
    <2>2. n + 1 \in 2 .. FileCount /\ n + 1 - 1 = n
      BY <1>1
    <2>3. start(n) <= start(n + 1)
      <3>1. InOrder(data_files) /\ Len(data_files) = FileCount
        BY <1>1, <2>2 DEF ChainOK, FileCount
      <3> QED BY <2>2, <3>1 DEF InOrder
    <2>4. start(n) \in Nat
      <3>1. n < FileCount
        BY <1>1
      <3>2. data_files[n].index # <<>>
        BY <1>1, <3>1, FilesTyped
      <3>3. 1 \in 1 .. Len(data_files[n].index) /\ start(n) = data_files[n].index[1].time
        BY <3>2, FilesTyped
      <3> QED BY <3>3, FilesTyped
    <2> HIDE DEF start
    <2> QED BY <1>2, <2>1, <2>3, <2>4
  <1>6. time < start(m + 1) /\ time \in Nat
    BY <1>1, <1>3, <1>5, KeptTyped, FilesTyped
  <1>7. start(m + 1) <= start(n) /\ start(m + 1) \in Nat /\ start(n) \in Nat
    BY <1>5, StartsInOrder
  <1> HIDE DEF start, time
  <1>8. time < start(n)
    BY <1>6, <1>7
  <1> QED BY <1>4, <1>8 DEF start

(* CaseIndex: cases joined by restarts make one timeline that goes forward *)
(* in time, and the history of a run gives way where the run itself        *)
(* begins, whatever the order in which the cases are added.                *)
THEOREM OneTimeline == Spec => []TimelineJoined
  <1>1. IInv => TimelineJoined
    <2> SUFFICES ASSUME ChainOK, ~Writing, StartsDiffer
                 PROVE  /\ \A m, n \in DOMAIN Timeline :
                               m < n => Timeline[m].time < Timeline[n].time
                        /\ HistoryDropped
      BY DEF IInv, TimelineJoined
    <2>1. HistoryDropped
      BY OldGivesWay
    <2>2. \A m, n \in DOMAIN Timeline : m < n => Timeline[m].time < Timeline[n].time
      BY TimelineInOrder
    <2> QED BY <2>1, <2>2
  <1> QED BY InvariantHolds, <1>1, PTL

-----------------------------------------------------------------------------
(* Report steps, when they are regular.                                    *)

LEMMA GreatestElement ==
    ASSUME NEW N \in Nat, NEW P \in SUBSET (1 .. N), P # {}
    PROVE  \E x \in P : \A y \in P : y <= x
  <1> DEFINE T == {k \in Nat : N - k \in P}
  <1>1. T \in SUBSET Nat /\ T # {}
    <2>1. PICK y \in P : TRUE
      OBVIOUS
    <2>2. N - y \in Nat /\ N - (N - y) = y
      BY <2>1
    <2> QED BY <2>1, <2>2
  <1>2. PICK k \in T : \A l \in T : k <= l
    BY <1>1, LeastElement
  <1>3. ASSUME NEW y \in P PROVE y <= N - k
    <2>1. y \in 1 .. N /\ N - y \in Nat /\ N - (N - y) = y
      OBVIOUS
    <2>2. k <= N - y
      BY <1>2, <2>1
    <2> QED BY <1>2, <2>1, <2>2
  <1> QED BY <1>2, <1>3

(* Numbers that go up by one at most, and never down, leave none out.      *)
LEMMA NoneLeftOut ==
    ASSUME NEW L \in Nat, L > 0, NEW f, \A k \in 1 .. L : f[k] \in Nat,
           \A k \in 2 .. L : f[k] - f[k - 1] \in {0, 1}
    PROVE  /\ \A k \in 1 .. L : f[1] <= f[k] /\ f[k] <= f[L]
           /\ \A r \in f[1] .. f[L] : \E k \in 1 .. L : f[k] = r
  <1> DEFINE T(m) == {k \in 0 .. L : m <= k => f[m] <= f[k]}
  <1>1. ASSUME NEW m \in 1 .. L PROVE 0 .. L \subseteq T(m)
    <2>1. 0 \in T(m)
      OBVIOUS
    <2>2. ASSUME NEW k \in 0 .. L - 1, k \in T(m) PROVE k + 1 \in T(m)
      <3>1. k + 1 \in 1 .. L /\ f[k + 1] \in Nat /\ (k + 1) - 1 = k /\ k \in Nat
        OBVIOUS
      <3>2. CASE m <= k
        <4>1. k \in 1 .. L /\ k + 1 \in 2 .. L
          BY <3>1, <3>2
        <4>2. f[k] \in Nat /\ f[m] \in Nat /\ f[m] <= f[k] /\ f[k + 1] - f[k] \in {0, 1}
          BY <2>2, <3>1, <3>2, <4>1
        <4> QED BY <3>1, <4>2
      <3>3. CASE ~(m <= k)
        <4>1. m <= k + 1 => m = k + 1
          BY <3>1, <3>3
        <4>2. f[m] <= f[m]
          OBVIOUS
        <4>3. m <= k + 1 => f[m] <= f[k + 1]
          BY <4>1, <4>2
        <4> QED BY <3>1, <4>3
      <3> QED BY <3>2, <3>3
    <2> HIDE DEF T
    <2> QED BY <2>1, <2>2, UpToInduction
  <1>2. ASSUME NEW k \in 1 .. L PROVE f[1] <= f[k] /\ f[k] <= f[L]
    <2>1. 1 \in 1 .. L /\ L \in 1 .. L /\ k \in 0 .. L /\ L \in 0 .. L /\ 1 <= k /\ k <= L
      OBVIOUS
    <2>2. k \in T(1) /\ L \in T(k)
      BY <1>1, <2>1
    <2> QED BY <2>1, <2>2
  <1>3. ASSUME NEW r \in f[1] .. f[L] PROVE \E k \in 1 .. L : f[k] = r
    <2> DEFINE P == {k \in 1 .. L : r <= f[k]}
    <2>1. L \in P /\ P \in SUBSET Nat
      BY <1>3
    <2>2. PICK k \in P : \A l \in P : k <= l
      BY <2>1, LeastElement
    <2>3. f[k] \in Nat /\ f[1] \in Nat /\ f[L] \in Nat /\ r \in Nat
      BY <1>3
    <2>4. CASE k = 1
      BY <2>2, <2>3, <2>4
    <2>5. CASE k # 1
      <3>1. k \in 2 .. L /\ k - 1 \in 1 .. L /\ ~(k <= k - 1)
        BY <2>2, <2>5
      <3> DEFINE x == f[k]
                 y == f[k - 1]
      <3>2. ~(r <= y) /\ y \in Nat /\ x - y \in {0, 1}
        BY <2>2, <3>1
      <3>3. r <= x /\ x \in Nat /\ r \in Nat /\ k \in 1 .. L
        BY <2>2, <2>3
      <3> HIDE DEF x, y
      <3>4. x = r
        BY <3>2, <3>3
      <3> QED BY <3>3, <3>4 DEF x
    <2> QED BY <2>4, <2>5
  <1> QED BY <1>2, <1>3

ReportOf(n, k) == data_files[n].index[k].report
FirstKept(n)   == ReportOf(n, 1)
LastKept(n)    == ReportOf(n, index[n].length)

(* The last step of a report in a file, if there is one.                   *)
LastStepIs(f, report, n) ==
    /\ n \in 1 .. Len(f.index) /\ RangeEnd(f, report) = n - 1
    /\ f.index[n].report = report
    /\ \A m \in 1 .. Len(f.index) : f.index[m].report = report => m <= n

LEMMA RangeEndFinds ==
    ASSUME NEW f, f.index \in Seq(TimeStep), NEW report
    PROVE  IF \E n \in 1 .. Len(f.index) : f.index[n].report = report
           THEN \E n : LastStepIs(f, report, n)
           ELSE RangeEnd(f, report) = -1
  <1> DEFINE at == {n \in DOMAIN f.index : f.index[n].report = report}
             greatest == CHOOSE n \in at : \A m \in at : m <= n
  <1>1. DOMAIN f.index = 1 .. Len(f.index) /\ Len(f.index) \in Nat
    BY LenProperties
  <1>2. RangeEnd(f, report) = IF at = {} THEN -1 ELSE greatest - 1
    BY DEF RangeEnd
  <1>3. CASE at # {}
    <2>1. at \in SUBSET (1 .. Len(f.index))
      BY <1>1
    <2> HIDE DEF at
    <2>2. \E n \in at : \A m \in at : m <= n
      BY <1>1, <1>3, <2>1, GreatestElement
    <2>3. greatest \in at /\ \A m \in at : m <= greatest
      BY <2>2
    <2> HIDE DEF greatest
    <2>4. LastStepIs(f, report, greatest)
      BY <1>1, <1>2, <1>3, <2>3 DEF LastStepIs, at
    <2>5. \E n \in 1 .. Len(f.index) : f.index[n].report = report
      BY <2>4 DEF LastStepIs
    <2> QED BY <2>4, <2>5
  <1>4. CASE at = {}
    BY <1>1, <1>2, <1>4
  <1> QED BY <1>3, <1>4

Regular == ChainOK /\ Timeline # <<>> /\ ReportsRegular

(* Something is kept of every file.                                        *)
LEMMA AllKept ==
    ASSUME Regular
    PROVE  /\ FileCount \in Nat /\ FileCount > 0
           /\ \A n \in 1 .. FileCount :
                  /\ index[n].length \in Nat /\ index[n].length > 0
                  /\ data_files[n].index # <<>>
                  /\ index[n].length <= Len(data_files[n].index)
  <1> USE DEF Regular
  <1>1. FileCount \in Nat /\ KeptSteps \in [1 .. FileCount -> Seq(TimeStep)]
    BY FilesTyped, KeptInOrder
  <1>2. PICK off : Offsets(off, KeptSteps, FileCount)
    BY <1>1, OffsetsExist
  <1>3. Laid(Timeline, off, KeptSteps, FileCount) /\ Timeline \in Seq(TimeStep)
    <2>1. Timeline = FlattenSeq(KeptSteps)
      BY DEF Timeline, KeptSteps
    <2> QED BY <1>1, <1>2, <2>1, Flattened
  <1>4. Len(Timeline) # 0
    BY <1>3, EmptySeq
  <1>5. FileCount > 0
    BY <1>1, <1>2, <1>3, <1>4 DEF Laid, Offsets
  <1>6. ASSUME NEW n \in 1 .. FileCount
        PROVE  /\ index[n].length \in Nat /\ index[n].length <= Len(data_files[n].index)
               /\ Len(data_files[n].index) \in Nat
    <2>1. Len(data_files[n].index) \in Nat
      BY FilesTyped
    <2> QED BY <2>1, KeptTyped
  <1>7. ASSUME NEW n \in 1 .. FileCount PROVE index[n].length # 0
    <2>1. CASE FileCount = 1
      <3>1. n = 1 /\ 1 - 1 = 0 /\ 1 \in 1 .. FileCount
        BY <2>1
      <3>2. off[1] = off[0] + index[1].length /\ off[0] = 0
        BY <1>2, <3>1, OffsetCounts DEF Offsets
      <3>3. Len(Timeline) = off[1]
        BY <1>3, <2>1 DEF Laid
      <3> QED BY <1>4, <1>6, <3>1, <3>2, <3>3
    <2>2. CASE n = FileCount /\ FileCount > 1
      <3>1. data_files[n].index # <<>>
        BY <2>2, FilesTyped
      <3>2. Len(data_files[n].index) > 0
        BY <3>1, FilesTyped
      <3> QED BY <2>2, <3>2, KeptTyped
    <2>3. CASE n < FileCount
      <3> DEFINE steps == data_files[n].index
                 next == DataStart(data_files[n + 1])
      <3>1. n + 1 \in 1 .. FileCount /\ n + 1 \in 2 .. FileCount /\ (n + 1) - 1 = n /\ FileCount > 1
            /\ n # n + 1 /\ n < n + 1
        BY <1>1, <2>3
      <3>2. steps # <<>> /\ Len(steps) > 0 /\ Len(steps) \in Nat /\ DataStart(data_files[n]) = steps[1].time
        BY <3>1, FilesTyped
      <3>3. 1 \in 1 .. Len(steps)
        BY <3>2
      <3>4. steps[1].time \in Nat
        BY <3>3, FilesTyped
      <3>5. next \in Nat
        BY <3>1, StartsInOrder
      <3>6. DataStart(data_files[n]) <= next
        BY <1>1, <3>1 DEF ChainOK, InOrder, FileCount
      <3>7. DataStart(data_files[n]) # next
        BY <3>1, FilesTyped DEF ReportsRegular, StartsDiffer
      <3>8. steps[1].time < next
        <4> HIDE DEF next
        <4> QED BY <3>2, <3>4, <3>5, <3>6, <3>7
      <3>9. \A m \in 1 .. 1 : steps[m].time < next
        BY <3>8
      <3>10. n \in DOMAIN data_files /\ data_files[n] \in SummaryFile
        BY FilesTyped, NodeLength
      <3>11. 1 <= LengthBefore(data_files[n], next)
        BY <3>3, <3>9, <3>10, BeforeNext
      <3>12. index[n].length = LengthBefore(data_files[n], next)
        BY <2>3, <3>10, NodeLength DEF FileCount
      <3> QED BY <1>6, <3>11, <3>12
    <2> QED BY <1>1, <2>1, <2>2, <2>3
  <1>8. ASSUME NEW n \in 1 .. FileCount PROVE data_files[n].index # <<>>
    <2>1. Len(data_files[n].index) # 0
      BY <1>6, <1>7
    <2> QED BY <2>1, EmptySeq
  <1> QED BY <1>1, <1>5, <1>6, <1>7, <1>8

(* From one step to the next, and from file to file, the report step is    *)
(* the same or the next.                                                   *)
LEMMA ReportsByOne ==
    ASSUME Regular
    PROVE  /\ \A n \in 1 .. FileCount :
                  /\ \A k \in 1 .. index[n].length : ReportOf(n, k) \in Nat
                  /\ \A k \in 2 .. index[n].length : ReportOf(n, k) - ReportOf(n, k - 1) \in {0, 1}
           /\ \A n \in 1 .. FileCount - 1 : FirstKept(n + 1) = LastKept(n) + 1
  <1> DEFINE N == FileCount
             L(n) == index[n].length
  <1>0. ChainOK /\ ReportsRegular
    BY DEF Regular
  <1>1. N \in Nat /\ N > 0 /\ KeptSteps \in [1 .. N -> Seq(TimeStep)] /\ DOMAIN index = 1 .. N
    BY <1>0, AllKept, KeptInOrder, FilesTyped
  <1>2. PICK off : Offsets(off, KeptSteps, N)
    BY <1>1, OffsetsExist
  <1>3. Laid(Timeline, off, KeptSteps, N) /\ Timeline \in Seq(TimeStep)
    <2>1. Timeline = FlattenSeq(KeptSteps)
      BY DEF Timeline, KeptSteps
    <2> QED BY <1>1, <1>2, <2>1, Flattened
  <1>4. ASSUME NEW n \in 1 .. N
        PROVE  /\ L(n) \in Nat /\ L(n) > 0 /\ off[n] = off[n - 1] + L(n)
               /\ off[n - 1] \in Nat /\ off[n] <= off[N] /\ off[N] \in Nat
               /\ \A k \in 1 .. L(n) : /\ Timeline[off[n - 1] + k].report = ReportOf(n, k)
                                       /\ ReportOf(n, k) \in Nat
    <2>1. L(n) \in Nat /\ L(n) > 0
      BY AllKept
    <2>2. off[n] = off[n - 1] + L(n)
      BY <1>0, <1>2, OffsetCounts
    <2>3. n \in 0 .. N /\ N \in 0 .. N /\ n - 1 \in 0 .. N /\ n <= N
      BY <1>1
    <2>4. off[n] <= off[N]
      BY <1>1, <1>2, <2>3, OffsetsRise
    <2>5. off[n - 1] \in Nat /\ off[N] \in Nat
      BY <1>2, <2>3 DEF Offsets
    <2>6. ASSUME NEW k \in 1 .. L(n)
          PROVE  Timeline[off[n - 1] + k].report = ReportOf(n, k) /\ ReportOf(n, k) \in Nat
      <3>1. /\ Len(KeptSteps[n]) = L(n) /\ KeptSteps[n][k] = data_files[n].index[k]
            /\ k \in 1 .. Len(data_files[n].index)
        BY <1>0, KeptTyped
      <3>2. Timeline[off[n - 1] + k] = KeptSteps[n][k]
        BY <1>3, <3>1 DEF Laid
      <3>3. data_files[n].index[k].report \in Nat
        BY <1>0, <3>1, FilesTyped
      <3> QED BY <3>1, <3>2, <3>3 DEF ReportOf
    <2> QED BY <2>1, <2>2, <2>4, <2>5, <2>6
  <1>5. \A i \in 2 .. off[N] : Timeline[i].report - Timeline[i - 1].report \in {0, 1}
    BY <1>0, <1>3 DEF Laid, ReportsRegular
  <1> HIDE DEF L, N
  <1>6. ASSUME NEW n \in 1 .. N, NEW k \in 2 .. L(n)
        PROVE  ReportOf(n, k) - ReportOf(n, k - 1) \in {0, 1}
    <2> DEFINE o == off[n - 1]
    <2>1. o \in Nat /\ L(n) \in Nat /\ o + L(n) <= off[N] /\ off[N] \in Nat
      BY <1>4
    <2> HIDE DEF o
    <2>2. o + k \in 2 .. off[N] /\ (o + k) - 1 = o + (k - 1) /\ k \in 1 .. L(n) /\ k - 1 \in 1 .. L(n)
      BY <2>1
    <2>3. Timeline[o + k].report - Timeline[o + (k - 1)].report \in {0, 1}
      BY <1>5, <2>2
    <2> QED BY <1>4, <2>2, <2>3 DEF o
  <1>7. ASSUME NEW n \in 1 .. N - 1
        PROVE  FirstKept(n + 1) = LastKept(n) + 1
    <2> DEFINE o == off[n - 1]
    <2>1. n \in 1 .. N /\ n + 1 \in 1 .. N /\ (n + 1) - 1 = n /\ n # n + 1
      BY <1>1
    <2>2. /\ o \in Nat /\ L(n) \in Nat /\ L(n) > 0 /\ off[n] = o + L(n)
          /\ L(n + 1) \in Nat /\ L(n + 1) > 0 /\ off[n + 1] = off[n] + L(n + 1)
          /\ off[n + 1] <= off[N] /\ off[N] \in Nat
      BY <1>4, <2>1
    <2>3. 1 \in 1 .. L(n + 1) /\ L(n) \in 1 .. L(n)
      BY <2>2
    <2>4. off[n] + 1 \in 2 .. off[N] /\ (off[n] + 1) - 1 = o + L(n)
      <3>1. off[n] \in Nat /\ off[n] > 0
        BY <2>2
      <3> HIDE DEF o
      <3>2. off[n + 1] \in Nat /\ off[n + 1] >= off[n] + 1
        BY <2>2, <3>1
      <3> QED BY <2>2, <3>1, <3>2
    <2>5. Timeline[off[n] + 1].report - Timeline[o + L(n)].report \in {0, 1}
      <3> HIDE DEF o
      <3> QED BY <1>5, <2>4
    <2>6. Timeline[off[n] + 1].report = FirstKept(n + 1) /\ FirstKept(n + 1) \in Nat
      BY <1>4, <2>1, <2>3 DEF FirstKept
    <2>7. Timeline[o + L(n)].report = LastKept(n) /\ LastKept(n) \in Nat
      BY <1>4, <2>1, <2>3 DEF LastKept, L
    <2>8. FirstKept(n + 1) # LastKept(n)
      <3>1. FirstKept(n + 1) \in Kept(n + 1) /\ LastKept(n) \in Kept(n)
        BY <2>3 DEF FirstKept, LastKept, Kept, ReportOf, L
      <3>2. Kept(n) \cap Kept(n + 1) = {}
        BY <1>0, <1>1, <2>1 DEF ReportsRegular
      <3> QED BY <3>1, <3>2
    <2> HIDE DEF o
    <2> QED BY <2>5, <2>6, <2>7, <2>8
  <1> QED BY <1>4, <1>6, <1>7 DEF N, L

(* The report steps that are kept of a file are those from the first to    *)
(* the last.                                                               *)
LEMMA KeptReports ==
    ASSUME Regular, NEW n \in 1 .. FileCount
    PROVE  /\ FirstKept(n) \in Nat /\ LastKept(n) \in Nat /\ FirstKept(n) <= LastKept(n)
           /\ Kept(n) = FirstKept(n) .. LastKept(n)
  <1> DEFINE L == index[n].length
             f == [k \in 1 .. L |-> ReportOf(n, k)]
  <1>1. L \in Nat /\ L > 0
    BY AllKept
  <1> HIDE DEF L
  <1>2. \A k \in 1 .. L : f[k] \in Nat
    BY ReportsByOne DEF L
  <1>3. \A k \in 2 .. L : f[k] - f[k - 1] \in {0, 1}
    <2> SUFFICES ASSUME NEW k \in 2 .. L PROVE f[k] - f[k - 1] \in {0, 1}
      OBVIOUS
    <2>1. k \in 1 .. L /\ k - 1 \in 1 .. L
      BY <1>1
    <2> QED BY <2>1, ReportsByOne DEF L
  <1>4. 1 \in 1 .. L /\ L \in 1 .. L
    BY <1>1
  <1>5. f[1] = FirstKept(n) /\ f[L] = LastKept(n)
    BY <1>4 DEF FirstKept, LastKept, L
  <1>6. Kept(n) = {f[k] : k \in 1 .. L}
    BY DEF Kept, ReportOf, L
  <1> HIDE DEF f
  <1>7. /\ \A k \in 1 .. L : f[1] <= f[k] /\ f[k] <= f[L]
        /\ \A r \in f[1] .. f[L] : \E k \in 1 .. L : f[k] = r
    BY <1>1, <1>2, <1>3, NoneLeftOut
  <1>8. Kept(n) = f[1] .. f[L]
    BY <1>2, <1>4, <1>6, <1>7
  <1> QED BY <1>2, <1>4, <1>5, <1>7, <1>8

(* A report step that is kept ends before the cut.                         *)
LEMMA EndIsKept ==
    ASSUME Regular, NEW n \in 1 .. FileCount, NEW r \in FirstKept(n) .. LastKept(n)
    PROVE  \E e \in 1 .. index[n].length : LastStepIs(data_files[n], r, e)
  <1> DEFINE f == data_files[n]
             L == index[n].length
  <1>1. /\ f.index \in Seq(TimeStep) /\ Len(f.index) \in Nat /\ L \in Nat /\ L <= Len(f.index)
        /\ n \in DOMAIN index
    BY AllKept, FilesTyped DEF Regular
  <1>2. r \in Kept(n)
    BY KeptReports
  <1>3. PICK k \in 1 .. L : f.index[k].report = r
    BY <1>2 DEF Kept
  <1>4. k \in 1 .. Len(f.index)
    BY <1>1
  <1>5. PICK e : LastStepIs(f, r, e)
    BY <1>1, <1>3, <1>4, RangeEndFinds
  <1>6. e \in 1 .. Len(f.index) /\ f.index[e].report = r
    BY <1>5 DEF LastStepIs
  <1>7. e \in 1 .. L
    <2> SUFFICES ASSUME e \notin 1 .. L PROVE FALSE
      OBVIOUS
    <2>1. e \in L + 1 .. Len(f.index)
      BY <1>1, <1>6
    <2>2. Kept(n) \cap {f.index[i].report : i \in L + 1 .. Len(f.index)} = {}
      BY <1>1 DEF Regular, ReportsRegular
    <2>3. r \in {f.index[i].report : i \in L + 1 .. Len(f.index)}
      <3> HIDE DEF f, L
      <3> QED BY <1>6, <2>1
    <2> QED BY <1>2, <2>2, <2>3
  <1> QED BY <1>5, <1>7

(* The reports of a file go on to the last that is kept at least.          *)
LEMMA LastReportIs ==
    ASSUME Regular, NEW n \in 1 .. FileCount
    PROVE  /\ FirstReport(data_files[n]) = FirstKept(n)
           /\ LastReport(data_files[n]) \in Nat /\ LastKept(n) <= LastReport(data_files[n])
           /\ n = FileCount => LastReport(data_files[n]) = LastKept(n)
  <1> DEFINE f == data_files[n]
             steps == f.index
             L == index[n].length
             T == Len(steps)
  <1>1. /\ steps \in Seq(TimeStep) /\ T \in Nat /\ L \in Nat /\ L > 0 /\ L <= T /\ DOMAIN steps = 1 .. T
        /\ steps # <<>> /\ ChainOK
    BY AllKept, FilesTyped DEF Regular
  <1>2. Head(steps) = steps[1] /\ Last(steps) = steps[T]
    BY <1>1 DEF Last
  <1>3. FirstReport(f) = FirstKept(n) /\ LastReport(f) = steps[T].report
    BY <1>2 DEF FirstReport, LastReport, FirstKept, ReportOf
  <1>4. L \in 1 .. T /\ T \in 1 .. T
    BY <1>1
  <1>5. steps[T].report \in Nat /\ steps[L].report \in Nat
    BY <1>1, <1>4, FilesTyped
  <1>6. n = FileCount => L = T
    BY <1>1, KeptTyped
  <1>7. steps[L].report <= steps[T].report
    <2>1. CASE L = T
      BY <1>5, <2>1
    <2>2. CASE L # T
      <3>1. FileOK(f) /\ f.first_step # 0
        <4>1. FileOK(f) /\ DOMAIN data_files = 1 .. FileCount /\ FileCount \in Nat
          BY <1>1, FilesTyped, NodeLength DEF SummaryFile
        <4>2. n # FileCount
          BY <1>6, <2>2
        <4>3. FileCount # 1
          BY <4>1, <4>2
        <4> QED BY <1>1, <4>1, <4>3 DEF ChainOK, FilesOK, FileCount
      <3>2. Ascend(steps)
        BY <3>1 DEF FileOK
      <3>3. L < T
        BY <1>1, <2>2
      <3> QED BY <1>1, <1>4, <3>2, <3>3 DEF Ascend, Later
    <2> QED BY <2>1, <2>2
  <1>8. LastKept(n) = steps[L].report
    BY DEF LastKept, ReportOf
  <1>9. n = FileCount => LastReport(f) = LastKept(n)
    BY <1>3, <1>6, <1>8
  <1> QED BY <1>3, <1>5, <1>7, <1>8, <1>9

(* Of a file get_time_report gives the end of each report that is kept.    *)
LEMMA TimesOfFile ==
    ASSUME Regular, NEW n \in 1 .. FileCount
    PROVE  /\ TimeReport(data_files[n], index[n].length) \in
                  [1 .. LastKept(n) - FirstKept(n) + 1 -> Int]
           /\ \A r \in FirstKept(n) .. LastKept(n) :
                  TimeReport(data_files[n], index[n].length)[r - FirstKept(n) + 1] =
                      SimTime(data_files[n], RangeEnd(data_files[n], r))
  <1> DEFINE f == data_files[n]
             L == index[n].length
             a == FirstKept(n)
             b == LastKept(n)
             c == LastReport(f)
             ends == [k \in 1 .. c - a + 1 |-> RangeEnd(f, a + k - 1)]
             P == {k \in DOMAIN ends : \A m \in 1 .. k : ends[m] < L}
  <1>1. a \in Nat /\ b \in Nat /\ a <= b /\ c \in Nat /\ b <= c /\ FirstReport(f) = a
    BY KeptReports, LastReportIs
  <1>2. /\ f.index \in Seq(TimeStep) /\ Len(f.index) \in Nat /\ L \in Nat /\ L <= Len(f.index)
        /\ n \in DOMAIN data_files /\ f.index # <<>>
        /\ \A k \in 1 .. Len(f.index) : f.index[k].time \in Nat
    BY AllKept, FilesTyped DEF Regular
  <1>3. TimeReport(f, L) = [k \in 1 .. Cardinality(P) |->
                               IF ends[k] < 0 THEN Undefined ELSE SimTime(f, ends[k])]
    BY <1>1 DEF TimeReport
  <1>4. ASSUME NEW r \in a .. b
        PROVE  /\ RangeEnd(f, r) \in Nat /\ RangeEnd(f, r) < L
               /\ SimTime(f, RangeEnd(f, r)) \in Nat
    <2>1. PICK e \in 1 .. L : LastStepIs(f, r, e)
      BY EndIsKept
    <2>2. RangeEnd(f, r) = e - 1 /\ e \in 1 .. Len(f.index)
      BY <2>1 DEF LastStepIs
    <2>3. RangeEnd(f, r) + 1 = e /\ RangeEnd(f, r) \in Nat /\ RangeEnd(f, r) < L
      BY <1>2, <2>2
    <2>4. SimTime(f, RangeEnd(f, r)) = f.index[e].time
      BY <2>3 DEF SimTime
    <2> QED BY <1>2, <2>2, <2>3, <2>4
  <1>5. ASSUME NEW r \in a .. c, r > b PROVE ~(RangeEnd(f, r) < L)
    <2>1. RangeEnd(f, r) >= 0
      <3>1. \A q \in FirstReport(f) .. LastReport(f) : RangeEnd(f, q) >= 0
        BY <1>2 DEF Regular, ReportsRegular, NoneMissing
      <3> QED BY <1>1, <3>1
    <2>2. \E e : LastStepIs(f, r, e)
      <3>1. RangeEnd(f, r) # -1
        BY <2>1
      <3> QED BY <1>2, <3>1, RangeEndFinds
    <2>3. PICK e : LastStepIs(f, r, e)
      BY <2>2
    <2>4. e \in 1 .. Len(f.index) /\ f.index[e].report = r /\ RangeEnd(f, r) = e - 1
      BY <2>3 DEF LastStepIs
    <2>5. r \notin Kept(n)
      <3>1. r \notin a .. b
        BY <1>1, <1>5
      <3> QED BY <3>1, KeptReports
    <2>6. e \notin 1 .. L
      BY <2>4, <2>5 DEF Kept
    <2> QED BY <1>2, <2>4, <2>6
  <1> HIDE DEF f, L, a, b, c
  <1>6. P = 1 .. b - a + 1
    <2>1. \A k \in 1 .. c - a + 1 : a + k - 1 \in a .. c /\ k \in Nat
      BY <1>1
    <2>2. \A k \in 1 .. b - a + 1 : a + k - 1 \in a .. b /\ k \in 1 .. c - a + 1
      BY <1>1
    <2>3. ASSUME NEW k \in 1 .. b - a + 1 PROVE k \in P
      <3>1. \A m \in 1 .. k : m \in 1 .. b - a + 1
        BY <1>1
      <3>2. \A m \in 1 .. k : ends[m] = RangeEnd(f, a + m - 1)
        BY <2>2, <3>1
      <3>3. \A m \in 1 .. k : RangeEnd(f, a + m - 1) < L
        BY <1>4, <2>2, <3>1
      <3>4. \A m \in 1 .. k : ends[m] < L
        BY <3>2, <3>3
      <3> QED BY <2>2, <3>4
    <2>4. ASSUME NEW k \in P PROVE k \in 1 .. b - a + 1
      <3> SUFFICES ASSUME ~(k <= b - a + 1) PROVE FALSE
        BY <1>1
      <3>1. k \in 1 .. c - a + 1 /\ \A m \in 1 .. k : ends[m] < L
        OBVIOUS
      <3>2. b - a + 2 \in 1 .. k /\ b - a + 2 \in 1 .. c - a + 1 /\ a + (b - a + 2) - 1 = b + 1
        BY <1>1, <3>1
      <3>3. b + 1 \in a .. c /\ b + 1 > b
        BY <1>1, <3>2
      <3>4. ends[b - a + 2] = RangeEnd(f, b + 1)
        BY <3>2
      <3> QED BY <1>5, <3>1, <3>2, <3>3, <3>4
    <2> QED BY <2>3, <2>4
  <1>7. Cardinality(P) = b - a + 1
    <2> DEFINE count == b - a + 1
    <2>1. 1 \in Int /\ count \in Int /\ ~(1 > count) /\ count - 1 + 1 = count
      BY <1>1
    <2> HIDE DEF count, P
    <2>2. Cardinality(1 .. count) = count
      BY <2>1, FS_Interval
    <2> QED BY <1>6, <2>2 DEF count
  <1>8. ASSUME NEW k \in 1 .. b - a + 1
        PROVE  /\ a + k - 1 \in a .. b /\ ends[k] = RangeEnd(f, a + k - 1)
               /\ TimeReport(f, L)[k] = SimTime(f, ends[k]) /\ SimTime(f, ends[k]) \in Int
    <2>1. a + k - 1 \in a .. b /\ k \in 1 .. c - a + 1
      BY <1>1
    <2>2. ends[k] = RangeEnd(f, a + k - 1)
      BY <2>1
    <2>3. TimeReport(f, L)[k] = IF ends[k] < 0 THEN Undefined ELSE SimTime(f, ends[k])
      BY <1>3, <1>7
    <2>4. ~(ends[k] < 0) /\ SimTime(f, ends[k]) \in Int
      BY <1>4, <2>1, <2>2
    <2> QED BY <2>1, <2>2, <2>3, <2>4
  <1> HIDE DEF P
  <1>9. TimeReport(f, L) \in [1 .. b - a + 1 -> Int]
    <2>1. DOMAIN TimeReport(f, L) = 1 .. b - a + 1
      BY <1>3, <1>7
    <2>2. TimeReport(f, L) = [k \in 1 .. b - a + 1 |-> TimeReport(f, L)[k]]
      BY <1>3, <1>7
    <2>3. \A k \in 1 .. b - a + 1 : TimeReport(f, L)[k] \in Int
      BY <1>8
    <2> HIDE DEF ends
    <2> QED BY <2>2, <2>3
  <1>10. ASSUME NEW r \in a .. b
         PROVE  TimeReport(f, L)[r - a + 1] = SimTime(f, RangeEnd(f, r))
    <2>1. r - a + 1 \in 1 .. b - a + 1 /\ a + (r - a + 1) - 1 = r
      BY <1>1
    <2> HIDE DEF ends
    <2> QED BY <1>8, <2>1
  <1> QED BY <1>9, <1>10 DEF f, L, a, b

(* The vector of report times has one place for each report step, from the *)
(* first of the first file to the last of the last one.                    *)
LEMMA ReportTimesAre ==
    ASSUME Regular
    PROVE  /\ Len(ReportTimes) = LastKept(FileCount) - FirstKept(1) + 1
           /\ \A n \in 1 .. FileCount : \A r \in FirstKept(n) .. LastKept(n) :
                  ReportTimes[r - FirstKept(1) + 1] =
                      SimTime(data_files[n], RangeEnd(data_files[n], r))
  <1> DEFINE N == FileCount
             s == [n \in DOMAIN index |-> TimeReport(data_files[n], index[n].length)]
             off == [n \in 0 .. N |-> IF n = 0 THEN 0 ELSE LastKept(n) - FirstKept(1) + 1]
  <1>1. N \in Nat /\ N > 0 /\ DOMAIN index = 1 .. N /\ 1 \in 1 .. N /\ N \in 1 .. N
    BY AllKept, FilesTyped DEF Regular
  <1>2. ReportTimes = FlattenSeq(s)
    BY DEF ReportTimes
  <1>3. ASSUME NEW n \in 1 .. N
        PROVE  /\ s[n] \in Seq(Int) /\ Len(s[n]) = LastKept(n) - FirstKept(n) + 1
               /\ FirstKept(n) \in Nat /\ LastKept(n) \in Nat /\ FirstKept(n) <= LastKept(n)
               /\ \A r \in FirstKept(n) .. LastKept(n) :
                      s[n][r - FirstKept(n) + 1] = SimTime(data_files[n], RangeEnd(data_files[n], r))
    <2>1. s[n] = TimeReport(data_files[n], index[n].length)
      BY <1>1
    <2>2. FirstKept(n) \in Nat /\ LastKept(n) \in Nat /\ FirstKept(n) <= LastKept(n)
      BY KeptReports
    <2> HIDE DEF s
    <2>3. /\ s[n] \in [1 .. LastKept(n) - FirstKept(n) + 1 -> Int]
          /\ \A r \in FirstKept(n) .. LastKept(n) :
                 s[n][r - FirstKept(n) + 1] = SimTime(data_files[n], RangeEnd(data_files[n], r))
      BY <2>1, TimesOfFile
    <2>4. LastKept(n) - FirstKept(n) + 1 \in Nat
      BY <2>2
    <2>5. s[n] \in Seq(Int) /\ Len(s[n]) = LastKept(n) - FirstKept(n) + 1
      BY <2>3, <2>4, WrittenOut
    <2> QED BY <2>2, <2>3, <2>5
  <1>4. s \in [1 .. N -> Seq(Int)]
    BY <1>1, <1>3
  <1> HIDE DEF s, N
  <1> DEFINE Next1 == \A n \in 1 .. N - 1 : FirstKept(n + 1) = LastKept(n) + 1
  <1>5. Next1
    BY ReportsByOne DEF N
  <1>6. \A n \in 1 .. N : off[n - 1] = FirstKept(n) - FirstKept(1)
    <2> SUFFICES ASSUME NEW n \in 1 .. N PROVE off[n - 1] = FirstKept(n) - FirstKept(1)
      OBVIOUS
    <2>1. CASE n = 1
      <3>1. off[n - 1] = 0
        BY <1>1, <2>1
      <3>2. FirstKept(1) \in Nat
        BY <1>1, <1>3
      <3> QED BY <2>1, <3>1, <3>2
    <2>2. CASE n # 1
      <3>1. n - 1 \in 1 .. N - 1 /\ n - 1 \in 0 .. N /\ n - 1 # 0 /\ (n - 1) + 1 = n /\ n - 1 \in 1 .. N
        BY <1>1, <2>2
      <3>2. off[n - 1] = LastKept(n - 1) - FirstKept(1) + 1
        BY <3>1
      <3>3. FirstKept((n - 1) + 1) = LastKept(n - 1) + 1
        BY <1>5, <3>1
      <3>4. FirstKept(n) = LastKept(n - 1) + 1
        BY <3>1, <3>3
      <3>5. LastKept(n - 1) \in Nat /\ FirstKept(1) \in Nat
        BY <1>1, <1>3, <3>1
      <3> HIDE DEF off
      <3> QED BY <3>2, <3>4, <3>5
    <2> QED BY <2>1, <2>2
  <1>7. \A n \in 1 .. N : off[n] = LastKept(n) - FirstKept(1) + 1
    BY <1>1
  <1>8. ASSUME NEW n \in 1 .. N PROVE FirstKept(1) <= FirstKept(n)
    <2> DEFINE T == {k \in 0 .. N : k > 0 => FirstKept(1) <= FirstKept(k)}
    <2>1. 0 \in T
      BY <1>1
    <2>2. ASSUME NEW k \in 0 .. N - 1, k \in T PROVE k + 1 \in T
      <3>1. k + 1 \in 1 .. N /\ FirstKept(k + 1) \in Nat /\ FirstKept(1) \in Nat
        BY <1>1, <1>3
      <3>2. CASE k = 0
        BY <3>1, <3>2
      <3>3. CASE k # 0
        <4>1. k \in 1 .. N - 1 /\ k \in 1 .. N /\ k > 0
          BY <1>1, <3>3
        <4>2. FirstKept(k) \in Nat /\ LastKept(k) \in Nat /\ FirstKept(k) <= LastKept(k)
          BY <1>3, <4>1
        <4>3. FirstKept(k + 1) = LastKept(k) + 1 /\ FirstKept(1) <= FirstKept(k)
          BY <1>5, <2>2, <4>1
        <4>4. FirstKept(1) <= FirstKept(k + 1)
          BY <3>1, <4>2, <4>3
        <4> QED BY <3>1, <4>4
      <3> QED BY <3>2, <3>3
    <2> HIDE DEF T
    <2>3. 0 .. N \subseteq T
      BY <1>1, <2>1, <2>2, UpToInduction
    <2>4. n \in T /\ n > 0
      BY <1>1, <2>3
    <2> QED BY <2>4 DEF T
  <1>9. Offsets(off, s, N)
    <2>1. off \in [0 .. N -> Nat]
      <3>1. \A n \in 1 .. N : LastKept(n) - FirstKept(1) + 1 \in Nat
        <4> SUFFICES ASSUME NEW n \in 1 .. N PROVE LastKept(n) - FirstKept(1) + 1 \in Nat
          OBVIOUS
        <4>1. FirstKept(n) \in Nat /\ LastKept(n) \in Nat /\ FirstKept(1) \in Nat
              /\ FirstKept(n) <= LastKept(n) /\ FirstKept(1) <= FirstKept(n)
          BY <1>1, <1>3, <1>8
        <4> QED BY <4>1
      <3>2. \A n \in 0 .. N : n # 0 => n \in 1 .. N
        BY <1>1
      <3> QED BY <3>1, <3>2
    <2>2. off[0] = 0
      BY <1>1
    <2>3. ASSUME NEW n \in 1 .. N PROVE off[n] = off[n - 1] + Len(s[n])
      <3>1. off[n] = LastKept(n) - FirstKept(1) + 1 /\ off[n - 1] = FirstKept(n) - FirstKept(1)
        BY <1>6, <1>7
      <3>2. Len(s[n]) = LastKept(n) - FirstKept(n) + 1
        BY <1>3
      <3>3. FirstKept(n) \in Nat /\ LastKept(n) \in Nat /\ FirstKept(1) \in Nat
        BY <1>1, <1>3
      <3> HIDE DEF off
      <3> QED BY <3>1, <3>2, <3>3
    <2> HIDE DEF off
    <2> QED BY <2>1, <2>2, <2>3 DEF Offsets
  <1> HIDE DEF off
  <1>10. Laid(ReportTimes, off, s, N)
    BY <1>1, <1>2, <1>4, <1>9, Flattened
  <1>11. Len(ReportTimes) = LastKept(N) - FirstKept(1) + 1
    BY <1>1, <1>7, <1>10 DEF Laid
  <1>12. ASSUME NEW n \in 1 .. N, NEW r \in FirstKept(n) .. LastKept(n)
         PROVE  ReportTimes[r - FirstKept(1) + 1] = SimTime(data_files[n], RangeEnd(data_files[n], r))
    <2> DEFINE i == r - FirstKept(n) + 1
    <2>1. FirstKept(n) \in Nat /\ LastKept(n) \in Nat /\ FirstKept(1) \in Nat
      BY <1>1, <1>3
    <2>2. i \in 1 .. Len(s[n])
      BY <1>3, <2>1
    <2>3. off[n - 1] + i = r - FirstKept(1) + 1
      BY <1>6, <2>1
    <2>4. ReportTimes[off[n - 1] + i] = s[n][i]
      <3> HIDE DEF i
      <3> QED BY <1>10, <2>2 DEF Laid
    <2>5. s[n][i] = SimTime(data_files[n], RangeEnd(data_files[n], r))
      BY <1>3
    <2> HIDE DEF i
    <2> QED BY <2>3, <2>4, <2>5
  <1> QED BY <1>11, <1>12 DEF N

(* The place that a step has in the timeline, and the only one.            *)
Located(off) ==
    \A p \in DOMAIN Timeline : \E n \in 1 .. FileCount : \E k \in 1 .. index[n].length :
        p = off[n - 1] + k /\ Timeline[p] = data_files[n].index[k]

LEMMA PlaceOfStep ==
    ASSUME Regular, NEW off, Offsets(off, KeptSteps, FileCount)
    PROVE  /\ DOMAIN Timeline = 1 .. Len(Timeline)
           /\ \A n \in 1 .. FileCount : \A k \in 1 .. index[n].length :
                  /\ off[n - 1] + k \in DOMAIN Timeline /\ off[n - 1] \in Nat
                  /\ Timeline[off[n - 1] + k] = data_files[n].index[k]
           /\ Located(off)
  <1> DEFINE N == FileCount
  <1>1. /\ N \in Nat /\ KeptSteps \in [1 .. N -> Seq(TimeStep)]
        /\ DOMAIN Timeline = 1 .. Len(Timeline)
    BY FilesTyped, KeptInOrder, TimelineInOrder DEF Regular
  <1>2. Laid(Timeline, off, KeptSteps, N)
    <2>1. Timeline = FlattenSeq(KeptSteps)
      BY DEF Timeline, KeptSteps
    <2> QED BY <1>1, <2>1, Flattened
  <1>3. ASSUME NEW n \in 1 .. N
        PROVE  /\ Len(KeptSteps[n]) = index[n].length
               /\ \A k \in 1 .. index[n].length : KeptSteps[n][k] = data_files[n].index[k]
    BY KeptTyped DEF Regular
  <1>4. ASSUME NEW n \in 1 .. N, NEW k \in 1 .. index[n].length
        PROVE  /\ off[n - 1] + k \in DOMAIN Timeline /\ off[n - 1] \in Nat
               /\ Timeline[off[n - 1] + k] = data_files[n].index[k]
    <2>1. n \in 0 .. N /\ n - 1 \in 0 .. N /\ N \in 0 .. N /\ n <= N
      BY <1>1
    <2>2. off[n - 1] \in Nat /\ off[n] \in Nat /\ off[N] \in Nat /\ off[n] = off[n - 1] + index[n].length
      BY <1>3, <2>1 DEF Offsets
    <2>3. off[n] <= off[N]
      BY <1>1, <2>1, OffsetsRise
    <2>4. index[n].length \in Nat
      BY AllKept
    <2>5. off[n - 1] + k \in 1 .. off[N]
      BY <2>2, <2>3, <2>4
    <2>6. off[n - 1] + k \in DOMAIN Timeline
      BY <1>1, <1>2, <2>5 DEF Laid
    <2> QED BY <1>2, <1>3, <2>2, <2>6 DEF Laid
  <1>5. ASSUME NEW p \in DOMAIN Timeline
        PROVE  \E n \in 1 .. N : \E k \in 1 .. index[n].length :
                   p = off[n - 1] + k /\ Timeline[p] = data_files[n].index[k]
    <2>1. Placed(off, KeptSteps, N) /\ p \in 1 .. off[N]
      BY <1>1, <1>2, PlaceInList DEF Laid
    <2>2. PICK n \in 1 .. N : \E k \in 1 .. Len(KeptSteps[n]) : p = off[n - 1] + k
      BY <2>1 DEF Placed
    <2>3. PICK k \in 1 .. Len(KeptSteps[n]) : p = off[n - 1] + k
      BY <2>2
    <2>4. k \in 1 .. index[n].length
      BY <1>3
    <2>5. Timeline[off[n - 1] + k] = data_files[n].index[k]
      BY <1>4, <2>4
    <2> QED BY <2>3, <2>4, <2>5
  <1> QED BY <1>1, <1>4, <1>5 DEF Located

(* A report step is kept of one file only, where the timeline has its last *)
(* step.                                                                   *)
LEMMA LastOfReport ==
    ASSUME Regular, NEW off, Offsets(off, KeptSteps, FileCount),
           NEW n \in 1 .. FileCount, NEW r, NEW e \in 1 .. index[n].length,
           LastStepIs(data_files[n], r, e)
    PROVE  /\ LastOf(r) = off[n - 1] + e
           /\ Timeline[LastOf(r)] = data_files[n].index[e]
  <1> DEFINE Latest(p) == /\ Timeline[p].report = r
                          /\ \A m \in DOMAIN Timeline : Timeline[m].report = r => m <= p
             place == off[n - 1] + e
  <1>1. /\ place \in DOMAIN Timeline /\ off[n - 1] \in Nat
        /\ Timeline[place] = data_files[n].index[e] /\ DOMAIN Timeline = 1 .. Len(Timeline)
    BY PlaceOfStep
  <1>8. Located(off)
    BY PlaceOfStep
  <1>2. data_files[n].index[e].report = r
    BY DEF LastStepIs
  <1>3. ASSUME NEW m \in DOMAIN Timeline, Timeline[m].report = r PROVE m <= place
    <2>1. \E q \in 1 .. FileCount : \E k \in 1 .. index[q].length :
              m = off[q - 1] + k /\ Timeline[m] = data_files[q].index[k]
      BY <1>8 DEF Located
    <2>2. PICK q \in 1 .. FileCount : \E k \in 1 .. index[q].length :
              m = off[q - 1] + k /\ Timeline[m] = data_files[q].index[k]
      BY <2>1
    <2>3. PICK k \in 1 .. index[q].length : m = off[q - 1] + k /\ Timeline[m] = data_files[q].index[k]
      BY <2>2
    <2>4. r \in Kept(q) /\ r \in Kept(n)
      BY <1>2, <1>3, <2>3 DEF Kept
    <2>5. q = n
      <3>1. q \in DOMAIN index /\ n \in DOMAIN index
        BY FilesTyped DEF Regular
      <3> QED BY <2>4, <3>1 DEF Regular, ReportsRegular
    <2>6. k \in 1 .. Len(data_files[n].index)
      <3>1. index[n].length \in Nat /\ index[n].length <= Len(data_files[n].index)
            /\ Len(data_files[n].index) \in Nat
        BY AllKept, FilesTyped DEF Regular
      <3> QED BY <2>5, <3>1
    <2>7. k <= e
      BY <1>3, <2>3, <2>5, <2>6 DEF LastStepIs
    <2>8. k \in Int /\ e \in Int
      BY <2>6
    <2> QED BY <1>1, <2>3, <2>5, <2>7, <2>8
  <1>4. Latest(place)
    BY <1>1, <1>2, <1>3
  <1>5. \A p \in DOMAIN Timeline : Latest(p) => p = place
    <2> SUFFICES ASSUME NEW p \in DOMAIN Timeline, Latest(p) PROVE p = place
      OBVIOUS
    <2>1. p <= place /\ place <= p
      BY <1>1, <1>4
    <2>2. p \in Int /\ place \in Int
      BY <1>1
    <2> HIDE DEF place
    <2> QED BY <2>1, <2>2
  <1>6. LastOf(r) = CHOOSE p \in DOMAIN Timeline : Latest(p)
    BY DEF LastOf
  <1> HIDE DEF Latest, place
  <1>7. LastOf(r) = place
    BY <1>1, <1>4, <1>5, <1>6
  <1> QED BY <1>1, <1>7 DEF place

(* rd_sum_data_iget_report_end finds the file, and the step in it.         *)
LEMMA ReportEndFinds ==
    ASSUME Regular, NEW off, Offsets(off, KeptSteps, FileCount),
           NEW n \in 1 .. FileCount, NEW r \in FirstKept(n) .. LastKept(n),
           NEW e \in 1 .. index[n].length, LastStepIs(data_files[n], r, e)
    PROVE  ReportEnd(r) = (off[n - 1] + e) - 1
  <1> DEFINE nodes == {q \in DOMAIN index : index[q].report1 <= r /\ r <= index[q].report2}
             first == CHOOSE m \in nodes : \A k \in nodes : m <= k
  <1>1. /\ DOMAIN index = 1 .. FileCount /\ Len(index) = FileCount /\ FileCount \in Nat
        /\ DOMAIN data_files = 1 .. FileCount /\ ChainOK
    BY FilesTyped DEF Regular
  <1>2. ASSUME NEW q \in 1 .. FileCount
        PROVE  index[q].report1 = FirstKept(q) /\ index[q].report2 = LastKept(q)
    <2> DEFINE length == IF q = Len(data_files) THEN Len(data_files[q].index)
                         ELSE LengthBefore(data_files[q], DataStart(data_files[q + 1]))
    <2>1. index[q].length = length /\ index[q].length # 0
      <3>1. index[q].length = length
        BY <1>1, NodeLength
      <3>2. index[q].length # 0
        BY AllKept
      <3> QED BY <3>1, <3>2
    <2>2. PICK g \in Garbage : index[q] = IndexNode(data_files, q, g)
      BY <1>1 DEF ChainOK
    <2>3. /\ index[q].report1 = FirstReport(data_files[q])
          /\ index[q].report2 = IF q = Len(data_files) THEN LastReport(data_files[q])
                                ELSE ReportBefore(data_files[q], DataStart(data_files[q + 1]))
      BY <2>1, <2>2 DEF IndexNode
    <2>4. FirstReport(data_files[q]) = FirstKept(q)
      BY LastReportIs
    <2>5. CASE q = Len(data_files)
      BY <2>3, <2>4, <2>5, LastReportIs DEF FileCount
    <2>6. CASE q # Len(data_files)
      BY <2>1, <2>3, <2>4, <2>6 DEF ReportBefore, LastKept, ReportOf
    <2> QED BY <2>5, <2>6
  <1>3. ASSUME NEW q \in nodes PROVE q = n
    <2>1. q \in 1 .. FileCount /\ FirstKept(q) <= r /\ r <= LastKept(q)
      BY <1>1, <1>2
    <2>2. r \in Nat
      BY KeptReports
    <2>3. r \in FirstKept(q) .. LastKept(q)
      BY <2>1, <2>2, KeptReports
    <2>4. r \in Kept(q) /\ r \in Kept(n)
      BY <2>1, <2>3, KeptReports
    <2> QED BY <1>1, <2>1, <2>4 DEF Regular, ReportsRegular
  <1>4. n \in nodes
    <2>1. FirstKept(n) <= r /\ r <= LastKept(n)
      BY KeptReports
    <2> QED BY <1>1, <1>2, <2>1
  <1>5. nodes # {} /\ first = n
    <2> HIDE DEF nodes
    <2>1. n <= n
      BY <1>1
    <2> QED BY <1>3, <1>4, <2>1
  <1> DEFINE End(m) == IF RangeEnd(data_files[m], r) >= index[m].length
                       THEN index[m].length - 1 ELSE RangeEnd(data_files[m], r)
             Found(m) == IF End(m) < 0 THEN Undefined
                         ELSE IF ReportAt(data_files[m], End(m)) # r THEN Throws
                         ELSE End(m) + Offset(m)
             range == RangeEnd(data_files[n], r)
             end == End(n)
  <1>12. ReportEnd(r) = IF nodes = {} THEN Throws ELSE Found(first)
    BY DEF ReportEnd
  <1>6. ReportEnd(r) = IF end < 0 THEN Undefined
                       ELSE IF ReportAt(data_files[n], end) # r THEN Throws
                       ELSE end + Offset(n)
    <2> HIDE DEF nodes, first, End
    <2> QED BY <1>5, <1>12
  <1>7. range = e - 1 /\ data_files[n].index[e].report = r /\ e \in 1 .. Len(data_files[n].index)
    BY DEF LastStepIs
  <1>8. end = e - 1 /\ ~(end < 0) /\ end + 1 = e
    <2>1. index[n].length \in Nat /\ e <= index[n].length /\ e \in Nat /\ e > 0
      BY AllKept
    <2> DEFINE l == index[n].length
               x == RangeEnd(data_files[n], r)
    <2>2. l \in Nat /\ e <= l /\ e \in Nat /\ e > 0 /\ x = e - 1
      BY <1>7, <2>1
    <2>3. end = IF x >= l THEN l - 1 ELSE x
      OBVIOUS
    <2> HIDE DEF l, x, end
    <2> QED BY <2>2, <2>3
  <1>9. ReportAt(data_files[n], end) = r
    <2>1. DOMAIN data_files[n].index = 1 .. Len(data_files[n].index)
      BY <1>1, FilesTyped
    <2> HIDE DEF end
    <2> QED BY <1>7, <1>8, <2>1 DEF ReportAt
  <1>10. Offset(n) = off[n - 1] /\ off[n - 1] \in Nat
    <2>1. n \in 1 .. FileCount + 1
      BY <1>1
    <2> QED BY <1>1, <2>1, OffsetCounts
  <1> HIDE DEF end, nodes, first
  <1>11. ReportEnd(r) = end + off[n - 1]
    BY <1>6, <1>8, <1>9, <1>10
  <1> QED BY <1>8, <1>10, <1>11

(* rd_sum_data_iget_report_end and rd_sum_data_alloc_time_vector: where    *)
(* report steps are regular, each ends where the timeline has its last     *)
(* step, the vector of report times has that time at its place, and it     *)
(* fits what is allocated for it.                                          *)
THEOREM ReportsAreFound == Spec => []ReportsWhenRegular
  <1>1. IInv => ReportsWhenRegular
    <2> SUFFICES ASSUME Regular
                 PROVE  /\ Len(ReportTimes) <= ReportTimesSize
                        /\ \A r \in TimelineReports :
                               /\ ReportEnd(r) = LastOf(r) - 1
                               /\ ReportTimes[r - Timeline[1].report + 1] = Timeline[LastOf(r)].time
      BY DEF IInv, ReportsWhenRegular, Regular
    <2> DEFINE N == FileCount
    <2>1. /\ N \in Nat /\ N > 0 /\ 1 \in 1 .. N /\ N \in 1 .. N
          /\ KeptSteps \in [1 .. N -> Seq(TimeStep)]
      BY AllKept, KeptInOrder DEF Regular
    <2>2. PICK off : Offsets(off, KeptSteps, N)
      BY <2>1, OffsetsExist
    <2>3. Len(ReportTimes) <= ReportTimesSize
      <3>1. Head(data_files) = data_files[1] /\ Last(data_files) = data_files[N]
        <4>1. data_files \in Seq(SummaryFile) /\ DOMAIN data_files = 1 .. N
          BY FilesTyped DEF Regular, ChainOK, FilesOK
        <4>2. data_files # <<>>
          BY <2>1, <4>1
        <4> QED BY <4>1, <4>2 DEF Last, FileCount
      <3>2. FirstReport(data_files[1]) = FirstKept(1) /\ LastReport(data_files[N]) = LastKept(N)
        BY <2>1, LastReportIs
      <3>3. FirstKept(1) \in Nat /\ LastKept(N) \in Nat
        BY <2>1, KeptReports
      <3>4. ReportTimesSize = 1 + LastKept(N) - FirstKept(1)
        BY <3>1, <3>2 DEF ReportTimesSize
      <3>5. Len(ReportTimes) = LastKept(N) - FirstKept(1) + 1
        BY ReportTimesAre
      <3> QED BY <3>3, <3>4, <3>5
    <2>4. Timeline[1].report = FirstKept(1)
      <3>1. 1 - 1 = 0 /\ off[0] = 0
        BY <2>2 DEF Offsets
      <3>2. 1 \in 1 .. index[1].length
        BY <2>1, AllKept
      <3>3. Timeline[off[1 - 1] + 1] = data_files[1].index[1]
        BY <2>1, <2>2, <3>2, PlaceOfStep
      <3> QED BY <2>2, <3>1, <3>3 DEF FirstKept, ReportOf
    <2>5. Located(off)
      BY <2>2, PlaceOfStep
    <2>6. ASSUME NEW r \in TimelineReports
          PROVE  /\ ReportEnd(r) = LastOf(r) - 1
                 /\ ReportTimes[r - Timeline[1].report + 1] = Timeline[LastOf(r)].time
      <3>1. PICK p \in DOMAIN Timeline : Timeline[p].report = r
        BY DEF TimelineReports
      <3>2. PICK n \in 1 .. N : \E k \in 1 .. index[n].length :
                p = off[n - 1] + k /\ Timeline[p] = data_files[n].index[k]
        BY <2>5 DEF Located
      <3>3. r \in Kept(n)
        BY <3>1, <3>2 DEF Kept
      <3>4. r \in FirstKept(n) .. LastKept(n)
        BY <3>3, KeptReports
      <3>5. PICK e \in 1 .. index[n].length : LastStepIs(data_files[n], r, e)
        BY <3>4, EndIsKept
      <3>6. LastOf(r) = off[n - 1] + e /\ Timeline[LastOf(r)] = data_files[n].index[e]
        BY <2>2, <3>5, LastOfReport
      <3>7. ReportEnd(r) = (off[n - 1] + e) - 1
        BY <2>2, <3>4, <3>5, ReportEndFinds
      <3>8. ReportTimes[r - FirstKept(1) + 1] = SimTime(data_files[n], RangeEnd(data_files[n], r))
        BY <3>4, ReportTimesAre
      <3>9. SimTime(data_files[n], RangeEnd(data_files[n], r)) = data_files[n].index[e].time
        <4>1. RangeEnd(data_files[n], r) = e - 1 /\ e \in Int
          BY <3>5 DEF LastStepIs
        <4>2. RangeEnd(data_files[n], r) + 1 = e
          BY <4>1
        <4> QED BY <4>2 DEF SimTime
      <3>10. ReportEnd(r) = LastOf(r) - 1
        <4> DEFINE place == off[n - 1] + e
        <4>1. ReportEnd(r) = place - 1 /\ LastOf(r) = place
          BY <3>6, <3>7
        <4> HIDE DEF place
        <4> QED BY <4>1
      <3>11. ReportTimes[r - Timeline[1].report + 1] = Timeline[LastOf(r)].time
        BY <2>4, <3>6, <3>8, <3>9
      <3> QED BY <3>10, <3>11
    <2> QED BY <2>3, <2>6
  <1> QED BY InvariantHolds, <1>1, PTL

-----------------------------------------------------------------------------
(* Names of files.                                                         *)

HeaderWord(fmt)  == IF fmt THEN "FSMSPEC" ELSE "SMSPEC"
UnifiedWord(fmt) == IF fmt THEN "FUNSMRY" ELSE "UNSMRY"
SingleWord(fmt)  == IF fmt THEN "A" ELSE "S"

LEMMA WordsOfTypes ==
    ASSUME NEW fmt \in BOOLEAN
    PROVE  /\ WordFor("SUMMARY_HEADER", fmt) = HeaderWord(fmt)
           /\ WordFor("UNIFIED_SUMMARY", fmt) = UnifiedWord(fmt)
           /\ WordFor("SUMMARY", fmt) = SingleWord(fmt)
  <1>1. ASSUME NEW w \in DOMAIN Letters, Letters[w] = <<"SUMMARY", fmt>>
        PROVE  w = SingleWord(fmt)
    <2>1. w \in {"S", "A"}
      BY <1>1 DEF Letters
    <2>2. Letters["S"][2] = FALSE /\ Letters["A"][2] = TRUE /\ Letters[w][2] = fmt
      BY <1>1 DEF Letters
    <2> QED BY <2>1, <2>2 DEF SingleWord
  <1>2. ASSUME NEW w \in DOMAIN Words
        PROVE  /\ Words[w] = <<"SUMMARY_HEADER", fmt>> => w = HeaderWord(fmt)
               /\ Words[w] = <<"UNIFIED_SUMMARY", fmt>> => w = UnifiedWord(fmt)
    <2>1. ASSUME Words[w] = <<"SUMMARY_HEADER", fmt>> PROVE w = HeaderWord(fmt)
      <3>1. w \in {"SMSPEC", "FSMSPEC"}
        BY <2>1 DEF Words
      <3>2. Words["SMSPEC"][2] = FALSE /\ Words["FSMSPEC"][2] = TRUE /\ Words[w][2] = fmt
        BY <2>1 DEF Words
      <3> QED BY <3>1, <3>2 DEF HeaderWord
    <2>2. ASSUME Words[w] = <<"UNIFIED_SUMMARY", fmt>> PROVE w = UnifiedWord(fmt)
      <3>1. w \in {"UNSMRY", "FUNSMRY"}
        BY <2>2 DEF Words
      <3>2. Words["UNSMRY"][2] = FALSE /\ Words["FUNSMRY"][2] = TRUE /\ Words[w][2] = fmt
        BY <2>2 DEF Words
      <3> QED BY <3>1, <3>2 DEF UnifiedWord
    <2> QED BY <2>1, <2>2
  <1>3. SingleWord(fmt) \in DOMAIN Letters /\ Letters[SingleWord(fmt)] = <<"SUMMARY", fmt>>
    BY DEF Letters, SingleWord
  <1>4. /\ HeaderWord(fmt) \in DOMAIN Words /\ Words[HeaderWord(fmt)] = <<"SUMMARY_HEADER", fmt>>
        /\ UnifiedWord(fmt) \in DOMAIN Words /\ Words[UnifiedWord(fmt)] = <<"UNIFIED_SUMMARY", fmt>>
    BY DEF Words, HeaderWord, UnifiedWord
  <1>5. WordFor("SUMMARY", fmt) = SingleWord(fmt)
    BY <1>1, <1>3 DEF WordFor, Numbered
  <1>6. /\ WordFor("SUMMARY_HEADER", fmt) = HeaderWord(fmt)
        /\ WordFor("UNIFIED_SUMMARY", fmt) = UnifiedWord(fmt)
    BY <1>2, <1>4 DEF WordFor, Numbered
  <1> QED BY <1>5, <1>6

(* What the extension of a name tells.                                     *)
Tells(name, type, fmt, nr) ==
    LET told == rd_inspect_extension(name)
    IN  told.type = type /\ told.fmt = fmt /\ told.nr = nr

LEMMA TypesOfWords ==
    ASSUME NEW name, NEW fmt \in BOOLEAN
    PROVE  /\ name.word = HeaderWord(fmt) =>
                  Tells(name, "SUMMARY_HEADER", fmt, -1)
           /\ name.word = UnifiedWord(fmt) =>
                  Tells(name, "UNIFIED_SUMMARY", fmt, -1)
           /\ name.word = SingleWord(fmt) /\ name.digits > 0 =>
                  Tells(name, "SUMMARY", fmt, name.nr)
  <1>1. /\ HeaderWord(fmt) \in DOMAIN Words /\ Words[HeaderWord(fmt)] = <<"SUMMARY_HEADER", fmt>>
        /\ UnifiedWord(fmt) \in DOMAIN Words /\ Words[UnifiedWord(fmt)] = <<"UNIFIED_SUMMARY", fmt>>
        /\ HeaderWord(fmt) \notin DOMAIN Letters /\ UnifiedWord(fmt) \notin DOMAIN Letters
    BY DEF Words, Letters, HeaderWord, UnifiedWord
  <1>2. SingleWord(fmt) \in DOMAIN Letters /\ Letters[SingleWord(fmt)] = <<"SUMMARY", fmt>>
    BY DEF Letters, SingleWord
  <1>3. SingleWord(fmt) \notin DOMAIN Words
    BY DEF Words, SingleWord
  <1>4. name.word = HeaderWord(fmt) =>
            Tells(name, "SUMMARY_HEADER", fmt, -1)
    BY <1>1 DEF rd_inspect_extension, Tells
  <1>5. name.word = UnifiedWord(fmt) =>
            Tells(name, "UNIFIED_SUMMARY", fmt, -1)
    BY <1>1 DEF rd_inspect_extension, Tells
  <1>6. name.word = SingleWord(fmt) /\ name.digits > 0 =>
            Tells(name, "SUMMARY", fmt, name.nr)
    BY <1>2, <1>3 DEF rd_inspect_extension, Tells
  <1> QED BY <1>4, <1>5, <1>6

LEMMA SummaryNames ==
    ASSUME NEW base, NEW fmt \in BOOLEAN, NEW nr
    PROVE  /\ filename(base, "SUMMARY_HEADER", fmt, nr) =
                  [base |-> base, word |-> HeaderWord(fmt), letters |-> LettersOf(base),
                   nr |-> -1, digits |-> 0]
           /\ filename(base, "UNIFIED_SUMMARY", fmt, nr) =
                  [base |-> base, word |-> UnifiedWord(fmt), letters |-> LettersOf(base),
                   nr |-> -1, digits |-> 0]
           /\ filename(base, "SUMMARY", fmt, nr) =
                  [base |-> base, word |-> SingleWord(fmt), letters |-> LettersOf(base),
                   nr |-> nr, digits |-> IF nr < 10000 THEN 4 ELSE 5]
  BY WordsOfTypes DEF filename, Numbered

LEMMA TypesOfNames ==
    ASSUME NEW base, NEW fmt \in BOOLEAN, NEW nr
    PROVE  /\ Tells(filename(base, "SUMMARY_HEADER", fmt, nr), "SUMMARY_HEADER", fmt, -1)
           /\ Tells(filename(base, "UNIFIED_SUMMARY", fmt, nr), "UNIFIED_SUMMARY", fmt, -1)
           /\ Tells(filename(base, "SUMMARY", fmt, nr), "SUMMARY", fmt, nr)
  <1> DEFINE header  == filename(base, "SUMMARY_HEADER", fmt, nr)
             unified == filename(base, "UNIFIED_SUMMARY", fmt, nr)
             single  == filename(base, "SUMMARY", fmt, nr)
  <1>1. /\ header.word = HeaderWord(fmt) /\ unified.word = UnifiedWord(fmt)
        /\ single.word = SingleWord(fmt) /\ single.digits > 0 /\ single.nr = nr
    BY SummaryNames
  <1> HIDE DEF header, unified, single
  <1>2. /\ Tells(header, "SUMMARY_HEADER", fmt, -1)
        /\ Tells(unified, "UNIFIED_SUMMARY", fmt, -1)
        /\ Tells(single, "SUMMARY", fmt, single.nr)
    BY <1>1, TypesOfWords
  <1> QED BY <1>1, <1>2 DEF header, unified, single

-----------------------------------------------------------------------------
(* Lists of files.                                                         *)

LEMMA SortedLists ==
    ASSUME NEW names, IsFiniteSet(names), NEW list \in SortedByReport(names)
    PROVE  /\ DOMAIN list = 1 .. Len(list) /\ Len(list) \in Nat
           /\ ToSet(list) = names
           /\ \A k \in DOMAIN list : list[k] \in names
           /\ \A k \in 2 .. Len(list) : list[k - 1].nr <= list[k].nr
  <1> DEFINE N == Cardinality(names)
  <1>1. N \in Nat /\ IsFiniteSet(1 .. N) /\ Cardinality(1 .. N) = N
    BY FS_CardinalityType, FS_Interval
  <1>2. list \in [1 .. N -> names] /\ \A i, j \in 1 .. N : i # j => list[i] # list[j]
    BY DEF SortedByReport, SetToSeqs
  <1> HIDE DEF N
  <1>3. Len(list) = N /\ DOMAIN list = 1 .. N
    BY <1>1, <1>2
  <1>4. list \in Injection(1 .. N, names)
    BY <1>2 DEF Injection, IsInjective
  <1>5. list \in Surjection(1 .. N, names)
    BY <1>1, <1>4, FS_Injection DEF N
  <1>6. ToSet(list) = names
    BY <1>2, <1>3, <1>5 DEF ToSet, Surjection
  <1> QED BY <1>1, <1>2, <1>3, <1>6 DEF SortedByReport

(* The single files of a case, and of those whose name begins like it.     *)
Singles(base, fmt) ==
    {name \in DOMAIN dir : numeric_extension_predicate(name, base, SingleWord(fmt))}

LEMMA SinglesListed ==
    ASSUME NEW base, NEW fmt \in BOOLEAN
    PROVE  rd_select_filelist(base, "SUMMARY", fmt) = SortedByReport(Singles(base, fmt))
  BY WordsOfTypes DEF rd_select_filelist, Numbered, Singles

LEMMA TypeOfSingle ==
    ASSUME NEW base, NEW fmt \in BOOLEAN, NEW name \in Singles(base, fmt)
    PROVE  /\ Tells(name, "SUMMARY", fmt, name.nr)
           /\ name \in DOMAIN dir /\ BeginsWith(base, name)
  <1>1. name.word = SingleWord(fmt) /\ name.digits > 0
    BY DEF Singles, numeric_extension_predicate
  <1> QED BY <1>1, TypesOfWords DEF Singles, numeric_extension_predicate

LEMMA FormatsBoolean ==
    ASSUME NEW name
    PROVE  rd_inspect_extension(name).fmt \in BOOLEAN
  <1>1. /\ \A w \in DOMAIN Words : Words[w][2] \in BOOLEAN
        /\ \A w \in DOMAIN Letters : Letters[w][2] \in BOOLEAN
        /\ Other.fmt \in BOOLEAN
        /\ DOMAIN Words \cap DOMAIN Letters = {}
    <2>1. \A w \in DOMAIN Words : Words[w][2] = TRUE \/ Words[w][2] = FALSE
      BY DEF Words
    <2>2. \A w \in DOMAIN Letters : Letters[w][2] = TRUE \/ Letters[w][2] = FALSE
      BY DEF Letters
    <2>3. Other.fmt \in BOOLEAN
      BY DEF Other
    <2>4. DOMAIN Words \cap DOMAIN Letters = {}
      BY DEF Words, Letters
    <2> QED BY <2>1, <2>2, <2>3, <2>4
  <1>2. CASE name.word \in DOMAIN Words
    BY <1>1, <1>2 DEF rd_inspect_extension
  <1>3. CASE name.word \notin DOMAIN Words /\ name.word \in DOMAIN Letters /\ name.digits > 0
    BY <1>1, <1>3 DEF rd_inspect_extension
  <1>4. CASE name.word \notin DOMAIN Words /\ ~(name.word \in DOMAIN Letters /\ name.digits > 0)
    BY <1>1, <1>4 DEF rd_inspect_extension
  <1> QED BY <1>2, <1>3, <1>4

LEMMA HeaderFormatBoolean ==
    ASSUME NEW base, NEW asked, asked.fmt \in BOOLEAN
    PROVE  HeaderFormat(base, asked) \in BOOLEAN
  <1> DEFINE formatted == filename(base, "SUMMARY_HEADER", TRUE, -1)
             unformatted == filename(base, "SUMMARY_HEADER", FALSE, -1)
  <1>1. HeaderFormat(base, asked) =
            IF asked.type \notin {"OTHER", "DATA"} THEN asked.fmt
            ELSE IF {formatted, unformatted} \subseteq DOMAIN dir THEN Newer(unformatted, formatted)
            ELSE formatted \in DOMAIN dir
    BY DEF HeaderFormat
  <1>2. Newer(unformatted, formatted) \in BOOLEAN
    BY DEF Newer
  <1> HIDE DEF formatted, unformatted
  <1>3. CASE asked.type \notin {"OTHER", "DATA"}
    BY <1>1, <1>3
  <1>4. CASE asked.type \in {"OTHER", "DATA"} /\ {formatted, unformatted} \subseteq DOMAIN dir
    BY <1>1, <1>2, <1>4
  <1>5. CASE asked.type \in {"OTHER", "DATA"} /\ ~({formatted, unformatted} \subseteq DOMAIN dir)
    <2>1. HeaderFormat(base, asked) = (formatted \in DOMAIN dir)
      BY <1>1, <1>5
    <2> QED BY <2>1
  <1> QED BY <1>3, <1>4, <1>5

-----------------------------------------------------------------------------
(* A search.                                                               *)

(* The files there are, and the last write of each case.                   *)
DirShape ==
    /\ IsFiniteSet(DOMAIN dir) /\ clock \in Nat
    /\ \A name \in DOMAIN dir :
           /\ dir[name].time \in Nat
           /\ rd_inspect_extension(name).type # "OTHER" =>
                  dir[name].ascii = rd_inspect_extension(name).fmt

LatestShape ==
    \A base \in DOMAIN latest :
        /\ base \in Bases
        /\ latest[base].fmt \in BOOLEAN /\ latest[base].unified \in BOOLEAN
        /\ latest[base].time \in Nat /\ latest[base].reports \in ReportSets
        /\ latest[base].names = WrittenNames(base, latest[base].fmt, latest[base].unified,
                                             latest[base].reports)

(* What a search for data may find: one unified file, or single ones.      *)
LEMMA DataFound ==
    ASSUME DirShape, NEW base, NEW fmt \in BOOLEAN, NEW asked,
           NEW list \in DataFilesAsked(base, fmt, asked), list # <<>>
    PROVE  LET unified == filename(base, "UNIFIED_SUMMARY", fmt, -1)
           IN  \/ list = <<unified>> /\ unified \in DOMAIN dir /\ asked \notin Numbered
               \/ list \in SortedByReport(Singles(base, fmt)) /\ asked # "UNIFIED_SUMMARY"
  <1> DEFINE unified == filename(base, "UNIFIED_SUMMARY", fmt, -1)
             separate == rd_select_filelist(base, "SUMMARY", fmt)
  <1>1. separate = SortedByReport(Singles(base, fmt))
    BY SinglesListed
  <1> HIDE DEF unified, separate
  <1>2. CASE asked \in {"UNIFIED_SUMMARY", "UNIFIED_RESTART"}
    <2>1. list = IF unified \in DOMAIN dir THEN <<unified>> ELSE <<>>
      BY <1>2 DEF DataFilesAsked, Numbered, unified
    <2> QED BY <1>2, <2>1 DEF unified, Numbered
  <1>3. CASE asked \in Numbered
    <2>1. list \in separate
      BY <1>3 DEF DataFilesAsked, Numbered, separate
    <2> QED BY <1>1, <1>3, <2>1 DEF Numbered
  <1>4. CASE asked \notin {"UNIFIED_SUMMARY", "UNIFIED_RESTART"} \cup Numbered
    <2>1. PICK files \in separate : list = DataFiles(files, unified)
      BY <1>4 DEF DataFilesAsked, separate, unified
    <2>2. list = files \/ (list = <<unified>> /\ unified \in DOMAIN dir)
      BY <2>1 DEF DataFiles
    <2> QED BY <1>1, <1>4, <2>1, <2>2 DEF unified
  <1> QED BY <1>2, <1>3, <1>4

(* What a search leaves behind.                                            *)
SearchResult(base, asked, header, list) ==
    last' = [op |-> "search", base |-> base, ext |-> asked, header |-> header, list |-> list]

Searched(base, asked) ==
    LET fmt == HeaderFormat(base, asked)
        header == filename(base, "SUMMARY_HEADER", fmt, -1)
    IN  /\ fmt \in BOOLEAN
        /\ \/ /\ base = NoBase \/ header \notin DOMAIN dir
              /\ SearchResult(base, asked, NoFile, <<>>)
           \/ /\ header \in DOMAIN dir
              /\ \E list \in DataFilesAsked(base, fmt, asked.type) :
                     SearchResult(base, asked, IF list = <<>> THEN NoFile ELSE header, list)

LEMMA SearchEnds ==
    ASSUME NEW given, NEW ext, SearchFiles(given, ext)
    PROVE  UNCHANGED <<dir, latest, clock>> /\ \E base, asked : Searched(base, asked)
  <1> DEFINE base == IF given = NoBase THEN BaseGuess ELSE given
             asked == IF ext = NoExt THEN Other ELSE rd_inspect_extension(ext)
             fmt == HeaderFormat(base, asked)
             header == filename(base, "SUMMARY_HEADER", fmt, -1)
  <1>1. asked.fmt \in BOOLEAN
    BY FormatsBoolean DEF Other
  <1>2. fmt \in BOOLEAN
    <2> HIDE DEF asked, base
    <2> QED BY <1>1, HeaderFormatBoolean
  <1>3. UNCHANGED <<dir, latest, clock>>
    BY DEF SearchFiles
  <1>4. \/ /\ base = NoBase \/ header \notin DOMAIN dir
           /\ SearchResult(base, asked, NoFile, <<>>)
        \/ /\ header \in DOMAIN dir
           /\ \E list \in DataFilesAsked(base, fmt, asked.type) :
                  SearchResult(base, asked, IF list = <<>> THEN NoFile ELSE header, list)
    BY DEF SearchFiles, SearchResult
  <1> HIDE DEF base, asked
  <1>5. Searched(base, asked)
    BY <1>2, <1>4 DEF Searched
  <1> QED BY <1>3, <1>5

LEMMA SearchGoesTogether ==
    ASSUME DirShape, NEW base, NEW asked, Searched(base, asked), dir' = dir
    PROVE  FilesGoTogether'
  <1> DEFINE fmt == HeaderFormat(base, asked)
             header == filename(base, "SUMMARY_HEADER", fmt, -1)
             unified == filename(base, "UNIFIED_SUMMARY", fmt, -1)
  <1>1. SUFFICES ASSUME last'.header # NoFile PROVE FilesGoTogether'
    BY DEF FilesGoTogether
  <1>2. PICK list \in DataFilesAsked(base, fmt, asked.type) :
            /\ fmt \in BOOLEAN /\ header \in DOMAIN dir /\ list # <<>>
            /\ last' = [op |-> "search", base |-> base, ext |-> asked, header |-> header, list |-> list]
    BY <1>1 DEF Searched, SearchResult
  <1> HIDE DEF fmt
  <1>3. header.base = base /\ unified.base = base
    BY DEF filename
  <1>4. Tells(header, "SUMMARY_HEADER", fmt, -1)
    BY <1>2, TypesOfNames
  <1>5. rd_inspect_extension(header).fmt = fmt
    BY <1>4 DEF Tells
  <1>6. asked.type \notin {"OTHER", "DATA"} => fmt = asked.fmt
    BY DEF fmt, HeaderFormat
  <1> HIDE DEF header, unified
  <1>7. CASE list = <<unified>> /\ unified \in DOMAIN dir /\ asked.type \notin Numbered
    <2>1. Tells(unified, "UNIFIED_SUMMARY", fmt, -1)
      BY <1>2, TypesOfNames DEF unified
    <2>2. dir[unified].ascii = fmt
      BY <1>7, <2>1 DEF DirShape, Tells
    <2> QED BY <1>2, <1>3, <1>6, <1>7, <1>5, <2>1, <2>2 DEF FilesGoTogether, Numbered, Tells
  <1>8. CASE list \in SortedByReport(Singles(base, fmt)) /\ asked.type # "UNIFIED_SUMMARY"
    <2>1. IsFiniteSet(Singles(base, fmt))
      BY FS_Subset DEF DirShape, Singles
    <2>2. /\ DOMAIN list = 1 .. Len(list) /\ Len(list) \in Nat
          /\ \A k \in DOMAIN list : list[k] \in Singles(base, fmt)
          /\ \A k \in 2 .. Len(list) : list[k - 1].nr <= list[k].nr
      BY <1>8, <2>1, SortedLists
    <2>3. ASSUME NEW k \in DOMAIN list
          PROVE  /\ Tells(list[k], "SUMMARY", fmt, list[k].nr)
                 /\ dir[list[k]].ascii = fmt
                 /\ list[k].base = base \/ <<base, list[k].base>> \in Beginning
      <3>1. /\ Tells(list[k], "SUMMARY", fmt, list[k].nr)
            /\ list[k] \in DOMAIN dir /\ BeginsWith(base, list[k])
        BY <1>2, <2>2, TypeOfSingle
      <3> QED BY <3>1 DEF DirShape, BeginsWith, Tells
    <2>4. 1 \in DOMAIN list
      BY <1>2, <2>2
    <2>5. \A k \in 2 .. Len(list) : k - 1 \in DOMAIN list /\ k \in DOMAIN list
      BY <2>2
    <2> DEFINE types == [k \in DOMAIN list |-> rd_inspect_extension(list[k])]
    <2>6. /\ DOMAIN types = DOMAIN list /\ Len(types) = Len(list)
          /\ \A k \in DOMAIN types : types[k] = rd_inspect_extension(list[k])
      BY <2>2
    <2>7. \A k \in DOMAIN types :
               types[k].type = "SUMMARY" /\ types[k].fmt = fmt /\ types[k].nr = list[k].nr
      BY <2>3, <2>6 DEF Tells
    <2> HIDE DEF types
    <2>8. \A k \in 2 .. Len(types) : types[k - 1].nr <= types[k].nr
      BY <2>2, <2>5, <2>6, <2>7
    <2>9. /\ \A k \in DOMAIN types : types[k].fmt = fmt /\ dir[list[k]].ascii = fmt
          /\ \A k \in DOMAIN types : list[k].base = base \/ <<base, list[k].base>> \in Beginning
          /\ \A k \in DOMAIN types : types[k].type = "SUMMARY"
          /\ types[1].type = "SUMMARY"
      BY <2>3, <2>4, <2>6, <2>7
    <2>10. FilesGoTogether' <=>
              /\ header \in DOMAIN dir' /\ header.base = base
              /\ \A k \in DOMAIN types : types[k].fmt = rd_inspect_extension(header).fmt
                                         /\ dir'[list[k]].ascii = rd_inspect_extension(header).fmt
              /\ \A k \in DOMAIN types :
                     list[k].base = base \/ <<base, list[k].base>> \in Beginning
              /\ \/ Len(types) = 1 /\ types[1].type = "UNIFIED_SUMMARY"
                 \/ \A k \in DOMAIN types : types[k].type = "SUMMARY"
              /\ \A k \in 2 .. Len(types) : types[k - 1].nr <= types[k].nr
              /\ asked.type \notin {"OTHER", "DATA"} => rd_inspect_extension(header).fmt = asked.fmt
              /\ asked.type = "UNIFIED_SUMMARY" => types[1].type = "UNIFIED_SUMMARY"
              /\ asked.type = "SUMMARY" => types[1].type = "SUMMARY"
      BY <1>1, <1>2 DEF FilesGoTogether, types
    <2> QED BY <1>2, <1>3, <1>6, <1>8, <1>5, <2>8, <2>9, <2>10
  <1> QED BY <1>2, <1>7, <1>8, DataFound DEF unified

(* A case that was written last, and is all there.                         *)
AllThere(base) ==
    LET written == latest[base]
        others == {name \in DOMAIN dir \ written.names : BeginsWith(base, name)}
    IN  /\ written.names \subseteq DOMAIN dir
        /\ \A name \in written.names : dir[name].time = written.time
        /\ \A name \in others : dir[name].time < written.time
        /\ filename(base, "SUMMARY_HEADER", ~written.fmt, -1) \notin DOMAIN dir
        /\ \A nr \in written.reports : nr <= 9999

DataOf(base) == {name \in latest[base].names : rd_inspect_extension(name).type # "SUMMARY_HEADER"}

LEMMA HeaderOfWrite ==
    ASSUME LatestShape, NEW base \in DOMAIN latest, AllThere(base), NEW asked, asked.type = "OTHER"
    PROVE  /\ HeaderFormat(base, asked) = latest[base].fmt
           /\ filename(base, "SUMMARY_HEADER", latest[base].fmt, -1) \in DOMAIN dir
  <1> DEFINE fmt == latest[base].fmt
             formatted == filename(base, "SUMMARY_HEADER", TRUE, -1)
             unformatted == filename(base, "SUMMARY_HEADER", FALSE, -1)
  <1>1. /\ fmt \in BOOLEAN
        /\ latest[base].names = WrittenNames(base, fmt, latest[base].unified, latest[base].reports)
    BY DEF LatestShape
  <1>2. /\ filename(base, "SUMMARY_HEADER", fmt, 0) \in DOMAIN dir
        /\ filename(base, "SUMMARY_HEADER", ~fmt, -1) \notin DOMAIN dir
    BY <1>1 DEF AllThere, WrittenNames
  <1>3. filename(base, "SUMMARY_HEADER", fmt, 0) = filename(base, "SUMMARY_HEADER", fmt, -1)
    BY DEF filename, Numbered
  <1>4. HeaderFormat(base, asked) =
            IF {formatted, unformatted} \subseteq DOMAIN dir THEN Newer(unformatted, formatted)
            ELSE formatted \in DOMAIN dir
    BY DEF HeaderFormat
  <1>5. CASE fmt = TRUE
    <2>1. (~fmt) = FALSE
      BY <1>5
    <2>2. formatted \in DOMAIN dir /\ unformatted \notin DOMAIN dir
      BY <1>2, <1>3, <1>5, <2>1
    <2> HIDE DEF formatted, unformatted
    <2>3. HeaderFormat(base, asked) = TRUE
      BY <1>4, <2>2
    <2> QED BY <1>2, <1>3, <1>5, <2>3
  <1>6. CASE fmt = FALSE
    <2>1. (~fmt) = TRUE
      BY <1>6
    <2>2. formatted \notin DOMAIN dir
      BY <1>2, <1>6, <2>1
    <2> HIDE DEF formatted, unformatted
    <2>3. HeaderFormat(base, asked) = (formatted \in DOMAIN dir)
      BY <1>4, <2>2
    <2>4. HeaderFormat(base, asked) \in BOOLEAN
      BY <2>3
    <2>5. HeaderFormat(base, asked) = FALSE
      BY <2>2, <2>3, <2>4
    <2> QED BY <1>2, <1>3, <1>6, <2>5
  <1> QED BY <1>1, <1>5, <1>6

(* A unified file that was written last is later than all single files.    *)
LEMMA UnifiedIsLoaded ==
    ASSUME DirShape, LatestShape, NEW base \in DOMAIN latest, AllThere(base), latest[base].unified,
           NEW files \in SortedByReport(Singles(base, latest[base].fmt))
    PROVE  LET unified == filename(base, "UNIFIED_SUMMARY", latest[base].fmt, -1)
           IN  DataFiles(files, unified) = <<unified>> /\ DataOf(base) \subseteq {unified}
  <1> DEFINE fmt == latest[base].fmt
             unified == filename(base, "UNIFIED_SUMMARY", fmt, -1)
             header == filename(base, "SUMMARY_HEADER", fmt, 0)
             time == latest[base].time
  <1>1. /\ fmt \in BOOLEAN /\ time \in Nat
        /\ latest[base].names = {header, filename(base, "UNIFIED_SUMMARY", fmt, 0)}
    BY DEF LatestShape, WrittenNames
  <1>2. filename(base, "UNIFIED_SUMMARY", fmt, 0) = unified
    BY DEF filename, Numbered
  <1>3. Tells(header, "SUMMARY_HEADER", fmt, -1) /\ Tells(unified, "UNIFIED_SUMMARY", fmt, -1)
    BY <1>1, TypesOfNames
  <1> HIDE DEF fmt, unified, header, time
  <1>4. unified \in DOMAIN dir /\ dir[unified].time = time
    BY <1>1, <1>2 DEF AllThere, time
  <1>5. ASSUME NEW file \in Singles(base, fmt) PROVE ~Newer(file, unified)
    <2>1. Tells(file, "SUMMARY", fmt, file.nr) /\ file \in DOMAIN dir /\ BeginsWith(base, file)
      BY <1>1, TypeOfSingle
    <2>2. file \notin latest[base].names
      BY <1>1, <1>2, <1>3, <2>1 DEF Tells
    <2>3. dir[file].time < time
      BY <2>1, <2>2 DEF AllThere, time
    <2>4. dir[file].time \in Nat
      BY <2>1 DEF DirShape
    <2> QED BY <1>1, <1>4, <2>3, <2>4 DEF Newer
  <1>6. ToSet(files) = Singles(base, fmt)
    <2>1. IsFiniteSet(Singles(base, fmt))
      BY FS_Subset DEF DirShape, Singles
    <2> QED BY <2>1, SortedLists DEF fmt
  <1>7. DataFiles(files, unified) = <<unified>>
    BY <1>4, <1>5, <1>6 DEF DataFiles
  <1>8. DataOf(base) \subseteq {unified}
    BY <1>1, <1>2, <1>3 DEF DataOf, Tells
  <1> QED BY <1>7, <1>8 DEF unified, fmt

(* Single files that were written last are all listed, and later than a    *)
(* unified one.                                                            *)
LEMMA SinglesAreLoaded ==
    ASSUME DirShape, LatestShape, NEW base \in DOMAIN latest, AllThere(base), ~latest[base].unified,
           NEW files \in SortedByReport(Singles(base, latest[base].fmt))
    PROVE  LET unified == filename(base, "UNIFIED_SUMMARY", latest[base].fmt, -1)
           IN  DataOf(base) \subseteq ToSet(DataFiles(files, unified))
  <1> DEFINE fmt == latest[base].fmt
             unified == filename(base, "UNIFIED_SUMMARY", fmt, -1)
             header == filename(base, "SUMMARY_HEADER", fmt, 0)
             single(nr) == filename(base, "SUMMARY", fmt, nr)
             time == latest[base].time
  <1>1. /\ fmt \in BOOLEAN /\ time \in Nat /\ latest[base].reports \subseteq Nat
        /\ latest[base].names = {header} \cup {single(nr) : nr \in latest[base].reports}
    BY CaseFilesAssumption DEF LatestShape, WrittenNames
  <1>2. Tells(header, "SUMMARY_HEADER", fmt, -1) /\ Tells(unified, "UNIFIED_SUMMARY", fmt, -1)
    BY <1>1, TypesOfNames
  <1>3. \A name \in DataOf(base) : \E nr \in latest[base].reports : name = single(nr)
    BY <1>1, <1>2 DEF DataOf, Tells
  <1>4. ASSUME NEW nr \in latest[base].reports
        PROVE  Tells(single(nr), "SUMMARY", fmt, nr) /\ single(nr) \in Singles(base, fmt)
    <2>1. Tells(single(nr), "SUMMARY", fmt, nr)
      BY <1>1, TypesOfNames
    <2>2. nr < 10000
      BY <1>1 DEF AllThere
    <2>3. /\ single(nr).base = base /\ single(nr).word = SingleWord(fmt)
          /\ single(nr).letters = LettersOf(base) /\ single(nr).digits = 4
      BY <1>1, <2>2, WordsOfTypes DEF filename, Numbered
    <2>4. single(nr) \in DOMAIN dir
      BY <1>1 DEF AllThere
    <2> HIDE DEF single
    <2> QED BY <2>1, <2>3, <2>4 DEF Singles, numeric_extension_predicate, BeginsWith
  <1> HIDE DEF fmt, unified, header, time, single
  <1>5. ToSet(files) = Singles(base, fmt)
    <2>1. IsFiniteSet(Singles(base, fmt))
      BY FS_Subset DEF DirShape, Singles
    <2> QED BY <2>1, SortedLists DEF fmt
  <1>6. DataOf(base) \subseteq ToSet(files)
    BY <1>3, <1>4, <1>5
  <1>7. SUFFICES ASSUME DataOf(base) # {} PROVE DataFiles(files, unified) = files
    BY <1>6 DEF unified, fmt
  <1>8. PICK nr \in latest[base].reports : single(nr) \in DataOf(base)
    BY <1>3, <1>7
  <1>9. ASSUME unified \in DOMAIN dir PROVE Newer(single(nr), unified)
    <2>1. BeginsWith(base, unified)
      BY DEF BeginsWith, unified, filename
    <2>2. unified \notin latest[base].names
      BY <1>1, <1>2, <1>4 DEF Tells
    <2>3. dir[unified].time < time /\ dir[unified].time \in Nat
      BY <1>9, <2>1, <2>2 DEF AllThere, DirShape, time
    <2>4. dir[single(nr)].time = time
      BY <1>1, <1>8 DEF AllThere, DataOf, time
    <2> QED BY <1>1, <2>3, <2>4 DEF Newer
  <1> QED BY <1>6, <1>8, <1>9 DEF DataFiles

LEMMA SearchFindsLastWrite ==
    ASSUME DirShape, LatestShape, NEW base, NEW asked, Searched(base, asked),
           dir' = dir, latest' = latest
    PROVE  LastWriteIsLoaded'
  <1> DEFINE fmt == latest[base].fmt
             unified == filename(base, "UNIFIED_SUMMARY", fmt, -1)
  <1>1. last'.op = "search" /\ last'.base = base /\ last'.ext = asked
    BY DEF Searched, SearchResult
  <1>2. SUFFICES ASSUME base \in DOMAIN latest, asked.type = "OTHER", AllThere(base)
                 PROVE  /\ DataOf(base) \subseteq ToSet(last'.list)
                        /\ latest[base].unified => Len(last'.list) = 1
    BY <1>1 DEF LastWriteIsLoaded, AllThere, DataOf, BeginsWith
  <1>3. /\ HeaderFormat(base, asked) = fmt /\ fmt \in BOOLEAN
        /\ filename(base, "SUMMARY_HEADER", fmt, -1) \in DOMAIN dir
        /\ base # NoBase /\ latest[base].unified \in BOOLEAN
    BY <1>2, HeaderOfWrite, CaseFilesAssumption DEF LatestShape
  <1>4. last'.list \in DataFilesAsked(base, fmt, "OTHER")
    BY <1>2, <1>3 DEF Searched, SearchResult
  <1>5. PICK files \in SortedByReport(Singles(base, fmt)) : last'.list = DataFiles(files, unified)
    BY <1>3, <1>4, SinglesListed DEF DataFilesAsked, Numbered
  <1>6. CASE latest[base].unified
    <2>1. last'.list = <<unified>> /\ DataOf(base) \subseteq {unified}
      BY <1>2, <1>5, <1>6, UnifiedIsLoaded
    <2> HIDE DEF unified
    <2> QED BY <2>1 DEF ToSet
  <1>7. CASE ~latest[base].unified
    BY <1>2, <1>5, <1>7, SinglesAreLoaded
  <1> QED BY <1>3, <1>6, <1>7

-----------------------------------------------------------------------------
(* Steps.                                                                  *)

FilesInv == DirShape /\ LatestShape /\ FilesGoTogether /\ LastWriteIsLoaded

(* Until the next search there is nothing to say.                          *)
LEMMA NothingSearched ==
    ASSUME last' = NoSearch
    PROVE  FilesGoTogether' /\ LastWriteIsLoaded'
  <1>1. last'.op # "search"
    BY DEF NoSearch
  <1> QED BY <1>1 DEF FilesGoTogether, LastWriteIsLoaded

(* The files of a write are named as they are formatted.                   *)
LEMMA WrittenAsNamed ==
    ASSUME NEW base, NEW fmt \in BOOLEAN, NEW unified \in BOOLEAN, NEW reports \in ReportSets
    PROVE  LET names == WrittenNames(base, fmt, unified, reports)
           IN  /\ IsFiniteSet(names)
               /\ \A name \in names : rd_inspect_extension(name).fmt = fmt
  <1> DEFINE names == WrittenNames(base, fmt, unified, reports)
             header == filename(base, "SUMMARY_HEADER", fmt, 0)
             single == [nr \in reports |-> filename(base, "SUMMARY", fmt, nr)]
             data == IF unified THEN {filename(base, "UNIFIED_SUMMARY", fmt, 0)}
                     ELSE {single[nr] : nr \in reports}
  <1>1. names = {header} \cup data
    BY DEF WrittenNames
  <1>2. IsFiniteSet(reports)
    BY CaseFilesAssumption
  <1>3. IsFiniteSet(data)
    <2>1. single \in Surjection(reports, {single[nr] : nr \in reports})
      BY DEF Surjection
    <2>2. IsFiniteSet({single[nr] : nr \in reports})
      <3> HIDE DEF single
      <3> QED BY <1>2, <2>1, FS_Surjection
    <2>3. IsFiniteSet({filename(base, "UNIFIED_SUMMARY", fmt, 0)})
      BY FS_Singleton
    <2> QED BY <2>2, <2>3
  <1>4. IsFiniteSet({header})
    BY FS_Singleton
  <1>5. IsFiniteSet({header} \cup data)
    <2> HIDE DEF header, data
    <2> QED BY <1>3, <1>4, FS_Union
  <1>6. rd_inspect_extension(header).fmt = fmt
    BY TypesOfNames DEF Tells
  <1>7. rd_inspect_extension(filename(base, "UNIFIED_SUMMARY", fmt, 0)).fmt = fmt
    BY TypesOfNames DEF Tells
  <1>8. \A nr \in reports : rd_inspect_extension(single[nr]).fmt = fmt
    BY TypesOfNames DEF Tells
  <1>9. \A name \in data : rd_inspect_extension(name).fmt = fmt
    BY <1>7, <1>8
  <1> HIDE DEF header, data
  <1> QED BY <1>1, <1>5, <1>6, <1>9

LEMMA FileWithNames ==
    ASSUME DirShape, NEW names, IsFiniteSet(names), NEW file, file.time \in Nat, clock' \in Nat,
           \A name \in names :
               rd_inspect_extension(name).type # "OTHER" => file.ascii = rd_inspect_extension(name).fmt,
           dir' = With(names, file)
    PROVE  DirShape'
  <1>1. DOMAIN dir' = DOMAIN dir \cup names
    BY DEF With
  <1>2. IsFiniteSet(DOMAIN dir')
    BY <1>1, FS_Union DEF DirShape
  <1>3. ASSUME NEW name \in DOMAIN dir'
        PROVE  /\ dir'[name].time \in Nat
               /\ rd_inspect_extension(name).type # "OTHER" =>
                      dir'[name].ascii = rd_inspect_extension(name).fmt
    <2>1. CASE name \in names
      BY <1>1, <2>1 DEF With
    <2>2. CASE name \notin names
      <3>1. name \in DOMAIN dir /\ dir'[name] = dir[name]
        BY <1>1, <1>3, <2>2 DEF With
      <3> QED BY <3>1 DEF DirShape
    <2> QED BY <2>1, <2>2
  <1> QED BY <1>2, <1>3 DEF DirShape

LEMMA WriteStep ==
    ASSUME FilesInv, NEW base \in Bases, NEW fmt \in BOOLEAN, NEW unified \in BOOLEAN,
           NEW reports \in ReportSets, NEW time \in Nat, Write(base, fmt, unified, reports, time)
    PROVE  FilesInv'
  <1> DEFINE names == WrittenNames(base, fmt, unified, reports)
             file == [time |-> time, ascii |-> fmt]
  <1>1. /\ clock' = time /\ last' = NoSearch /\ dir' = With(names, file)
        /\ latest' = [b \in DOMAIN latest \cup {base} |->
                         IF b # base THEN latest[b]
                         ELSE [fmt |-> fmt, unified |-> unified, names |-> names, time |-> time,
                               reports |-> reports]]
    BY DEF Write, Changed
  <1>2. IsFiniteSet(names) /\ \A name \in names : rd_inspect_extension(name).fmt = fmt
    BY WrittenAsNamed
  <1> HIDE DEF names
  <1>3. DirShape'
    <2>1. file.time \in Nat /\ file.ascii = fmt
      OBVIOUS
    <2> HIDE DEF file
    <2> QED BY <1>1, <1>2, <2>1, FileWithNames DEF FilesInv
  <1>4. LatestShape'
    <2> SUFFICES ASSUME NEW b \in DOMAIN latest'
                 PROVE  /\ b \in Bases
                        /\ latest'[b].fmt \in BOOLEAN /\ latest'[b].unified \in BOOLEAN
                        /\ latest'[b].time \in Nat /\ latest'[b].reports \in ReportSets
                        /\ latest'[b].names = WrittenNames(b, latest'[b].fmt, latest'[b].unified,
                                                           latest'[b].reports)
      BY DEF LatestShape, WrittenNames, filename, LettersOf
    <2>1. CASE b = base
      BY <1>1, <2>1 DEF names
    <2>2. CASE b # base
      <3>1. b \in DOMAIN latest /\ latest'[b] = latest[b]
        BY <1>1, <2>2
      <3> QED BY <3>1 DEF FilesInv, LatestShape
    <2> QED BY <2>1, <2>2
  <1> QED BY <1>1, <1>3, <1>4, NothingSearched DEF FilesInv

LEMMA StepKeepsFiles == FilesInv /\ [FilesNext]_filesVars => FilesInv'
  <1> SUFFICES ASSUME FilesInv, [FilesNext]_filesVars PROVE FilesInv'
    OBVIOUS
  <1>1. ASSUME NEW base \in Bases, NEW fmt \in BOOLEAN, NEW unified \in BOOLEAN,
               NEW reports \in ReportSets, NEW time \in {clock, clock + 1} \cap 0 .. MaxClock,
               Write(base, fmt, unified, reports, time)
        PROVE  FilesInv'
    <2>1. time \in Nat
      BY CaseFilesAssumption
    <2> QED BY <1>1, <2>1, WriteStep
  <1>2. ASSUME NEW file \in Strangers, Put(file) PROVE FilesInv'
    <2> DEFINE put == [time |-> clock, ascii |-> file.ascii]
    <2>1. last' = NoSearch /\ dir' = With({file.name}, put) /\ UNCHANGED <<clock, latest>>
      BY <1>2 DEF Put, Changed
    <2>2. put.time \in Nat /\ clock' \in Nat /\ put.ascii = file.ascii
      BY <2>1 DEF FilesInv, DirShape
    <2>3. rd_inspect_extension(file.name).type # "OTHER" =>
              put.ascii = rd_inspect_extension(file.name).fmt
      BY <2>2, CaseFilesAssumption
    <2> HIDE DEF put
    <2>4. DirShape'
      <3>1. IsFiniteSet({file.name})
        BY FS_Singleton
      <3> QED BY <2>1, <2>2, <2>3, <3>1, FileWithNames DEF FilesInv
    <2> QED BY <2>1, <2>4, NothingSearched DEF FilesInv, LatestShape
  <1>3. ASSUME NEW name \in DOMAIN dir, Delete(name) PROVE FilesInv'
    <2>1. /\ last' = NoSearch /\ UNCHANGED <<clock, latest>>
          /\ dir' = [n \in DOMAIN dir \ {name} |-> dir[n]]
      BY <1>3 DEF Delete, Changed
    <2>2. DOMAIN dir' \subseteq DOMAIN dir /\ \A n \in DOMAIN dir' : dir'[n] = dir[n]
      BY <2>1
    <2>3. DirShape'
      BY <2>1, <2>2, FS_Subset DEF FilesInv, DirShape
    <2> QED BY <2>1, <2>3, NothingSearched DEF FilesInv, LatestShape
  <1>4. ASSUME NEW given, NEW ext, SearchFiles(given, ext) PROVE FilesInv'
    <2>1. UNCHANGED <<dir, latest, clock>>
      BY <1>4, SearchEnds
    <2>2. PICK base, asked : Searched(base, asked)
      BY <1>4, SearchEnds
    <2>3. FilesGoTogether' /\ LastWriteIsLoaded'
      BY <2>1, <2>2, SearchGoesTogether, SearchFindsLastWrite DEF FilesInv
    <2> QED BY <2>1, <2>3 DEF FilesInv, DirShape, LatestShape
  <1>5. CASE UNCHANGED filesVars
    <2>1. UNCHANGED <<dir, clock, latest, last>>
      BY <1>5 DEF filesVars
    <2>2. DirShape' /\ LatestShape'
      BY <2>1 DEF FilesInv, DirShape, LatestShape
    <2>3. FilesGoTogether'
      BY <2>1 DEF FilesInv, FilesGoTogether
    <2>4. LastWriteIsLoaded'
      BY <2>1 DEF FilesInv, LastWriteIsLoaded
    <2> QED BY <2>2, <2>3, <2>4 DEF FilesInv
  <1> QED BY <1>1, <1>2, <1>3, <1>4, <1>5 DEF FilesNext

LEMMA FilesInvariant == FilesSpec => []FilesInv
  <1>1. FilesInit => FilesInv
    <2> SUFFICES ASSUME FilesInit PROVE FilesInv
      OBVIOUS
    <2>1. DOMAIN dir = {} /\ DOMAIN latest = {} /\ last.op # "search" /\ clock = 0
      BY DEF FilesInit, NoSearch
    <2>2. IsFiniteSet(DOMAIN dir)
      BY <2>1, FS_EmptySet
    <2> QED BY <2>1, <2>2 DEF FilesInv, DirShape, LatestShape, FilesGoTogether, LastWriteIsLoaded
  <1> QED BY <1>1, StepKeepsFiles, PTL DEF FilesSpec

(* rd_sum.cpp:306-428: whatever was written, put and removed before, the   *)
(* header and the data that are found go together.                         *)
THEOREM FoundFilesGoTogether == FilesSpec => []FilesGoTogether
  <1>1. FilesInv => FilesGoTogether
    BY DEF FilesInv
  <1> QED BY <1>1, FilesInvariant, PTL

(* rd_sum.cpp:236-273: a case that was written last and is all there is    *)
(* what is loaded.                                                         *)
THEOREM WrittenLastIsLoaded == FilesSpec => []LastWriteIsLoaded
  <1>1. FilesInv => LastWriteIsLoaded
    BY DEF FilesInv
  <1> QED BY <1>1, FilesInvariant, PTL
=============================================================================
