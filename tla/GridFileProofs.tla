--------------------------- MODULE GridFileProofs ---------------------------
(***************************************************************************)
(* Grids and their files: what the numbering of the active cells leads to  *)
(* and what comes back from a file, for every grid, with any coarse        *)
(* groups, local grids, connections and files, however often it is built,  *)
(* copied, written and loaded.                                             *)
(*                                                                         *)
(* Numbering.  The cells that take an index are counted from 0 without a   *)
(* gap, and no two have the same count.  Each group has at most one such   *)
(* cell, so an index belongs to one plain cell or to one group.  For a     *)
(* group the code goes by its record, which only grows: what it has first  *)
(* is a cell of the group, and its value is that of all its active cells,  *)
(* or the update would have been aborted.                                  *)
(*                                                                         *)
(* Local grids.  What a load or a copy installs depends only on the names  *)
(* and the hosts of the local grids, so the cells of a copy point where    *)
(* those of a grid that is loaded do.                                      *)
(*                                                                         *)
(* Connections.  The links of a file change the lists of their own grids   *)
(* only, and the pair an index stands for is the one that is read back     *)
(* into it: pairs are written in the order of the indices.                 *)
(*                                                                         *)
(* Files.  Every file that was written is the image of a grid that fits    *)
(* what is said above (GridInv), and a load undoes the image.              *)
(***************************************************************************)
EXTENDS GridFile, Induction, FiniteSetTheorems

(* The record of a group holds cells of the group, with a value each.      *)
RecordsKept(cells, values) ==
    \A c \in Groups :
        /\ cells[c] \in Seq(Members(c)) /\ values[c] \in Seq(Range(values[c]))
        /\ Len(values[c]) = Len(cells[c])

IInv == RecordsKept(active_cells, active_values) /\ RoundTrip

(* Every active cell of a group has its value in the record of the group.  *)
ActiveRecorded(act, values) ==
    \A c \in Groups : \A g \in ActiveMembers(act, c) :
        \E n \in 1 .. Len(values[c]) : values[c][n] = act[g]

-----------------------------------------------------------------------------
(* Counting.                                                               *)

Takers(act, kind, n) == {h \in 0 .. n - 1 : TakesIndex(act, kind, h)}

LEMMA TakersFinite ==
    ASSUME NEW act, NEW kind, NEW n \in Nat
    PROVE  /\ IsFiniteSet(Takers(act, kind, n)) /\ Counter(act, kind, n) \in Nat
           /\ Counter(act, kind, n) = Cardinality(Takers(act, kind, n))
  <1>1. Takers(act, kind, n) \in SUBSET (0 .. n - 1)
    BY DEF Takers
  <1>2. IsFiniteSet(Takers(act, kind, n)) /\ Cardinality(Takers(act, kind, n)) \in Nat
    BY <1>1, AscentExists
  <1> QED BY <1>2 DEF Counter, Takers

(* A cell that takes an index is counted for those behind it.              *)
LEMMA CounterStep ==
    ASSUME NEW act, NEW kind, NEW n \in Nat
    PROVE  Counter(act, kind, n + 1) =
               IF TakesIndex(act, kind, n) THEN Counter(act, kind, n) + 1 ELSE Counter(act, kind, n)
  <1>1. \A h : h \in 0 .. (n + 1) - 1 <=> h \in 0 .. n - 1 \/ h = n
    OBVIOUS
  <1>2. n \notin Takers(act, kind, n)
    BY DEF Takers
  <1>3. CASE TakesIndex(act, kind, n)
    <2>1. Takers(act, kind, n + 1) = Takers(act, kind, n) \cup {n}
      BY <1>1, <1>3 DEF Takers
    <2> QED BY <1>2, <1>3, <2>1, TakersFinite, FS_AddElement
  <1>4. CASE ~TakesIndex(act, kind, n)
    <2>1. Takers(act, kind, n + 1) = Takers(act, kind, n)
      BY <1>1, <1>4 DEF Takers
    <2> QED BY <1>4, <2>1, TakersFinite
  <1> QED BY <1>3, <1>4

LEMMA CounterGrows ==
    ASSUME NEW act, NEW kind, NEW m \in Nat, NEW n \in Nat, m < n, TakesIndex(act, kind, m)
    PROVE  Counter(act, kind, m) < Counter(act, kind, n)
  <1>1. m + 1 \in Nat /\ Counter(act, kind, m + 1) = Counter(act, kind, m) + 1
    BY CounterStep
  <1>2. Takers(act, kind, m + 1) \in SUBSET Takers(act, kind, n)
    <2>1. \A h \in 0 .. (m + 1) - 1 : h \in 0 .. n - 1
      OBVIOUS
    <2> QED BY <2>1 DEF Takers
  <1>3. Counter(act, kind, m + 1) <= Counter(act, kind, n)
    BY <1>1, <1>2, TakersFinite, FS_Subset
  <1> QED BY <1>1, <1>3, TakersFinite

(* No two cells take the same index.                                       *)
LEMMA CountersDiffer ==
    ASSUME NEW act, NEW kind, NEW g \in Cells, NEW h \in Cells,
           TakesIndex(act, kind, g), TakesIndex(act, kind, h),
           Counter(act, kind, g) = Counter(act, kind, h)
    PROVE  g = h
  <1>1. g \in Nat /\ h \in Nat /\ Counter(act, kind, g) \in Nat
    BY TakersFinite DEF Cells
  <1>2. ~(g < h) /\ ~(h < g)
    BY <1>1, CounterGrows
  <1> QED BY <1>1, <1>2

(* Every index below the total is taken.                                   *)
LEMMA EveryIndexTaken ==
    ASSUME NEW act, NEW kind,
           NEW a \in 0 .. Cardinality({g \in Cells : TakesIndex(act, kind, g)}) - 1
    PROVE  \E g \in Cells : TakesIndex(act, kind, g) /\ Counter(act, kind, g) = a
  <1> DEFINE Counted(n) == \A b \in 0 .. Counter(act, kind, n) - 1 : \E g \in 0 .. n - 1 :
                             TakesIndex(act, kind, g) /\ Counter(act, kind, g) = b
             T == {n \in 0 .. Size : Counted(n)}
  <1>1. 0 \in T
    <2>1. Takers(act, kind, 0) = {}
      BY DEF Takers
    <2>2. Counter(act, kind, 0) = 0
      BY <2>1, TakersFinite, FS_EmptySet
    <2>3. Counted(0)
      BY <2>2
    <2> HIDE DEF Counted
    <2> QED BY <2>3, GridIndexAssumption
  <1>2. ASSUME NEW n \in 0 .. Size - 1, n \in T PROVE n + 1 \in T
    <2>1. n \in Nat /\ n + 1 \in 0 .. Size
      BY GridIndexAssumption
    <2>2. ASSUME NEW b \in 0 .. Counter(act, kind, n + 1) - 1
          PROVE  \E g \in 0 .. (n + 1) - 1 : TakesIndex(act, kind, g) /\ Counter(act, kind, g) = b
      <3>1. Counter(act, kind, n) \in Nat
        BY <2>1, TakersFinite
      <3>2. CASE b \in 0 .. Counter(act, kind, n) - 1
        <4>1. PICK g \in 0 .. n - 1 : TakesIndex(act, kind, g) /\ Counter(act, kind, g) = b
          BY <1>2, <3>2
        <4>2. g \in 0 .. (n + 1) - 1
          BY <2>1
        <4> QED BY <4>1, <4>2
      <3>3. CASE b \notin 0 .. Counter(act, kind, n) - 1
        <4>1. TakesIndex(act, kind, n) /\ b = Counter(act, kind, n)
          BY <2>1, <3>1, <3>3, CounterStep
        <4>2. n \in 0 .. (n + 1) - 1
          BY <2>1
        <4> QED BY <4>1, <4>2
      <3> QED BY <3>2, <3>3
    <2>3. Counted(n + 1)
      BY <2>2
    <2> HIDE DEF Counted
    <2> QED BY <2>1, <2>3
  <1> HIDE DEF T
  <1>3. 0 .. Size \subseteq T
    BY <1>1, <1>2, UpToInduction, GridIndexAssumption
  <1>4. Counted(Size)
    BY <1>3, GridIndexAssumption DEF T
  <1>5. Counter(act, kind, Size) = Cardinality({g \in Cells : TakesIndex(act, kind, g)})
    BY DEF Counter, Cells
  <1> QED BY <1>4, <1>5 DEF Cells

(* A group has at most one cell that takes an index, and it has the index  *)
(* of that cell.                                                           *)
LEMMA OneTaker ==
    ASSUME NEW act, NEW kind, NEW c \in Groups, NEW g \in Members(c), NEW h \in Members(c),
           TakesIndex(act, kind, g), TakesIndex(act, kind, h)
    PROVE  g = h
  <1>1. /\ g \in Int /\ h \in Int /\ CoarseGroup[g] = c /\ CoarseGroup[h] = c /\ c # NoGroup
        /\ kind \in act[g] /\ kind \in act[h]
    BY GridIndexAssumption DEF Members, Cells, TakesIndex
  <1>2. \A x \in Members(c) : x < h => kind \notin act[x]
    BY <1>1 DEF TakesIndex
  <1>3. \A x \in Members(c) : x < g => kind \notin act[x]
    BY <1>1 DEF TakesIndex
  <1>4. ~(g < h) /\ ~(h < g)
    BY <1>1, <1>2, <1>3
  <1> QED BY <1>1, <1>4

LEMMA IndexOfTaker ==
    ASSUME NEW act, NEW kind, NEW c \in Groups
    PROVE  /\ \A g \in Members(c) :
                  TakesIndex(act, kind, g) => IndexOfGroup(act, kind, c) = Counter(act, kind, g)
           /\ IndexOfGroup(act, kind, c) # -1 =>
                  \E g \in Members(c) : /\ TakesIndex(act, kind, g)
                                        /\ IndexOfGroup(act, kind, c) = Counter(act, kind, g)
  <1> DEFINE takers == {g \in Members(c) : TakesIndex(act, kind, g)}
             taker == CHOOSE g \in takers : TRUE
  <1>1. IndexOfGroup(act, kind, c) = IF takers = {} THEN -1 ELSE Counter(act, kind, taker)
    BY DEF IndexOfGroup
  <1>2. takers # {} => taker \in takers
    OBVIOUS
  <1> HIDE DEF taker
  <1>3. ASSUME NEW g \in Members(c), TakesIndex(act, kind, g)
        PROVE  IndexOfGroup(act, kind, c) = Counter(act, kind, g)
    <2>1. taker = g
      BY <1>2, <1>3, OneTaker
    <2> QED BY <1>1, <1>3, <2>1
  <1> QED BY <1>1, <1>2, <1>3

-----------------------------------------------------------------------------
(* The records.                                                            *)

LEMMA InOrderLists ==
    ASSUME NEW S \in SUBSET Cells
    PROVE  /\ InOrder(S) \in Seq(S) /\ Len(InOrder(S)) = Cardinality(S)
           /\ InOrder(S) \in [1 .. Cardinality(S) -> S] /\ Cardinality(S) \in Nat
           /\ \A x \in S : \E n \in 1 .. Cardinality(S) : InOrder(S)[n] = x
  <1>1. Size \in Nat /\ S \in SUBSET (0 .. Size - 1) /\ S \in SUBSET Int
    BY GridIndexAssumption DEF Cells
  <1>2. IsFiniteSet(S) /\ Cardinality(S) \in Nat /\ \E s : Ascends(s, S)
    BY <1>1, AscentExists
  <1>3. PICK s : Ascends(s, S)
    BY <1>2
  <1> DEFINE Sorted(t) == \A m, n \in DOMAIN t : m < n => t[m] < t[n]
  <1>4. s \in [1 .. Cardinality(S) -> S] /\ Sorted(s)
    BY <1>3 DEF Ascends
  <1>5. InOrder(S) = CHOOSE t \in [1 .. Cardinality(S) -> S] : Sorted(t)
    BY DEF InOrder
  <1>6. InOrder(S) \in [1 .. Cardinality(S) -> S] /\ Sorted(InOrder(S))
    BY <1>4, <1>5
  <1>7. Ascends(InOrder(S), S)
    BY <1>6 DEF Ascends
  <1>8. InOrder(S) \in Seq(S) /\ Len(InOrder(S)) = Cardinality(S)
    BY <1>2, <1>6, WrittenOut
  <1>9. \A x \in S : \E n \in 1 .. Cardinality(S) : InOrder(S)[n] = x
    BY <1>1, <1>2, <1>7, AscentComplete
  <1> QED BY <1>2, <1>6, <1>8, <1>9

(* An update appends to the records of a group its active cells, and their *)
(* values.                                                                 *)
LEMMA Recorded ==
    ASSUME NEW act, NEW cells, NEW values, RecordsKept(cells, values)
    PROVE  /\ RecordsKept(CellsRecorded(cells, act), ValuesRecorded(values, act))
           /\ ActiveRecorded(act, ValuesRecorded(values, act))
  <1> SUFFICES
        ASSUME NEW c \in Groups
        PROVE  /\ CellsRecorded(cells, act)[c] \in Seq(Members(c))
               /\ ValuesRecorded(values, act)[c] \in Seq(Range(ValuesRecorded(values, act)[c]))
               /\ Len(ValuesRecorded(values, act)[c]) = Len(CellsRecorded(cells, act)[c])
               /\ \A g \in ActiveMembers(act, c) :
                     \E n \in 1 .. Len(ValuesRecorded(values, act)[c]) :
                         ValuesRecorded(values, act)[c][n] = act[g]
    BY DEF RecordsKept, ActiveRecorded
  <1> DEFINE S == ActiveMembers(act, c)
             N == Cardinality(S)
             more == [n \in 1 .. N |-> act[InOrder(S)[n]]]
             V == Range(values[c])
             W == Range(more)
  <1>1. S \in SUBSET Cells /\ S \in SUBSET Members(c)
    BY DEF ActiveMembers, Members
  <1>2. /\ InOrder(S) \in Seq(S) /\ Len(InOrder(S)) = N
        /\ InOrder(S) \in [1 .. N -> S] /\ N \in Nat
        /\ \A x \in S : \E n \in 1 .. N : InOrder(S)[n] = x
    BY <1>1, InOrderLists
  <1>3. /\ CellsRecorded(cells, act)[c] = cells[c] \o InOrder(S)
        /\ ValuesRecorded(values, act)[c] = values[c] \o more
    BY DEF CellsRecorded, ValuesRecorded
  <1>4. /\ cells[c] \in Seq(Members(c)) /\ values[c] \in Seq(V)
        /\ Len(values[c]) = Len(cells[c]) /\ Len(values[c]) \in Nat
    BY LenProperties DEF RecordsKept
  <1> HIDE DEF S, N, V
  <1>5. more \in Seq(W) /\ Len(more) = N
    <2>1. more \in [1 .. N -> W]
      BY DEF Range
    <2> HIDE DEF more, W
    <2> QED BY <1>2, <2>1, WrittenOut
  <1>6. /\ InOrder(S) \in Seq(Members(c)) /\ cells[c] \o InOrder(S) \in Seq(Members(c))
        /\ Len(cells[c] \o InOrder(S)) = Len(cells[c]) + N
    <2>1. InOrder(S) \in [1 .. N -> Members(c)]
      BY <1>1, <1>2
    <2>2. InOrder(S) \in Seq(Members(c))
      BY <1>2, <2>1, WrittenOut
    <2> QED BY <1>2, <1>4, <2>2, ConcatProperties
  <1> DEFINE both == values[c] \o more
  <1>7. /\ both \in Seq(V \cup W) /\ Len(both) = Len(values[c]) + N
        /\ \A n \in 1 .. N : both[Len(values[c]) + n] = more[n]
    <2>1. \A A, B : A \subseteq B => Seq(A) \subseteq Seq(B)
      BY SeqDef
    <2> HIDE DEF more, W
    <2>2. values[c] \in Seq(V \cup W) /\ more \in Seq(V \cup W)
      <3>1. V \subseteq V \cup W /\ W \subseteq V \cup W
        OBVIOUS
      <3>2. Seq(V) \subseteq Seq(V \cup W) /\ Seq(W) \subseteq Seq(V \cup W)
        BY <2>1, <3>1, Zenon
      <3> QED BY <1>4, <1>5, <3>2
    <2>3. /\ both \in Seq(V \cup W) /\ Len(both) = Len(values[c]) + Len(more)
          /\ \A n \in 1 .. Len(values[c]) + Len(more) :
                 both[n] = IF n <= Len(values[c]) THEN values[c][n] ELSE more[n - Len(values[c])]
      BY <2>2, ConcatProperties
    <2>4. ASSUME NEW n \in 1 .. N PROVE both[Len(values[c]) + n] = more[n]
      <3>1. /\ Len(values[c]) + n \in 1 .. Len(values[c]) + Len(more)
            /\ ~(Len(values[c]) + n <= Len(values[c]))
            /\ (Len(values[c]) + n) - Len(values[c]) = n
        <4>1. n \in Nat /\ 1 <= n /\ n <= N /\ Len(values[c]) \in Nat
          BY <1>2, <1>4
        <4>2. Len(more) = N
          BY <1>5
        <4> HIDE DEF more, N
        <4> QED BY <4>1, <4>2
      <3> QED BY <2>3, <3>1
    <2> QED BY <1>5, <2>3, <2>4
  <1>8. both \in Seq(Range(both))
    <2>1. both \in [1 .. Len(both) -> Range(both)] /\ Len(both) \in Nat
      BY <1>7, LenProperties DEF Range
    <2> HIDE DEF both
    <2> QED BY <2>1, WrittenOut
  <1>9. ASSUME NEW g \in S PROVE \E n \in 1 .. Len(both) : both[n] = act[g]
    <2>1. PICK n \in 1 .. N : InOrder(S)[n] = g
      BY <1>2
    <2>2. more[n] = act[g]
      BY <2>1
    <2>3. Len(values[c]) + n \in 1 .. Len(both)
      BY <1>2, <1>4, <1>7
    <2> HIDE DEF both, more
    <2> QED BY <1>7, <2>1, <2>2, <2>3
  <1> HIDE DEF more, W
  <1> QED BY <1>3, <1>4, <1>6, <1>7, <1>8, <1>9 DEF S

(* Values that are not mixed are all as the first.                         *)
LEMMA AllAsFirst ==
    ASSUME NEW values, ~Mixed(values), NEW c \in Groups, Len(values[c]) \in Nat,
           NEW n \in 1 .. Len(values[c])
    PROVE  values[c][n] = values[c][1]
  <1> DEFINE N == Len(values[c])
             T == {k \in 0 .. N : k > 0 => values[c][k] = values[c][1]}
  <1>1. 0 \in T
    OBVIOUS
  <1>2. ASSUME NEW k \in 0 .. N - 1, k \in T PROVE k + 1 \in T
    <2>1. CASE k = 0
      BY <2>1
    <2>2. CASE k # 0
      <3>1. k + 1 \in 2 .. N /\ (k + 1) - 1 = k /\ k > 0
        BY <2>2
      <3>2. values[c][k + 1] = values[c][k]
        BY <3>1 DEF Mixed
      <3> QED BY <1>2, <3>1, <3>2
    <2> QED BY <2>1, <2>2
  <1> HIDE DEF T
  <1>3. 0 .. N \subseteq T
    BY <1>1, <1>2, UpToInduction
  <1> QED BY <1>3 DEF T

(* The group of a cell that takes an index has that index.                 *)
LEMMA GroupOfIndex ==
    ASSUME NEW act, NEW values, ~Mixed(values), ActiveRecorded(act, values),
           \A c \in Groups : values[c] \in Seq(Range(values[c])),
           NEW kind, NEW g \in Cells, TakesIndex(act, kind, g), CoarseGroup[g] # NoGroup
    PROVE  /\ CoarseGroup[g] \in Groups /\ GroupIndexes(kind, CoarseGroup[g], values)
           /\ IndexOfGroup(act, kind, CoarseGroup[g]) = Counter(act, kind, g)
  <1> DEFINE c == CoarseGroup[g]
  <1>1. c \in Groups /\ g \in Members(c) /\ kind \in act[g]
    BY GridIndexAssumption DEF Members, TakesIndex
  <1>2. g \in ActiveMembers(act, c)
    BY <1>1 DEF ActiveMembers, Inactive
  <1> HIDE DEF c
  <1>3. PICK n \in 1 .. Len(values[c]) : values[c][n] = act[g]
    BY <1>1, <1>2 DEF ActiveRecorded
  <1>4. values[c] \in Seq(Range(values[c])) /\ Len(values[c]) \in Nat
    BY <1>1, LenProperties
  <1>5. values[c][1] = act[g]
    BY <1>1, <1>3, <1>4, AllAsFirst
  <1>6. values[c] # <<>> /\ Head(values[c]) = values[c][1]
    <2>1. Len(values[c]) # 0
      BY <1>3, <1>4
    <2>2. values[c] # <<>>
      BY <2>1, EmptySeq
    <2> QED BY <1>4, <2>2, HeadTailProperties
  <1>7. GroupIndexes(kind, c, values)
    BY <1>1, <1>5, <1>6 DEF GroupIndexes
  <1>8. IndexOfGroup(act, kind, c) = Counter(act, kind, g)
    BY <1>1, IndexOfTaker
  <1> QED BY <1>1, <1>7, <1>8 DEF c

-----------------------------------------------------------------------------
(* An update of any active values, from any records that are kept.         *)
LEMMA UpdateStep ==
    ASSUME NEW act, NEW cells, NEW values, NEW inverse, RecordsKept(cells, values),
           UpdateIndex(act, cells, values, inverse)
    PROVE  IInv'
  <1> DEFINE cells2 == CellsRecorded(cells, act)
             values2 == ValuesRecorded(values, act)
             gindex == [c \in Groups |-> [kind \in Kinds |-> IndexOfGroup(act, kind, c)]]
             total == [kind \in Kinds |-> Cardinality({g \in Cells : TakesIndex(act, kind, g)})]
             inv(kind) == InverseOf(inverse[kind], act, kind, cells2, values2, gindex, total[kind])
  <1>1. /\ active_cells' = cells2 /\ active_values' = values2 /\ total_active' = total
        /\ index_map' = [kind \in Kinds |-> IndexMapOf(act, kind, values2, gindex)]
        /\ inv_index_map' = [kind \in Kinds |-> inv(kind)]
        /\ status' = IF Mixed(values2) THEN "aborted"
                     ELSE IF StrayWrite(values2, gindex) THEN "undefined" ELSE "ok"
    BY DEF UpdateIndex
  <1> HIDE DEF cells2, values2
  <1>2. /\ RecordsKept(CellsRecorded(cells, act), ValuesRecorded(values, act))
        /\ ActiveRecorded(act, ValuesRecorded(values, act))
    BY Recorded
  <1>3. RecordsKept(cells2, values2)
    BY <1>2 DEF cells2, values2
  <1>4. \A c \in Groups : \A g \in ActiveMembers(act, c) :
            \E n \in 1 .. Len(values2[c]) : values2[c][n] = act[g]
    BY <1>2 DEF values2, ActiveRecorded
  <1>5. \A c \in Groups, kind \in Kinds : gindex[c][kind] = IndexOfGroup(act, kind, c)
    OBVIOUS
  <1>6. RoundTrip'
    <2> SUFFICES ASSUME status' = "ok", NEW kind \in Kinds, NEW a \in 0 .. total[kind] - 1
                 PROVE  index_map'[kind][inv_index_map'[kind][a]] = a
      BY <1>1 DEF RoundTrip, Kinds
    <2>1. ~Mixed(values2) /\ ~StrayWrite(values2, gindex)
      BY <1>1
    <2>2. index_map'[kind] = IndexMapOf(act, kind, values2, gindex) /\ inv_index_map'[kind] = inv(kind)
      BY <1>1
    <2>3. PICK g \in Cells : TakesIndex(act, kind, g) /\ Counter(act, kind, g) = a
      BY EveryIndexTaken
    <2> DEFINE groups == {c \in Groups : GroupIndexes(kind, c, values2) /\ gindex[c][kind] = a}
               plain == {h \in Cells : /\ CoarseGroup[h] = NoGroup /\ kind \in act[h]
                                       /\ Counter(act, kind, h) = a}
               group == CHOOSE c \in groups : TRUE
               cell == CHOOSE h \in plain : TRUE
    <2>4. inv(kind)[a] = IF groups # {} THEN Head(cells2[group])
                         ELSE IF plain # {} THEN cell
                         ELSE Resized(inverse[kind], total[kind])[a]
      BY DEF InverseOf
    <2>5. \A h \in Cells :
             IndexMapOf(act, kind, values2, gindex)[h] =
                 IF CoarseGroup[h] # NoGroup /\ GroupIndexes(kind, CoarseGroup[h], values2)
                 THEN gindex[CoarseGroup[h]][kind]
                 ELSE IF kind \in act[h] THEN Counter(act, kind, h) ELSE -1
      BY DEF IndexMapOf
    <2>6. a \in Nat /\ a # -1
      OBVIOUS
    <2> HIDE DEF gindex, inv, total
    <2>7. CASE CoarseGroup[g] = NoGroup
      <3>1. groups = {}
        <4> SUFFICES ASSUME NEW c \in groups PROVE FALSE
          OBVIOUS
        <4>1. c \in Groups /\ IndexOfGroup(act, kind, c) = a
          BY <1>5
        <4>2. PICK h \in Members(c) : TakesIndex(act, kind, h) /\ Counter(act, kind, h) = a
          BY <2>6, <4>1, IndexOfTaker
        <4>3. h \in Cells /\ CoarseGroup[h] = c
          BY DEF Members
        <4>4. h = g
          BY <2>3, <4>2, <4>3, CountersDiffer
        <4> QED BY <2>7, <4>1, <4>3, <4>4, GridIndexAssumption
      <3>2. g \in plain
        BY <2>3, <2>7 DEF TakesIndex
      <3>3. cell \in plain
        BY <3>2
      <3> HIDE DEF cell
      <3>4. inv(kind)[a] = cell
        BY <2>4, <3>1, <3>2
      <3>5. IndexMapOf(act, kind, values2, gindex)[cell] = a
        BY <2>5, <3>3
      <3> QED BY <2>2, <3>4, <3>5
    <2>8. CASE CoarseGroup[g] # NoGroup
      <3>1. CoarseGroup[g] \in groups
        <4>1. \A c \in Groups : values2[c] \in Seq(Range(values2[c]))
          BY <1>3 DEF RecordsKept
        <4>2. ActiveRecorded(act, values2)
          BY <1>4 DEF ActiveRecorded
        <4> QED BY <1>5, <2>1, <2>3, <2>8, <4>1, <4>2, GroupOfIndex
      <3>2. group \in groups
        BY <3>1
      <3> HIDE DEF group
      <3>3. group \in Groups /\ GroupIndexes(kind, group, values2) /\ gindex[group][kind] = a
        BY <3>2
      <3>4. Head(cells2[group]) \in Members(group)
        <4>1. /\ cells2[group] \in Seq(Members(group)) /\ values2[group] # <<>>
              /\ values2[group] \in Seq(Range(values2[group]))
              /\ Len(values2[group]) = Len(cells2[group])
          BY <1>3, <3>3 DEF RecordsKept, GroupIndexes
        <4>2. cells2[group] # <<>>
          BY <4>1, EmptySeq
        <4> QED BY <4>1, <4>2, HeadTailProperties
      <3>5. Head(cells2[group]) \in Cells /\ CoarseGroup[Head(cells2[group])] = group
        BY <3>4 DEF Members
      <3>6. group # NoGroup
        BY <3>3, GridIndexAssumption
      <3>7. IndexMapOf(act, kind, values2, gindex)[Head(cells2[group])] = a
        BY <2>5, <3>3, <3>5, <3>6
      <3>8. inv(kind)[a] = Head(cells2[group])
        BY <2>4, <3>1
      <3> QED BY <2>2, <3>7, <3>8
    <2> QED BY <2>7, <2>8
  <1> QED BY <1>1, <1>3, <1>6 DEF IInv

LEMMA NothingRecorded == RecordsKept(NoRecord, NoRecord)
  <1> SUFFICES ASSUME NEW c \in Groups
               PROVE  /\ NoRecord[c] \in Seq(Members(c)) /\ NoRecord[c] \in Seq(Range(NoRecord[c]))
                      /\ Len(NoRecord[c]) = Len(NoRecord[c])
    BY DEF RecordsKept
  <1> QED BY EmptySeq DEF NoRecord

-----------------------------------------------------------------------------
(* Local grids.                                                            *)

LgrRecord(r) ==
    r = [name |-> r.name, parent |-> r.parent, nr |-> r.nr, host |-> r.host,
         active |-> r.active, unit |-> r.unit]

(* LGRs that a grid can have: each has a host, all of whose cells exist.   *)
LgrsFit(gs) ==
    /\ gs \in Seq(Range(gs))
    /\ \A i \in DOMAIN gs :
           /\ LgrRecord(gs[i]) /\ Installs(gs, i) /\ gs[i].nr \in Nat
           /\ gs[i].unit = "METRIC" /\ gs[i].active # NoActnum
           /\ 0 \in DOMAIN gs[i].host /\ DOMAIN gs[i].host \subseteq Nat

FilesFit(files) == \A name \in FileNames : files[name] = NoFile \/ IsFile(files[name])

LEMMA MaxOfSome ==
    ASSUME NEW N \in Nat, NEW S \in SUBSET (0 .. N), S # {}
    PROVE  Max(S) \in S /\ \A y \in S : y <= Max(S)
  <1> DEFINE T == {N - x : x \in S}
  <1>1. T \in SUBSET Nat /\ T # {}
    <2>1. \A x \in S : N - x \in Nat
      OBVIOUS
    <2> QED BY <2>1
  <1>2. PICK t \in T : \A y \in T : t <= y
    BY <1>1, LeastElement
  <1>3. PICK x \in S : t = N - x
    BY <1>2
  <1>4. \A y \in S : x >= y
    <2> SUFFICES ASSUME NEW y \in S PROVE x >= y
      OBVIOUS
    <2>1. N - y \in T /\ x \in 0 .. N /\ y \in 0 .. N
      OBVIOUS
    <2> HIDE DEF T
    <2>2. N - x <= N - y
      BY <1>2, <1>3, <2>1
    <2> QED BY <2>1, <2>2
  <1>5. Max(S) \in S /\ \A y \in S : Max(S) >= y
    BY <1>3, <1>4 DEF Max
  <1>6. \A y \in S : y \in 0 .. N
    OBVIOUS
  <1>7. ASSUME NEW y \in S PROVE y <= Max(S)
    <2>1. y \in 0 .. N /\ Max(S) \in 0 .. N /\ Max(S) >= y
      BY <1>5, <1>6
    <2> HIDE DEF T
    <2> QED BY <2>1
  <1> QED BY <1>5, <1>7

LEMMA MaxOfOne == ASSUME NEW n \in Nat PROVE Max({n}) = n
  <1>1. {n} \in SUBSET (0 .. n) /\ {n} # {}
    OBVIOUS
  <1>2. Max({n}) \in {n}
    BY <1>1, MaxOfSome
  <1> QED BY <1>2

(* Finitely many numbers have a bound.                                     *)
LEMMA Bounded ==
    ASSUME NEW N \in Nat, NEW f, \A n \in 1 .. N : f[n] \in Nat
    PROVE  \E B \in Nat : \A n \in 1 .. N : f[n] <= B
  <1> DEFINE Below(m) == \E B \in Nat : \A n \in 1 .. m : f[n] <= B
             T == {m \in 0 .. N : Below(m)}
  <1>1. 0 \in T
    <2>1. 0 \in Nat /\ \A n \in 1 .. 0 : f[n] <= 0
      OBVIOUS
    <2> QED BY <2>1
  <1>2. ASSUME NEW m \in 0 .. N - 1, m \in T PROVE m + 1 \in T
    <2>1. PICK B \in Nat : \A n \in 1 .. m : f[n] <= B
      BY <1>2
    <2> DEFINE C == IF f[m + 1] <= B THEN B ELSE f[m + 1]
    <2>2. m + 1 \in 1 .. N /\ f[m + 1] \in Nat
      OBVIOUS
    <2>3. C \in Nat /\ f[m + 1] <= C /\ B <= C
      BY <2>2
    <2> HIDE DEF C
    <2>4. ASSUME NEW n \in 1 .. m + 1 PROVE f[n] <= C
      <3>1. CASE n = m + 1
        BY <2>3, <3>1
      <3>2. CASE n # m + 1
        <4>1. n \in 1 .. m /\ n \in 1 .. N
          BY <3>2
        <4>2. f[n] \in Nat /\ f[n] <= B
          BY <2>1, <4>1
        <4> QED BY <2>3, <4>2
      <3> QED BY <3>1, <3>2
    <2>5. Below(m + 1)
      BY <2>3, <2>4
    <2> QED BY <2>5
  <1> HIDE DEF T
  <1>3. 0 .. N \subseteq T
    BY <1>1, <1>2, UpToInduction
  <1>4. N \in T
    BY <1>3
  <1> QED BY <1>4 DEF T

LEMMA HostOfOne ==
    ASSUME NEW gs, NEW N \in Nat, DOMAIN gs = 1 .. N, NEW i \in DOMAIN gs, HostOf(gs, i) # -1
    PROVE  HostOf(gs, i) \in 0 .. N
  <1> DEFINE named == {j \in 1 .. i : gs[j].name = gs[i].parent}
  <1>1. named \in SUBSET (1 .. N) /\ named \in SUBSET (0 .. N) /\ i \in Nat
    OBVIOUS
  <1>2. named # {} => Max(named) \in 1 .. N
    BY <1>1, MaxOfSome
  <1>3. HostOf(gs, i) = IF gs[i].parent = "" THEN 0 ELSE IF named = {} THEN -1 ELSE Max(named)
    BY DEF HostOf
  <1> HIDE DEF named
  <1>4. CASE gs[i].parent = ""
    <2>1. HostOf(gs, i) = 0
      BY <1>3, <1>4, Zenon
    <2> QED BY <2>1
  <1>5. CASE gs[i].parent # ""
    <2>1. named # {} /\ HostOf(gs, i) = Max(named)
      BY <1>3, <1>5
    <2> QED BY <1>2, <2>1
  <1> QED BY <1>4, <1>5

(* Where the cells point to, once the LGRs are installed.                  *)
LEMMA Installed ==
    ASSUME NEW gs, NEW g, NEW old, NEW h \in 0 .. Len(gs), NEW c \in CellsOf(gs, h)
    PROVE  install_lgr(gs, g, old)[h][c] =
               IF Refining(gs, h, c) = {} THEN old[h][c] ELSE <<g, Max(Refining(gs, h, c))>>
  BY DEF install_lgr

LEMMA InstalledHosts ==
    ASSUME LgrsFit(lgrs), cell_lgr = install_lgr(lgrs, gen, Bare(lgrs))
    PROVE  LgrsHosted
  <1>0. DOMAIN lgrs = 1 .. Len(lgrs) /\ Len(lgrs) \in Nat
    BY LenProperties DEF LgrsFit
  <1>1. ASSUME NEW h \in DOMAIN cell_lgr, NEW c \in DOMAIN cell_lgr[h], cell_lgr[h][c] # NoLgr
        PROVE  cell_lgr[h][c][1] = gen
    <2>1. h \in 0 .. Len(lgrs) /\ c \in CellsOf(lgrs, h)
      BY DEF install_lgr
    <2>2. cell_lgr[h][c] = IF Refining(lgrs, h, c) = {} THEN Bare(lgrs)[h][c]
                           ELSE <<gen, Max(Refining(lgrs, h, c))>>
      BY <2>1, Installed
    <2>3. Bare(lgrs)[h][c] = NoLgr
      BY <2>1 DEF Bare
    <2> QED BY <1>1, <2>2, <2>3
  <1>2. ASSUME NEW i \in DOMAIN lgrs, NEW c \in Range(lgrs[i].host),
               Refining(lgrs, HostOf(lgrs, i), c) = {i}
        PROVE  cell_lgr[HostOf(lgrs, i)][c] = <<gen, i>>
    <2>1. HostOf(lgrs, i) # -1 /\ c \in CellsOf(lgrs, HostOf(lgrs, i))
      BY <1>2 DEF LgrsFit, Installs
    <2>2. HostOf(lgrs, i) \in 0 .. Len(lgrs)
      BY <1>0, <2>1, HostOfOne
    <2>3. Max({i}) = i
      BY <1>0, MaxOfOne
    <2> DEFINE h == HostOf(lgrs, i)
    <2>4. cell_lgr[h][c] = IF Refining(lgrs, h, c) = {} THEN Bare(lgrs)[h][c]
                           ELSE <<gen, Max(Refining(lgrs, h, c))>>
      BY <2>1, <2>2, Installed
    <2> QED BY <1>2, <2>3, <2>4
  <1> QED BY <1>1, <1>2 DEF LgrsHosted

LEMMA InductiveInvariant == GridSpec => []IInv
  <1>1. GridInit => IInv
    <2> SUFFICES ASSUME GridInit PROVE IInv
      OBVIOUS
    <2>1. RecordsKept(active_cells, active_values)
      BY NothingRecorded DEF GridInit, Init
    <2>2. RoundTrip
      <3>1. \A kind \in Kinds : total_active[kind] = 0
        BY DEF GridInit, Init
      <3>2. \A a : a \notin 0 .. 0 - 1
        OBVIOUS
      <3> QED BY <3>1, <3>2 DEF RoundTrip
    <2> QED BY <2>1, <2>2 DEF IInv
  <1>2. IInv /\ [GridNext]_allVars => IInv'
    <2> SUFFICES ASSUME IInv, [GridNext]_allVars PROVE IInv'
      OBVIOUS
    <2>1. ASSUME UNCHANGED vars PROVE IInv'
      BY <2>1 DEF vars, IInv, RecordsKept, RoundTrip
    <2>2. ASSUME NEW name, NEW f, NEW gs, NEW apply, Loaded(name, f, gs, apply) PROVE IInv'
      <3>1. CASE LoadFails(f, gs)
        BY <2>1, <2>2, <3>1 DEF Loaded
      <3>2. CASE ~LoadFails(f, gs)
        BY <2>2, <3>2, UpdateStep, NothingRecorded DEF Loaded, GridOf
      <3> QED BY <3>1, <3>2
    <2>3. ASSUME NEW name, NEW apply, LoadFile(name, apply) PROVE IInv'
      BY <2>2, <2>3 DEF LoadFile
    <2>4. ASSUME NEW input, LoadCase(input) PROVE IInv'
      BY <2>1, <2>3, <2>4 DEF LoadCase
    <2>5. CASE \E input \in Inputs : MayLoad /\ LoadCase(input)
      BY <2>4, <2>5
    <2>6. CASE \E name \in FileNames, apply \in BOOLEAN : MayLoad /\ LoadFile(name, apply)
      BY <2>3, <2>6
    <2>7. CASE \E name \in Targets, u \in Units : InUse /\ WriteEGRID(name, u)
      BY <2>1, <2>7 DEF WriteEGRID, Write
    <2>8. CASE \E name \in Targets, u \in Units : InUse /\ WriteGRID(name, u)
      BY <2>1, <2>8 DEF WriteGRID, Write
    <2>9. CASE CopyGrid
      BY <2>9, UpdateStep, NothingRecorded DEF CopyGrid, AllocCopy
    <2>10. CASE \E actnum \in Actnums : InUse /\ SetActnum(actnum)
      BY <2>10, UpdateStep DEF SetActnum, ResetActnum, IInv
    <2>11. ASSUME NEW h, NEW a, NEW b, NEW idx, AddSelfNnc(h, a, b, idx) PROVE IInv'
      BY <2>1, <2>11 DEF AddSelfNnc
    <2>12. CASE UNCHANGED allVars
      BY <2>1, <2>12 DEF allVars
    <2> QED BY <2>5, <2>6, <2>7, <2>8, <2>9, <2>10, <2>11, <2>12 DEF GridNext
  <1> QED BY <1>1, <1>2, PTL DEF GridSpec

(* Of every grid that is loaded, copied and given other active cells, in   *)
(* any order and with any coarse groups, going from an active index to a   *)
(* cell and back is the identity (rd_grid_realloc_index_map).              *)
THEOREM NumberingRoundTrips == GridSpec => []RoundTrip
  <1>1. IInv => RoundTrip
    BY DEF IInv
  <1> QED BY <1>1, InductiveInvariant, PTL

(* Every grid of a file gets active values, and its own when all have some. *)
LEMMA ActnumGiven ==
    ASSUME NEW f, IsFile(f), NEW i \in 1 .. Len(f.sections)
    PROVE  ActnumOf(f, i) # NoActnum
  <1> DEFINE given == {n \in DOMAIN f.sections : f.kind = "GRID" \/ f.sections[n].actnum # NoActnum}
             ith == {n \in given : /\ Cardinality({m \in given : m <= n}) = i
                                   /\ f.sections[n].actnum # NoActnum}
             cells == IF i = 1 THEN Cells ELSE DOMAIN f.sections[i].host
             all == [c \in cells |-> IF f.kind = "GRID" THEN Kinds ELSE {"matrix"}]
  <1>1. ActnumOf(f, i) = IF ith # {} THEN f.sections[CHOOSE n \in ith : TRUE].actnum ELSE all
    BY DEF ActnumOf
  <1>2. ith # {} => f.sections[CHOOSE n \in ith : TRUE].actnum # NoActnum
    OBVIOUS
  <1>3. all # NoActnum
    <2>1. 0 \in cells
      <3>1. CASE i = 1
        BY <3>1, GridIndexAssumption DEF Cells
      <3>2. CASE i # 1
        <4>1. Len(f.sections) \in Nat
          BY LenProperties DEF IsFile
        <4>2. i \in 2 .. Len(f.sections)
          BY <3>2, <4>1
        <4> QED BY <3>2, <4>2 DEF IsFile
      <3> QED BY <3>1, <3>2
    <2>2. DOMAIN all = cells /\ DOMAIN NoActnum = {}
      BY DEF NoActnum
    <2> HIDE DEF all, cells
    <2> QED BY <2>1, <2>2
  <1> HIDE DEF all, ith
  <1> QED BY <1>1, <1>2, <1>3

LEMMA ActnumInTurn ==
    ASSUME NEW f, NEW N \in Nat, DOMAIN f.sections = 1 .. N,
           \A n \in 1 .. N : f.sections[n].actnum # NoActnum, NEW i \in 1 .. N
    PROVE  ActnumOf(f, i) = f.sections[i].actnum
  <1> DEFINE given == {n \in DOMAIN f.sections : f.kind = "GRID" \/ f.sections[n].actnum # NoActnum}
             ith == {n \in given : /\ Cardinality({m \in given : m <= n}) = i
                                   /\ f.sections[n].actnum # NoActnum}
  <1>1. given = 1 .. N
    OBVIOUS
  <1>2. ASSUME NEW n \in 1 .. N PROVE Cardinality({m \in given : m <= n}) = n
    <2>1. {m \in given : m <= n} = 1 .. n
      BY <1>1
    <2>2. n \in Nat /\ 1 \in Int /\ n \in Int
      OBVIOUS
    <2>3. Cardinality(1 .. n) = IF 1 > n THEN 0 ELSE n - 1 + 1
      BY <2>2, FS_Interval
    <2>4. Cardinality(1 .. n) = n
      BY <2>2, <2>3
    <2> HIDE DEF given
    <2> QED BY <2>1, <2>4
  <1>3. ith = {i}
    <2>1. \A n : n \in ith <=> n \in 1 .. N /\ n = i
      BY <1>1, <1>2
    <2> HIDE DEF ith
    <2> QED BY <2>1
  <1>4. ActnumOf(f, i) = f.sections[CHOOSE n \in ith : TRUE].actnum
    <2>1. ith # {}
      BY <1>3
    <2> QED BY <2>1 DEF ActnumOf
  <1> HIDE DEF ith
  <1>5. (CHOOSE n \in ith : TRUE) = i
    BY <1>3
  <1> QED BY <1>4, <1>5

(* The LGRs of a file that loads fit.                                      *)
LEMMA LgrsOfFileFit ==
    ASSUME NEW f, IsFile(f), ~LoadFails(f, LgrsOf(f))
    PROVE  LgrsFit(LgrsOf(f))
  <1> DEFINE gs == LgrsOf(f)
             N == Len(f.sections) - 1
  <1>1. N \in Nat
    <2>1. f.sections \in Seq(Range(f.sections)) /\ f.sections # <<>>
      BY DEF IsFile
    <2>2. Len(f.sections) \in Nat /\ Len(f.sections) # 0
      BY <2>1, LenProperties, EmptySeq
    <2> QED BY <2>2
  <1>2. DOMAIN gs = 1 .. N
    BY DEF LgrsOf
  <1>3. ASSUME NEW i \in DOMAIN gs
        PROVE  /\ LgrRecord(gs[i]) /\ gs[i].nr \in Nat
               /\ gs[i].unit = "METRIC" /\ gs[i].active # NoActnum
               /\ 0 \in DOMAIN gs[i].host /\ DOMAIN gs[i].host \subseteq Nat
    <2>1. i + 1 \in 2 .. Len(f.sections) /\ i + 1 \in 1 .. Len(f.sections) /\ i \in Nat
      BY <1>1, <1>2
    <2>2. gs[i] = [name |-> f.sections[i + 1].name, parent |-> f.sections[i + 1].parent,
                   nr |-> IF f.kind = "EGRID" THEN f.sections[i + 1].nr ELSE i,
                   host |-> f.sections[i + 1].host, active |-> ActnumOf(f, i + 1),
                   unit |-> "METRIC"]
      BY DEF LgrsOf
    <2> DEFINE r == gs[i]
    <2> HIDE DEF gs
    <2>3. r.nr = (IF f.kind = "EGRID" THEN f.sections[i + 1].nr ELSE i) /\ r.host = f.sections[i + 1].host
      BY <2>2
    <2>4. LgrRecord(r) /\ r.unit = "METRIC" /\ r.active = ActnumOf(f, i + 1)
      BY <2>2 DEF LgrRecord
    <2>5. ActnumOf(f, i + 1) # NoActnum
      BY <2>1, ActnumGiven
    <2> QED BY <2>1, <2>3, <2>4, <2>5 DEF IsFile
  <1>4. gs \in [1 .. N -> Range(gs)]
    <2>1. gs = [i \in DOMAIN gs |-> gs[i]]
      BY DEF LgrsOf
    <2>2. \A i \in DOMAIN gs : gs[i] \in Range(gs)
      BY DEF Range
    <2> HIDE DEF gs, N
    <2> QED BY <1>2, <2>1, <2>2
  <1>5. \A i \in DOMAIN gs : Installs(gs, i)
    BY DEF LoadFails
  <1> HIDE DEF gs
  <1> HIDE DEF N
  <1>6. gs \in Seq(Range(gs))
    BY <1>1, <1>4, WrittenOut
  <1>7. LgrsFit(gs)
    BY <1>3, <1>5, <1>6 DEF LgrsFit
  <1> QED BY <1>7 DEF gs

(* The copies of LGRs fit where the originals do, and refine what these do. *)
LEMMA CopiesFit ==
    ASSUME NEW gs, LgrsFit(gs)
    PROVE  /\ LgrsFit(Copied(gs)) /\ Len(Copied(gs)) = Len(gs)
           /\ \A h \in 0 .. Len(gs) : CellsOf(Copied(gs), h) = CellsOf(gs, h)
           /\ \A h, c : Refining(Copied(gs), h, c) = Refining(gs, h, c)
  <1> DEFINE copies == Copied(gs)
             N == Len(gs)
  <1>1. gs \in Seq(Range(gs)) /\ N \in Nat /\ DOMAIN gs = 1 .. N /\ DOMAIN copies = 1 .. N
    BY LenProperties DEF LgrsFit, Copied
  <1>2. ASSUME NEW i \in 1 .. N
        PROVE  /\ copies[i] = [name |-> gs[i].name, parent |-> gs[i].parent, nr |-> 0,
                               host |-> gs[i].host, active |-> gs[i].active, unit |-> gs[i].unit]
    <2>1. copies[i] = [gs[i] EXCEPT !.nr = 0]
      BY <1>1 DEF Copied
    <2>2. gs[i] = [name |-> gs[i].name, parent |-> gs[i].parent, nr |-> gs[i].nr, host |-> gs[i].host,
                   active |-> gs[i].active, unit |-> gs[i].unit]
      BY <1>1 DEF LgrsFit, LgrRecord
    <2> QED BY <2>1, <2>2
  <1>3. ASSUME NEW i \in 1 .. N
        PROVE  /\ copies[i].name = gs[i].name /\ copies[i].parent = gs[i].parent
               /\ copies[i].host = gs[i].host /\ LgrRecord(copies[i]) /\ copies[i].nr = 0
               /\ copies[i].unit = gs[i].unit /\ copies[i].active = gs[i].active
    <2> DEFINE r == copies[i]
    <2>1. r = [name |-> gs[i].name, parent |-> gs[i].parent, nr |-> 0,
               host |-> gs[i].host, active |-> gs[i].active, unit |-> gs[i].unit]
      BY <1>2
    <2> HIDE DEF r
    <2>2. /\ r.name = gs[i].name /\ r.parent = gs[i].parent /\ r.host = gs[i].host
          /\ LgrRecord(r) /\ r.nr = 0 /\ r.unit = gs[i].unit /\ r.active = gs[i].active
      BY <2>1 DEF LgrRecord
    <2> QED BY <2>2 DEF r
  <1>4. copies \in [1 .. N -> Range(copies)]
    <2>1. copies = [i \in 1 .. N |-> copies[i]]
      BY <1>1 DEF Copied
    <2>2. \A i \in DOMAIN copies : copies[i] \in Range(copies)
      BY DEF Range
    <2> HIDE DEF copies, N
    <2> QED BY <1>1, <2>1, <2>2
  <1> HIDE DEF copies, N
  <1>5. copies \in Seq(Range(copies)) /\ Len(copies) = N
    BY <1>1, <1>4, WrittenOut
  <1>6. ASSUME NEW i \in 1 .. N PROVE HostOf(copies, i) = HostOf(gs, i)
    <2>1. {j \in 1 .. i : copies[j].name = copies[i].parent} = {j \in 1 .. i : gs[j].name = gs[i].parent}
      <3>1. \A j \in 1 .. i : j \in 1 .. N
        BY <1>1
      <3> QED BY <1>3, <3>1
    <2> QED BY <1>3, <2>1 DEF HostOf
  <1>7. ASSUME NEW h \in 0 .. N PROVE CellsOf(copies, h) = CellsOf(gs, h)
    <2>1. h # 0 => h \in 1 .. N
      BY <1>1
    <2> QED BY <1>3, <2>1 DEF CellsOf
  <1>8. ASSUME NEW h, NEW c PROVE Refining(copies, h, c) = Refining(gs, h, c)
    BY <1>1, <1>3, <1>6 DEF Refining
  <1>9. ASSUME NEW i \in 1 .. N PROVE Installs(copies, i)
    <2>1. HostOf(gs, i) # -1 /\ Range(gs[i].host) \subseteq CellsOf(gs, HostOf(gs, i))
      BY <1>1 DEF LgrsFit, Installs
    <2>2. HostOf(gs, i) \in 0 .. N
      BY <1>1, <2>1, HostOfOne
    <2> QED BY <1>3, <1>6, <1>7, <2>1, <2>2 DEF Installs
  <1>10. LgrsFit(copies)
    BY <1>1, <1>3, <1>5, <1>9 DEF LgrsFit
  <1> QED BY <1>5, <1>7, <1>8, <1>10 DEF copies, N

(* Copies of cells that pointed where they should, do so.                  *)
LEMMA CopiedAgain ==
    ASSUME NEW gs, LgrsFit(gs), NEW g, NEW g2
    PROVE  install_lgr(Copied(gs), g2, install_lgr(gs, g, Bare(gs)))
               = install_lgr(Copied(gs), g2, Bare(Copied(gs)))
  <1> DEFINE N == Len(gs)
             old == install_lgr(gs, g, Bare(gs))
             new(h, c, was) == IF Refining(Copied(gs), h, c) = {} THEN was[h][c]
                               ELSE <<g2, Max(Refining(Copied(gs), h, c))>>
  <1>1. /\ Len(Copied(gs)) = N
        /\ \A h \in 0 .. N : CellsOf(Copied(gs), h) = CellsOf(gs, h)
        /\ \A h, c : Refining(Copied(gs), h, c) = Refining(gs, h, c)
    BY CopiesFit
  <1>2. ASSUME NEW h \in 0 .. N, NEW c \in CellsOf(gs, h)
        PROVE  new(h, c, old) = new(h, c, Bare(Copied(gs)))
    <2>1. Refining(gs, h, c) = {} => old[h][c] = Bare(gs)[h][c]
      BY DEF install_lgr
    <2>2. Bare(gs)[h][c] = NoLgr /\ Bare(Copied(gs))[h][c] = NoLgr
      BY <1>1 DEF Bare
    <2> QED BY <1>1, <2>1, <2>2
  <1>3. \A was : install_lgr(Copied(gs), g2, was)
                   = [h \in 0 .. N |-> [c \in CellsOf(Copied(gs), h) |-> new(h, c, was)]]
    BY <1>1 DEF install_lgr
  <1> HIDE DEF new, old
  <1>4. ASSUME NEW h \in 0 .. N
        PROVE  [c \in CellsOf(Copied(gs), h) |-> new(h, c, old)]
                   = [c \in CellsOf(Copied(gs), h) |-> new(h, c, Bare(Copied(gs)))]
    BY <1>1, <1>2
  <1>5. [h \in 0 .. N |-> [c \in CellsOf(Copied(gs), h) |-> new(h, c, old)]]
            = [h \in 0 .. N |-> [c \in CellsOf(Copied(gs), h) |-> new(h, c, Bare(Copied(gs)))]]
    BY <1>4
  <1>6. install_lgr(Copied(gs), g2, old) = install_lgr(Copied(gs), g2, Bare(Copied(gs)))
    BY <1>3, <1>5
  <1> QED BY <1>6 DEF old

-----------------------------------------------------------------------------
(* Connections.                                                            *)

Entries == [at : Nat, own : Nat, lgr : Nat, to : Nat, idx : Nat]

(* A connection begins in a cell of its grid.  As long as the grids have   *)
(* the numbers a file gave them, its cell knows that of its grid, and in   *)
(* dual porosity it ends in its grid when it has that number.              *)
EntryFits(gs, h, e) ==
    /\ e.at \in CellsOf(gs, h)
    /\ Numbered(gs) => /\ e.own = Nr(gs, h)
                       /\ DualPorosity /\ e.lgr = e.own => e.to \in CellsOf(gs, h)

ListFits(gs, h, list) == list \in Seq(Entries) /\ \A n \in DOMAIN list : EntryFits(gs, h, list[n])

NncFit(gs, lists) ==
    /\ lists \in [0 .. Len(gs) -> Seq(Entries)]
    /\ \A h \in 0 .. Len(gs) : ListFits(gs, h, lists[h])

LEMMA GridShape ==
    ASSUME NEW gs, LgrsFit(gs)
    PROVE  /\ Len(gs) \in Nat /\ DOMAIN gs = 1 .. Len(gs)
           /\ \A h \in 0 .. Len(gs) : /\ Nr(gs, h) \in Nat /\ 0 \in CellsOf(gs, h)
                                       /\ CellsOf(gs, h) \subseteq Nat
           /\ Numbered(gs) => \A h, t \in 0 .. Len(gs) : Nr(gs, h) = Nr(gs, t) => h = t
  <1>1. Len(gs) \in Nat /\ DOMAIN gs = 1 .. Len(gs)
    BY LenProperties DEF LgrsFit
  <1>2. ASSUME NEW h \in 0 .. Len(gs)
        PROVE  Nr(gs, h) \in Nat /\ 0 \in CellsOf(gs, h) /\ CellsOf(gs, h) \subseteq Nat
    <2>1. CASE h = 0
      BY <2>1, GridIndexAssumption DEF Nr, CellsOf, Cells
    <2>2. CASE h # 0
      <3>1. h \in DOMAIN gs
        BY <1>1, <2>2
      <3> QED BY <2>2, <3>1 DEF Nr, CellsOf, LgrsFit
    <2> QED BY <2>1, <2>2
  <1>3. ASSUME Numbered(gs), NEW h \in 0 .. Len(gs), NEW t \in 0 .. Len(gs), Nr(gs, h) = Nr(gs, t)
        PROVE  h = t
    <2>1. \A i \in 0 .. Len(gs) : i # 0 => i \in DOMAIN gs
      BY <1>1
    <2>2. \A i \in DOMAIN gs : gs[i].nr # 0
      BY <1>3, <1>1 DEF Numbered, LgrsFit
    <2> QED BY <1>3, <2>1, <2>2 DEF Numbered, Nr
  <1> QED BY <1>1, <1>2, <1>3

LEMMA LeastOfSome ==
    ASSUME NEW S \in SUBSET Nat, S # {} PROVE Min(S) \in S /\ \A y \in S : Min(S) <= y
  <1>1. \E x \in S : \A y \in S : x <= y
    BY LeastElement
  <1> QED BY <1>1 DEF Min

(* A connection that is made in a list that fits, fits.                    *)
LEMMA EntryMade ==
    ASSUME NEW gs, LgrsFit(gs), NEW h \in 0 .. Len(gs), NEW t \in 0 .. Len(gs),
           NEW list, ListFits(gs, h, list),
           NEW at \in CellsOf(gs, h), NEW to \in Nat, DualPorosity => to \in CellsOf(gs, t),
           NEW idx \in Nat
    PROVE  /\ Entry(list, at, Nr(gs, h), to, Nr(gs, t), idx) \in Entries
           /\ EntryFits(gs, h, Entry(list, at, Nr(gs, h), to, Nr(gs, t), idx))
  <1> DEFINE same == {n \in DOMAIN list : list[n].at = at}
             e == Entry(list, at, Nr(gs, h), to, Nr(gs, t), idx)
  <1>1. Nr(gs, h) \in Nat /\ Nr(gs, t) \in Nat /\ at \in Nat /\ to \in Nat
    BY GridShape
  <1>2. list \in Seq(Entries) /\ DOMAIN list = 1 .. Len(list) /\ Len(list) \in Nat
    BY LenProperties DEF ListFits
  <1>3. /\ Own(list, at, Nr(gs, h)) \in Nat
        /\ Numbered(gs) => Own(list, at, Nr(gs, h)) = Nr(gs, h)
    <2>1. CASE same = {}
      BY <1>1, <2>1 DEF Own
    <2>2. CASE same # {}
      <3>1. same \in SUBSET Nat
        BY <1>2
      <3>2. Min(same) \in same
        BY <2>2, <3>1, LeastOfSome
      <3> DEFINE m == Min(same)
      <3> HIDE DEF m
      <3>3. m \in DOMAIN list /\ m \in 1 .. Len(list)
        BY <1>2, <3>2 DEF m
      <3>4. list[m] \in Entries
        BY <1>2, <3>3, ElementOfSeq
      <3>5. EntryFits(gs, h, list[m])
        BY <3>3 DEF ListFits
      <3>6. Own(list, at, Nr(gs, h)) = list[m].own
        BY <2>2 DEF Own, m
      <3> QED BY <3>4, <3>5, <3>6 DEF Entries, EntryFits
    <2> QED BY <2>1, <2>2
  <1>4. /\ e = [at |-> at, own |-> Own(list, at, Nr(gs, h)), lgr |-> Nr(gs, t), to |-> to, idx |-> idx]
    BY DEF Entry
  <1> HIDE DEF e
  <1>5. e \in Entries
    BY <1>1, <1>3, <1>4 DEF Entries
  <1>6. Numbered(gs) /\ Nr(gs, t) = Nr(gs, h) => t = h
    BY GridShape
  <1>7. e.at = at /\ e.own = Own(list, at, Nr(gs, h)) /\ e.lgr = Nr(gs, t) /\ e.to = to
    BY <1>4
  <1>8. EntryFits(gs, h, e)
    BY <1>3, <1>6, <1>7 DEF EntryFits
  <1> QED BY <1>5, <1>8 DEF e

(* What is taken of the pairs of a file begins in cells of the grid, and   *)
(* in dual porosity ends in cells of the other.                            *)
PairsFit(gs, from, to, pairs) ==
    \A n \in 1 .. Len(pairs) :
        /\ pairs[n][1] \in CellsOf(gs, from) /\ pairs[n][2] \in Nat
        /\ DualPorosity => pairs[n][2] \in CellsOf(gs, to)

LEMMA TakenFit ==
    ASSUME NEW gs, NEW from, NEW to, NEW pairs, ArePairs(pairs),
           ~DualPorosity => \A n \in DOMAIN pairs : pairs[n][1] \in CellsOf(gs, from)
    PROVE  /\ Taken(gs, from, to, pairs) \in Seq(Range(pairs))
           /\ ~DualPorosity \/ Beyond(gs, from, to, pairs) = {} => Taken(gs, from, to, pairs) = pairs
           /\ PairsFit(gs, from, to, Taken(gs, from, to, pairs))
  <1> DEFINE beyond == Beyond(gs, from, to, pairs)
             taken == Taken(gs, from, to, pairs)
             m == Min(beyond) - 1
  <1>0. pairs \in Seq(Range(pairs))
    BY DEF ArePairs
  <1>1. DOMAIN pairs = 1 .. Len(pairs) /\ Len(pairs) \in Nat
    BY <1>0, LenProperties
  <1>2. \A n \in 1 .. Len(pairs) :
            /\ pairs[n][2] \in Nat
            /\ n \notin beyond => pairs[n][1] \in CellsOf(gs, from) /\ pairs[n][2] \in CellsOf(gs, to)
    BY <1>1 DEF Beyond, ArePairs
  <1>3. beyond \in SUBSET (1 .. Len(pairs)) /\ beyond \in SUBSET Nat
    BY <1>1 DEF Beyond
  <1>4. CASE ~DualPorosity \/ beyond = {}
    <2>1. taken = pairs
      BY <1>4 DEF Taken
    <2>2. PairsFit(gs, from, to, pairs)
      <3> HIDE DEF beyond
      <3> QED BY <1>1, <1>2, <1>4 DEF PairsFit
    <2> HIDE DEF taken, beyond
    <2> QED BY <1>0, <2>1, <2>2 DEF taken, beyond
  <1>5. CASE DualPorosity /\ beyond # {}
    <2>1. Min(beyond) \in beyond /\ \A y \in beyond : Min(beyond) <= y
      BY <1>3, <1>5, LeastOfSome
    <2>2. m \in Int /\ m \in 0 .. Len(pairs) - 1
      BY <1>1, <1>3, <2>1
    <2>3. taken = SubSeq(pairs, 1, m)
      BY <1>5 DEF Taken
    <2>4. \A n \in 1 .. m : n \notin beyond /\ n \in 1 .. Len(pairs)
      <3>1. ASSUME NEW n \in 1 .. m, n \in beyond PROVE FALSE
        <4>1. Min(beyond) <= n /\ Min(beyond) \in Nat /\ n <= Min(beyond) - 1
          BY <1>3, <2>1, <2>2, <3>1
        <4> QED BY <4>1
      <3> HIDE DEF m, beyond
      <3> QED BY <1>1, <2>2, <3>1
    <2> HIDE DEF m, beyond, taken
    <2>5. \A n \in 1 .. m : pairs[n] \in Range(pairs)
      <3>1. \A n \in 1 .. m : n \in DOMAIN pairs
        BY <1>1, <2>4
      <3> QED BY <3>1 DEF Range
    <2>6. /\ taken \in Seq(Range(pairs)) /\ Len(taken) = IF 1 <= m THEN m - 1 + 1 ELSE 0
          /\ \A n \in 1 .. m - 1 + 1 : taken[n] = pairs[1 + n - 1]
      BY <1>0, <2>2, <2>3, <2>5, SubSeqProperties
    <2>7. Len(taken) = m /\ \A n \in 1 .. m : taken[n] = pairs[n]
      <3>1. Len(taken) = m
        BY <2>2, <2>6
      <3>2. ASSUME NEW n \in 1 .. m PROVE taken[n] = pairs[n]
        <4>1. n \in 1 .. m - 1 + 1 /\ 1 + n - 1 = n
          BY <2>2
        <4>2. taken[n] = pairs[1 + n - 1]
          BY <2>6, <4>1
        <4> QED BY <4>1, <4>2
      <3> QED BY <3>1, <3>2
    <2>8. PairsFit(gs, from, to, taken)
      BY <1>2, <2>4, <2>7 DEF PairsFit
    <2> QED BY <1>5, <2>6, <2>8 DEF taken, beyond
  <1> QED BY <1>4, <1>5

(* What a link adds to a list, and that lists that fit still do.           *)
LEMMA CellsLinked ==
    ASSUME NEW gs, LgrsFit(gs), NEW h \in 0 .. Len(gs), NEW t \in 0 .. Len(gs),
           NEW list, ListFits(gs, h, list), NEW pairs, NEW P, pairs \in Seq(P),
           PairsFit(gs, h, t, pairs)
    PROVE  ListFits(gs, h, init_nnc_cells(list, gs, h, t, pairs))
  <1> DEFINE added == [n \in DOMAIN pairs |->
                           Entry(list, pairs[n][1], Nr(gs, h), pairs[n][2], Nr(gs, t), n - 1)]
             all == list \o added
             N == Len(pairs)
  <1>1. DOMAIN pairs = 1 .. N /\ N \in Nat
    BY LenProperties
  <1>2. ASSUME NEW n \in 1 .. N PROVE added[n] \in Entries /\ EntryFits(gs, h, added[n])
    <2>1. n - 1 \in Nat
      BY <1>1
    <2>2. added[n] = Entry(list, pairs[n][1], Nr(gs, h), pairs[n][2], Nr(gs, t), n - 1)
      BY <1>1
    <2>3. /\ pairs[n][1] \in CellsOf(gs, h) /\ pairs[n][2] \in Nat
          /\ DualPorosity => pairs[n][2] \in CellsOf(gs, t)
      BY DEF PairsFit
    <2> HIDE DEF added
    <2> QED BY <2>1, <2>2, <2>3, EntryMade
  <1>3. added \in [1 .. N -> Entries]
    BY <1>1, <1>2
  <1> HIDE DEF added, N
  <1>4. added \in Seq(Entries) /\ Len(added) = N
    BY <1>1, <1>3, WrittenOut
  <1>5. list \in Seq(Entries) /\ Len(list) \in Nat /\ DOMAIN list = 1 .. Len(list)
    BY LenProperties DEF ListFits
  <1>6. /\ all \in Seq(Entries) /\ Len(all) = Len(list) + N
        /\ \A n \in 1 .. Len(list) + N :
               all[n] = IF n <= Len(list) THEN list[n] ELSE added[n - Len(list)]
    BY <1>4, <1>5, ConcatProperties
  <1> HIDE DEF all
  <1>7. ASSUME NEW n \in DOMAIN all PROVE EntryFits(gs, h, all[n])
    <2>1. n \in 1 .. Len(list) + N
      BY <1>6, LenProperties
    <2>2. CASE n <= Len(list)
      <3>1. n \in DOMAIN list /\ all[n] = list[n]
        BY <1>1, <1>5, <1>6, <2>1, <2>2
      <3> QED BY <3>1 DEF ListFits
    <2>3. CASE ~(n <= Len(list))
      <3>1. n - Len(list) \in 1 .. N /\ all[n] = added[n - Len(list)]
        BY <1>1, <1>5, <1>6, <2>1, <2>3
      <3> QED BY <1>2, <3>1
    <2> QED BY <2>2, <2>3
  <1> QED BY <1>6, <1>7 DEF init_nnc_cells, all, added, ListFits

LEMMA LinkFits ==
    ASSUME NEW gs, LgrsFit(gs), NEW lists, NncFit(gs, lists), NEW from \in 0 .. Len(gs),
           NEW to \in 0 .. Len(gs), NEW pairs, ArePairs(pairs),
           ~DualPorosity => \A n \in DOMAIN pairs : pairs[n][1] \in CellsOf(gs, from)
    PROVE  NncFit(gs, Link(lists, gs, from, to, pairs))
  <1> DEFINE taken == Taken(gs, from, to, pairs)
             list == init_nnc_cells(lists[from], gs, from, to, taken)
  <1>1. taken \in Seq(Range(pairs)) /\ PairsFit(gs, from, to, taken)
    BY TakenFit
  <1>2. ListFits(gs, from, lists[from])
    BY DEF NncFit
  <1> HIDE DEF taken
  <1>3. ListFits(gs, from, list)
    BY <1>1, <1>2, CellsLinked
  <1>4. Link(lists, gs, from, to, pairs) = [lists EXCEPT ![from] = list]
    BY DEF Link, taken
  <1> HIDE DEF list
  <1> QED BY <1>3, <1>4 DEF NncFit, ListFits

(* Numbers lead to grids that exist, and the numbers of a file to those    *)
(* that have them.                                                         *)
LEMMA NumbersLead ==
    ASSUME NEW gs, LgrsFit(gs), NEW nr, GridNumbered(gs, nr) # -1
    PROVE  GridNumbered(gs, nr) \in 0 .. Len(gs)
  <1> DEFINE numbered == {i \in DOMAIN gs : gs[i].nr = nr}
             map == lgr_index_map(gs)
  <1>1. Len(gs) \in Nat /\ DOMAIN gs = 1 .. Len(gs)
    BY GridShape
  <1>2. CASE nr = 0
    <2>1. GridNumbered(gs, nr) = 0
      BY <1>2 DEF GridNumbered
    <2> QED BY <1>1, <2>1
  <1>3. CASE nr # 0
    <2>1. nr \in DOMAIN map /\ GridNumbered(gs, nr) = map[nr]
      BY <1>3 DEF GridNumbered
    <2>2. gs # <<>> /\ map[nr] = IF numbered = {} THEN 1 ELSE Max(numbered)
      BY <2>1 DEF lgr_index_map
    <2>3. Len(gs) # 0
      BY <2>2, EmptySeq DEF LgrsFit
    <2>4. numbered \in SUBSET (1 .. Len(gs)) /\ numbered \in SUBSET (0 .. Len(gs))
      BY <1>1
    <2> HIDE DEF numbered, map
    <2>5. numbered # {} => Max(numbered) \in 1 .. Len(gs)
      BY <1>1, <2>4, MaxOfSome
    <2>6. CASE numbered = {}
      <3>1. map[nr] = 1
        BY <2>2, <2>6
      <3> QED BY <1>1, <2>1, <2>3, <3>1
    <2>7. CASE numbered # {}
      <3>1. map[nr] = Max(numbered)
        BY <2>2, <2>7
      <3> QED BY <1>1, <2>1, <2>5, <2>7, <3>1
    <2> QED BY <2>6, <2>7
  <1> QED BY <1>2, <1>3

LEMMA NumberFound ==
    ASSUME NEW gs, LgrsFit(gs), Numbered(gs), NEW h \in 0 .. Len(gs)
    PROVE  GridNumbered(gs, Nr(gs, h)) = h
  <1> DEFINE nr == Nr(gs, h)
             nrs == {0} \cup {gs[i].nr : i \in DOMAIN gs}
             numbered == {i \in DOMAIN gs : gs[i].nr = nr}
  <1>1. Len(gs) \in Nat /\ DOMAIN gs = 1 .. Len(gs) /\ nr \in Nat
    BY GridShape
  <1>2. CASE h = 0
    BY <1>2 DEF GridNumbered, Nr
  <1>3. CASE h # 0
    <2>1. h \in DOMAIN gs /\ nr = gs[h].nr /\ h \in Nat
      BY <1>1, <1>3 DEF Nr
    <2>2. nr # 0
      BY <1>1, <2>1 DEF Numbered
    <2>3. PICK B \in Nat : \A i \in 1 .. Len(gs) : gs[i].nr <= B
      <3> DEFINE f == [i \in 1 .. Len(gs) |-> gs[i].nr]
      <3>1. \A i \in 1 .. Len(gs) : f[i] \in Nat
        BY <1>1 DEF LgrsFit
      <3>2. \A i \in 1 .. Len(gs) : f[i] = gs[i].nr
        OBVIOUS
      <3> HIDE DEF f
      <3>3. \E B \in Nat : \A i \in 1 .. Len(gs) : f[i] <= B
        BY <1>1, <3>1, Bounded
      <3> QED BY <3>2, <3>3
    <2>4. nrs \in SUBSET (0 .. B)
      BY <1>1, <2>3 DEF LgrsFit
    <2>5. nr \in nrs
      BY <2>1
    <2> HIDE DEF nrs
    <2>6. Max(nrs) \in Nat /\ nr <= Max(nrs)
      <3>1. nrs # {}
        BY <2>5
      <3>2. Max(nrs) \in nrs /\ \A y \in nrs : y <= Max(nrs)
        BY <2>3, <2>4, <3>1, MaxOfSome
      <3>3. \A y \in nrs : y \in Nat
        BY <2>4
      <3>4. Max(nrs) \in Nat /\ nr \in Nat
        BY <2>5, <3>2, <3>3
      <3> QED BY <2>5, <3>2, <3>4
    <2>7. nr \in 0 .. Max(nrs)
      BY <1>1, <2>6
    <2>8. gs # <<>>
      BY <2>1
    <2>9. numbered = {h}
      BY <2>1 DEF Numbered
    <2> HIDE DEF nr
    <2>10. nr \in DOMAIN lgr_index_map(gs) /\ lgr_index_map(gs)[nr] = IF numbered = {} THEN 1 ELSE Max(numbered)
      BY <2>7, <2>8 DEF lgr_index_map, nrs
    <2> HIDE DEF numbered
    <2>11. lgr_index_map(gs)[nr] = h
      BY <2>1, <2>9, <2>10, MaxOfOne
    <2> QED BY <2>2, <2>10, <2>11 DEF GridNumbered, nr
  <1> QED BY <1>2, <1>3

(* The links of a file, one after the other.                               *)
LinkedUpTo(u, gs, links) ==
    /\ u[0] = [h \in 0 .. Len(gs) |-> <<>>]
    /\ \A n \in 1 .. Len(links) :
           u[n] = Link(u[n - 1], gs, GridNumbered(gs, links[n].from), GridNumbered(gs, links[n].to),
                       links[n].pairs)
    /\ \A n \in 0 .. Len(links) : NncFit(gs, u[n])
    /\ init_nnc(gs, links) = u[Len(links)]

LEMMA LinkedInTurn ==
    ASSUME NEW gs, LgrsFit(gs), NEW links, links \in Seq(Range(links)),
           \A l \in Range(links) : ArePairs(l.pairs) /\ ~LinkFails(gs, l)
    PROVE  \E u : LinkedUpTo(u, gs, links)
  <1> DEFINE N == Len(links)
             base == [h \in 0 .. Len(gs) |-> <<>>]
             To(lists, n) == Link(lists, gs, GridNumbered(gs, links[n].from),
                                  GridNumbered(gs, links[n].to), links[n].pairs)
             S == {lists \in [0 .. Len(gs) -> Seq(Entries)] : NncFit(gs, lists)}
             step == [n \in 1 .. N |-> [lists \in S |-> To(lists, n)]]
             Solves(u) == u = [n \in 0 .. N |-> IF n = 0 THEN base ELSE To(u[n - 1], n)]
             u == CHOOSE u : Solves(u)
  <1>1. N \in Nat /\ DOMAIN links = 1 .. N
    BY LenProperties
  <1>2. ASSUME NEW lists, NncFit(gs, lists), NEW n \in 1 .. N PROVE NncFit(gs, To(lists, n))
    <2> DEFINE l == links[n]
               from == GridNumbered(gs, l.from)
               to == GridNumbered(gs, l.to)
    <2>1. l \in Range(links)
      BY <1>1 DEF Range
    <2>2. /\ ArePairs(l.pairs) /\ from # -1 /\ to # -1
          /\ ~DualPorosity => \A k \in DOMAIN l.pairs : l.pairs[k][1] \in CellsOf(gs, from)
      BY <2>1 DEF LinkFails
    <2>3. from \in 0 .. Len(gs) /\ to \in 0 .. Len(gs)
      BY <2>2, NumbersLead
    <2> HIDE DEF from, to
    <2>4. NncFit(gs, Link(lists, gs, from, to, l.pairs))
      BY <1>2, <2>2, <2>3, LinkFits
    <2> QED BY <2>4 DEF from, to
  <1>3. base \in S
    <2>1. <<>> \in Seq(Entries) /\ DOMAIN <<>> = {}
      BY EmptySeq
    <2>2. \A h \in 0 .. Len(gs) : base[h] = <<>>
      OBVIOUS
    <2>3. base \in [0 .. Len(gs) -> Seq(Entries)]
      BY <2>1
    <2> HIDE DEF base
    <2>4. NncFit(gs, base)
      BY <2>1, <2>2, <2>3 DEF NncFit, ListFits
    <2> QED BY <2>3, <2>4
  <1>4. \A lists : lists \in S <=> NncFit(gs, lists)
    BY DEF NncFit
  <1> HIDE DEF S, To, base
  <1>5. /\ step \in [1 .. N -> [S -> S]]
        /\ \A n \in 1 .. N : \A lists \in S : step[n][lists] = To(lists, n)
    BY <1>2, <1>4
  <1> HIDE DEF step, N
  <1>6. \E w : Solves(w)
    <2>1. PICK w : Recurs(w, N, S, base, step)
      BY <1>1, <1>3, <1>5, RecursionSolved
    <2>2. ASSUME NEW n \in 1 .. N PROVE w[n] = To(w[n - 1], n)
      <3>1. n - 1 \in 0 .. N
        BY <1>1
      <3>2. w[n - 1] \in S
        BY <2>1, <3>1 DEF Recurs
      <3> QED BY <1>5, <2>1, <3>2 DEF Recurs
    <2>3. \A n \in 0 .. N : w[n] = IF n = 0 THEN base ELSE To(w[n - 1], n)
      BY <2>1, <2>2 DEF Recurs
    <2>4. w = [n \in 0 .. N |-> w[n]]
      BY <2>1 DEF Recurs
    <2>5. Solves(w)
      BY <2>3, <2>4
    <2> HIDE DEF Solves
    <2> QED BY <2>5
  <1>7. Solves(u)
    BY <1>6
  <1>8. init_nnc(gs, links) = u[N]
    BY DEF init_nnc, N, To, base
  <1> HIDE DEF u
  <1>9. u[0] = base /\ \A n \in 1 .. N : u[n] = To(u[n - 1], n)
    BY <1>1, <1>7
  <1>10. \A n \in 0 .. N : NncFit(gs, u[n])
    <2> DEFINE T == {n \in 0 .. N : NncFit(gs, u[n])}
    <2>1. 0 \in T
      BY <1>1, <1>3, <1>4, <1>9
    <2>2. ASSUME NEW n \in 0 .. N - 1, n \in T PROVE n + 1 \in T
      <3>1. n + 1 \in 1 .. N /\ (n + 1) - 1 = n
        BY <1>1
      <3> QED BY <1>2, <1>9, <2>2, <3>1
    <2> HIDE DEF T
    <2>3. 0 .. N \subseteq T
      BY <1>1, <2>1, <2>2, UpToInduction
    <2> QED BY <2>3 DEF T
  <1>11. LinkedUpTo(u, gs, links)
    BY <1>8, <1>9, <1>10 DEF LinkedUpTo, N, To, base
  <1> QED BY <1>11

LEMMA LastEntry ==
    ASSUME NEW list \in Seq(Entries), NEW T \in SUBSET DOMAIN list, T # {}
    PROVE  \E n \in T : \A m \in T : Later(list, m, n)
  <1> DEFINE ats == {list[n].at : n \in T}
             top == Max(ats)
             latest == {n \in T : list[n].at = top}
             N == Len(list)
  <1>1. DOMAIN list = 1 .. N /\ N \in Nat /\ \A n \in 1 .. N : list[n] \in Entries /\ list[n].at \in Nat
    <2>1. DOMAIN list = 1 .. N /\ N \in Nat /\ \A n \in 1 .. N : list[n] \in Entries
      BY LenProperties, ElementOfSeq
    <2> QED BY <2>1 DEF Entries
  <1>2. PICK B \in Nat : \A n \in 1 .. N : list[n].at <= B
    <2> DEFINE f == [n \in 1 .. N |-> list[n].at]
    <2>1. \A n \in 1 .. N : f[n] = list[n].at /\ f[n] \in Nat
      BY <1>1
    <2> HIDE DEF f, N
    <2>2. \E B \in Nat : \A n \in 1 .. N : f[n] <= B
      BY <1>1, <2>1, Bounded
    <2> QED BY <2>1, <2>2
  <1>3. ats \in SUBSET (0 .. B) /\ ats # {}
    BY <1>1, <1>2
  <1>4. top \in ats /\ \A y \in ats : y <= top
    <2> HIDE DEF ats
    <2> QED BY <1>3, MaxOfSome
  <1> HIDE DEF top
  <1>5. latest \in SUBSET (0 .. N) /\ latest # {}
    <2>1. \A n \in T : n \in 0 .. N
      BY <1>1
    <2> QED BY <1>4, <2>1
  <1>6. Max(latest) \in latest /\ \A y \in latest : y <= Max(latest)
    <2> HIDE DEF latest, N
    <2> QED BY <1>1, <1>5, MaxOfSome
  <1> DEFINE n == Max(latest)
  <1> HIDE DEF n
  <1>7. n \in T /\ list[n].at = top
    BY <1>6 DEF n
  <1>8. ASSUME NEW m \in T PROVE Later(list, m, n)
    <2>1. list[m].at \in ats /\ list[m].at \in Nat /\ top \in Nat
      BY <1>1, <1>3, <1>4
    <2>2. list[m].at <= top
      BY <1>4, <2>1
    <2>3. CASE list[m].at = top
      <3>1. m \in latest
        BY <2>3
      <3>2. m <= n
        BY <1>6, <3>1 DEF n
      <3> QED BY <1>7, <2>3, <3>2 DEF Later
    <2>4. CASE list[m].at # top
      <3>1. list[m].at < list[n].at
        BY <1>7, <2>1, <2>2, <2>4
      <3> QED BY <3>1 DEF Later
    <2> QED BY <2>3, <2>4
  <1> QED BY <1>7, <1>8

(* What is written for a number: a connection within the grid.             *)
LEMMA PairWithin ==
    ASSUME NEW gs, LgrsFit(gs), NEW h \in 0 .. Len(gs), NEW list, ListFits(gs, h, list), NEW k
    PROVE  /\ PairOf(list, k) = <<PairOf(list, k)[1], PairOf(list, k)[2]>>
           /\ PairOf(list, k)[1] \in CellsOf(gs, h) /\ PairOf(list, k)[2] \in Nat
           /\ Numbered(gs) /\ DualPorosity => PairOf(list, k)[2] \in CellsOf(gs, h)
  <1> DEFINE of == {n \in SelfEntries(list) : list[n].idx = k}
             n == CHOOSE n \in of : \A m \in of : Later(list, m, n)
  <1>1. CASE of = {}
    <2>1. PairOf(list, k) = <<0, 0>>
      BY <1>1 DEF PairOf
    <2> QED BY <2>1, GridShape
  <1>2. CASE of # {}
    <2>1. list \in Seq(Entries) /\ of \in SUBSET DOMAIN list
      BY DEF ListFits, SelfEntries
    <2>2. n \in of
      <3> HIDE DEF of
      <3>1. \E m \in of : \A o \in of : Later(list, o, m)
        BY <1>2, <2>1, LastEntry
      <3> QED BY <3>1
    <2>3. PairOf(list, k) = <<list[n].at, list[n].to>>
      BY <1>2 DEF PairOf
    <2> HIDE DEF n
    <2>4. n \in DOMAIN list /\ list[n].lgr = list[n].own
      BY <2>2 DEF SelfEntries
    <2>5. EntryFits(gs, h, list[n])
      BY <2>4 DEF ListFits
    <2>6. list[n].to \in Nat
      <3>1. list[n] \in Entries
        BY <2>1, <2>4, LenProperties, ElementOfSeq
      <3> QED BY <3>1 DEF Entries
    <2> QED BY <2>3, <2>4, <2>5, <2>6 DEF EntryFits
  <1> QED BY <1>1, <1>2

LEMMA SelfPairs ==
    ASSUME NEW gs, LgrsFit(gs), NEW h \in 0 .. Len(gs), NEW list, ListFits(gs, h, list)
    PROVE  /\ self_nnc(list) \in Seq(Range(self_nnc(list)))
           /\ \A k \in Nat : PairOf(list, k) = IF k < Len(self_nnc(list)) THEN self_nnc(list)[k + 1]
                                              ELSE <<0, 0>>
           /\ \A n \in 1 .. Len(self_nnc(list)) : self_nnc(list)[n] = PairOf(list, n - 1)
  <1> DEFINE pairs == self_nnc(list)
             N == Len(list)
             tops == {0} \cup {list[n].idx + 1 : n \in SelfEntries(list)}
             M == Max(tops)
  <1>1. list \in Seq(Entries) /\ DOMAIN list = 1 .. N /\ N \in Nat
    BY LenProperties DEF ListFits
  <1>2. \A n \in 1 .. N : list[n].idx \in Nat
    <2>1. \A n \in 1 .. N : list[n] \in Entries
      BY <1>1, ElementOfSeq
    <2> QED BY <2>1 DEF Entries
  <1>3. PICK B \in Nat : \A n \in 1 .. N : list[n].idx <= B
    <2> DEFINE f == [n \in 1 .. N |-> list[n].idx]
    <2>1. \A n \in 1 .. N : f[n] = list[n].idx /\ f[n] \in Nat
      BY <1>2
    <2> HIDE DEF f, N
    <2>2. \E B \in Nat : \A n \in 1 .. N : f[n] <= B
      BY <1>1, <2>1, Bounded
    <2> QED BY <2>1, <2>2
  <1>4. \A n \in SelfEntries(list) : n \in 1 .. N
    BY <1>1 DEF SelfEntries
  <1>5. tops \in SUBSET (0 .. B + 1) /\ tops # {}
    BY <1>2, <1>3, <1>4
  <1>6. M \in tops /\ \A y \in tops : y <= M
    <2> HIDE DEF tops
    <2>1. B + 1 \in Nat
      OBVIOUS
    <2> QED BY <1>5, <2>1, MaxOfSome
  <1>7. M \in Nat
    BY <1>5, <1>6
  <1>8. pairs = [k \in 1 .. M |-> PairOf(list, k - 1)]
    BY DEF self_nnc
  <1> HIDE DEF M, pairs
  <1>9. pairs \in [1 .. M -> Range(pairs)]
    BY <1>8 DEF Range
  <1>10. pairs \in Seq(Range(pairs)) /\ Len(pairs) = M
    BY <1>7, <1>9, WrittenOut
  <1>11. ASSUME NEW k \in Nat
         PROVE  PairOf(list, k) = IF k < M THEN pairs[k + 1] ELSE <<0, 0>>
    <2>1. CASE k < M
      <3>1. k + 1 \in 1 .. M /\ (k + 1) - 1 = k
        BY <1>7, <2>1
      <3> QED BY <1>8, <2>1, <3>1
    <2>2. CASE ~(k < M)
      <3>1. {n \in SelfEntries(list) : list[n].idx = k} = {}
        <4> SUFFICES ASSUME NEW n \in SelfEntries(list), list[n].idx = k PROVE FALSE
          OBVIOUS
        <4>1. k + 1 \in tops
          OBVIOUS
        <4> QED BY <1>6, <1>7, <2>2, <4>1
      <3> QED BY <2>2, <3>1 DEF PairOf
    <2> QED BY <2>1, <2>2
  <1> QED BY <1>8, <1>10, <1>11 DEF pairs

(* Pairs come back from the list they are loaded into.                     *)
LEMMA PairsReadBack ==
    ASSUME NEW gs, NEW h, NEW P, NEW pairs \in Seq(P), NEW k \in Nat
    PROVE  PairOf(init_nnc_cells(<<>>, gs, h, h, pairs), k)
               = IF k < Len(pairs) THEN <<pairs[k + 1][1], pairs[k + 1][2]>> ELSE <<0, 0>>
  <1> DEFINE added == [n \in DOMAIN pairs |->
                           Entry(<<>>, pairs[n][1], Nr(gs, h), pairs[n][2], Nr(gs, h), n - 1)]
             N == Len(pairs)
             of == {n \in SelfEntries(added) : added[n].idx = k}
  <1>1. DOMAIN pairs = 1 .. N /\ N \in Nat
    BY LenProperties
  <1>2. \A n \in 1 .. N : added[n] = [at |-> pairs[n][1], own |-> Nr(gs, h), lgr |-> Nr(gs, h),
                                     to |-> pairs[n][2], idx |-> n - 1]
    <2>1. \A c : {n \in DOMAIN <<>> : <<>>[n].at = c} = {}
      OBVIOUS
    <2>2. \A c : Own(<<>>, c, Nr(gs, h)) = Nr(gs, h)
      BY <2>1 DEF Own
    <2> QED BY <1>1, <2>2 DEF Entry
  <1>3. init_nnc_cells(<<>>, gs, h, h, pairs) = added
    <2>1. added \in [1 .. N -> Range(added)]
      BY <1>1 DEF Range
    <2>2. added \in Seq(Range(added))
      <3> HIDE DEF added, N
      <3> QED BY <1>1, <2>1, WrittenOut
    <2>3. <<>> \o added = added
      <3> HIDE DEF added
      <3> QED BY <2>2, ConcatEmptySeq
    <2> QED BY <2>3 DEF init_nnc_cells
  <1>4. DOMAIN added = 1 .. N
    BY <1>1
  <1> HIDE DEF added, N
  <1>5. ASSUME NEW n \in 1 .. N
        PROVE  /\ added[n].lgr = added[n].own /\ added[n].idx = n - 1
               /\ added[n].at = pairs[n][1] /\ added[n].to = pairs[n][2]
    <2> DEFINE e == added[n]
    <2>1. e = [at |-> pairs[n][1], own |-> Nr(gs, h), lgr |-> Nr(gs, h), to |-> pairs[n][2], idx |-> n - 1]
      BY <1>2
    <2> HIDE DEF e
    <2>2. e.lgr = e.own /\ e.idx = n - 1 /\ e.at = pairs[n][1] /\ e.to = pairs[n][2]
      BY <2>1
    <2> QED BY <2>2 DEF e
  <1>6. of = {n \in 1 .. N : n - 1 = k}
    BY <1>4, <1>5 DEF SelfEntries
  <1>7. CASE k < N
    <2>1. k + 1 \in 1 .. N /\ of = {k + 1}
      BY <1>1, <1>6, <1>7
    <2>2. Later(added, k + 1, k + 1)
      BY DEF Later
    <2> DEFINE n == CHOOSE n \in of : \A m \in of : Later(added, m, n)
    <2>3. n = k + 1
      BY <2>1, <2>2
    <2>4. PairOf(added, k) = <<added[n].at, added[n].to>>
      <3>1. of # {}
        BY <2>1
      <3> QED BY <3>1 DEF PairOf
    <2> HIDE DEF n
    <2> HIDE DEF of
    <2> QED BY <1>3, <1>5, <1>7, <2>1, <2>3, <2>4 DEF N
  <1>8. CASE ~(k < N)
    <2>1. of = {}
      BY <1>1, <1>6, <1>8
    <2>2. PairOf(added, k) = <<0, 0>>
      BY <2>1 DEF PairOf
    <2> QED BY <1>3, <1>8, <2>2 DEF N
  <1> QED BY <1>7, <1>8

(* The links of a file that EGRIDFile makes of grids with their lists.     *)
LEMMA OwnLinksShape ==
    ASSUME NEW gs, LgrsFit(gs), NEW lists, NncFit(gs, lists)
    PROVE  /\ OwnLinks(gs, lists) \in Seq(Range(OwnLinks(gs, lists)))
           /\ Len(OwnLinks(gs, lists)) = Len(gs) + 1
           /\ \A l \in Range(OwnLinks(gs, lists)) : ArePairs(l.pairs)
  <1> DEFINE links == OwnLinks(gs, lists)
             N == Len(gs) + 1
  <1>1. N \in Nat /\ \A n \in 1 .. N : n - 1 \in 0 .. Len(gs)
    BY GridShape
  <1>2. DOMAIN links = 1 .. N /\ \A n \in 1 .. N : links[n].pairs = self_nnc(lists[n - 1])
    BY DEF OwnLinks
  <1>3. links = [n \in 1 .. N |-> links[n]]
    BY DEF OwnLinks
  <1> HIDE DEF links, N
  <1>4. links \in [1 .. N -> Range(links)]
    BY <1>2, <1>3 DEF Range
  <1>5. links \in Seq(Range(links)) /\ Len(links) = N
    BY <1>1, <1>4, WrittenOut
  <1>6. ASSUME NEW l \in Range(links) PROVE ArePairs(l.pairs)
    <2>1. PICK n \in 1 .. N : l = links[n]
      BY <1>2 DEF Range
    <2>2. ListFits(gs, n - 1, lists[n - 1])
      BY <1>1 DEF NncFit
    <2> DEFINE pairs == self_nnc(lists[n - 1])
    <2>3. pairs \in Seq(Range(pairs)) /\ \A k \in 1 .. Len(pairs) : pairs[k] = PairOf(lists[n - 1], k - 1)
      BY <1>1, <2>2, SelfPairs
    <2>4. \A k : PairOf(lists[n - 1], k)[2] \in Nat
      BY <1>1, <2>2, PairWithin
    <2>5. l.pairs = pairs
      BY <1>2, <2>1
    <2> HIDE DEF pairs
    <2>6. DOMAIN pairs = 1 .. Len(pairs)
      BY <2>3, LenProperties
    <2> QED BY <2>3, <2>4, <2>5, <2>6 DEF ArePairs
  <1> QED BY <1>5, <1>6 DEF links, N

(* Grids that load such a file have the lists that were written.           *)
LEMMA LinkedAlone ==
    ASSUME NEW gs, LgrsFit(gs), Numbered(gs), NEW lists, NncFit(gs, lists),
           \A l \in Range(OwnLinks(gs, lists)) : ~LinkFails(gs, l)
    PROVE  \A h \in 0 .. Len(gs) :
               init_nnc(gs, OwnLinks(gs, lists))[h] = init_nnc_cells(<<>>, gs, h, h, self_nnc(lists[h]))
  <1> DEFINE links == OwnLinks(gs, lists)
             N == Len(gs) + 1
             Own1(h) == init_nnc_cells(<<>>, gs, h, h, self_nnc(lists[h]))
             Done1(u, n) == \A h \in 0 .. Len(gs) : u[n][h] = IF h < n THEN Own1(h) ELSE <<>>
  <1>1. /\ links \in Seq(Range(links)) /\ Len(links) = N
        /\ \A l \in Range(links) : ArePairs(l.pairs) /\ ~LinkFails(gs, l)
    BY OwnLinksShape
  <1>2. PICK u : LinkedUpTo(u, gs, links)
    <2> HIDE DEF links
    <2> QED BY <1>1, LinkedInTurn
  <1>3. N \in Nat /\ Len(gs) \in Nat
    BY GridShape
  <1>4. ASSUME NEW h \in 0 .. Len(gs) PROVE Taken(gs, h, h, self_nnc(lists[h])) = self_nnc(lists[h])
    <2> DEFINE pairs == self_nnc(lists[h])
    <2>1. ListFits(gs, h, lists[h])
      BY DEF NncFit
    <2>2. pairs \in Seq(Range(pairs)) /\ \A n \in 1 .. Len(pairs) : pairs[n] = PairOf(lists[h], n - 1)
      BY <2>1, SelfPairs
    <2>3. DOMAIN pairs = 1 .. Len(pairs)
      BY <2>2, LenProperties
    <2>4. /\ \A n \in 1 .. Len(pairs) : pairs[n][1] \in CellsOf(gs, h) /\ pairs[n][2] \in Nat
          /\ DualPorosity => \A n \in 1 .. Len(pairs) : pairs[n][2] \in CellsOf(gs, h)
      BY <2>1, <2>2, PairWithin
    <2> HIDE DEF pairs
    <2>5. ~DualPorosity \/ Beyond(gs, h, h, pairs) = {}
      BY <2>3, <2>4 DEF Beyond
    <2>6. Taken(gs, h, h, pairs) = pairs
      BY <2>2, <2>3, <2>4, <2>5, TakenFit DEF ArePairs
    <2> QED BY <2>6 DEF pairs
  <1> DEFINE T == {n \in 0 .. N : Done1(u, n)}
  <1>5. 0 \in T
    <2>1. \A h \in 0 .. Len(gs) : u[0][h] = <<>> /\ ~(h < 0)
      BY <1>2, <1>3 DEF LinkedUpTo
    <2> QED BY <1>3, <2>1
  <1>6. ASSUME NEW n \in 0 .. N - 1, n \in T PROVE n + 1 \in T
    <2>1. n \in 0 .. Len(gs) /\ n + 1 \in 1 .. N /\ (n + 1) - 1 = n /\ n \in 0 .. N
      BY <1>3
    <2>2. /\ links[n + 1].from = Nr(gs, n) /\ links[n + 1].to = Nr(gs, n)
          /\ links[n + 1].pairs = self_nnc(lists[n])
      BY <2>1 DEF OwnLinks
    <2>3. GridNumbered(gs, Nr(gs, n)) = n
      BY <2>1, NumberFound
    <2> HIDE DEF links
    <2>4. u[n + 1] = Link(u[n], gs, n, n, self_nnc(lists[n]))
      BY <1>1, <1>2, <2>1, <2>2, <2>3 DEF LinkedUpTo
    <2>5. u[n + 1] = [u[n] EXCEPT ![n] = init_nnc_cells(u[n][n], gs, n, n, self_nnc(lists[n]))]
      BY <1>4, <2>1, <2>4 DEF Link
    <2>6. u[n][n] = <<>> /\ DOMAIN u[n] = 0 .. Len(gs)
      <3>1. ~(n < n)
        BY <2>1
      <3>2. NncFit(gs, u[n])
        BY <1>1, <1>2, <2>1 DEF LinkedUpTo
      <3> QED BY <1>6, <2>1, <3>1, <3>2 DEF NncFit
    <2>7. ASSUME NEW h \in 0 .. Len(gs) PROVE u[n + 1][h] = IF h < n + 1 THEN Own1(h) ELSE <<>>
      <3>1. CASE h = n
        <4>1. h < n + 1
          BY <2>1, <3>1
        <4> QED BY <2>5, <2>6, <3>1, <4>1
      <3>2. CASE h # n
        <4>1. u[n + 1][h] = u[n][h]
          BY <2>5, <2>6, <3>2
        <4>2. (h < n) <=> (h < n + 1)
          BY <1>3, <2>1, <3>2
        <4> HIDE DEF Own1
        <4> QED BY <1>6, <4>1, <4>2
      <3> QED BY <3>1, <3>2
    <2> HIDE DEF Own1
    <2> QED BY <1>3, <2>1, <2>7
  <1> HIDE DEF T
  <1>7. 0 .. N \subseteq T
    BY <1>3, <1>5, <1>6, UpToInduction
  <1>8. Done1(u, N)
    BY <1>3, <1>7 DEF T
  <1>9. init_nnc(gs, links) = u[N]
    BY <1>1, <1>2 DEF LinkedUpTo
  <1>10. \A h \in 0 .. Len(gs) : h < N
    BY <1>3
  <1> QED BY <1>8, <1>9, <1>10

LEMMA ConnectionsReadBack ==
    ASSUME NEW gs, LgrsFit(gs), Numbered(gs), NEW lists, NncFit(gs, lists),
           \A l \in Range(OwnLinks(gs, lists)) : ~LinkFails(gs, l),
           NEW h \in 0 .. Len(gs), NEW k \in Nat
    PROVE  PairOf(init_nnc(gs, OwnLinks(gs, lists))[h], k) = PairOf(lists[h], k)
  <1> DEFINE pairs == self_nnc(lists[h])
  <1>1. ListFits(gs, h, lists[h])
    BY DEF NncFit
  <1>2. /\ pairs \in Seq(Range(pairs))
        /\ PairOf(lists[h], k) = IF k < Len(pairs) THEN pairs[k + 1] ELSE <<0, 0>>
    BY <1>1, SelfPairs
  <1>3. init_nnc(gs, OwnLinks(gs, lists))[h] = init_nnc_cells(<<>>, gs, h, h, pairs)
    BY LinkedAlone
  <1>4. PairOf(lists[h], k) = <<PairOf(lists[h], k)[1], PairOf(lists[h], k)[2]>>
    BY <1>1, PairWithin
  <1> HIDE DEF pairs
  <1>5. PairOf(init_nnc_cells(<<>>, gs, h, h, pairs), k)
            = IF k < Len(pairs) THEN <<pairs[k + 1][1], pairs[k + 1][2]>> ELSE <<0, 0>>
    BY <1>2, PairsReadBack
  <1>6. CASE k < Len(pairs)
    <2>1. PairOf(lists[h], k) = pairs[k + 1]
      BY <1>2, <1>6
    <2> QED BY <1>3, <1>4, <1>5, <1>6, <2>1
  <1>7. CASE ~(k < Len(pairs))
    BY <1>2, <1>3, <1>5, <1>7
  <1> QED BY <1>6, <1>7

-----------------------------------------------------------------------------
(* The numbering that a grid with these active cells gets when it is       *)
(* loaded, whatever grid was there before.                                 *)

GroupIndexOf(act) == [c \in Groups |-> [kind \in Kinds |-> IndexOfGroup(act, kind, c)]]
TotalOf(act) == [kind \in Kinds |-> Cardinality({g \in Cells : TakesIndex(act, kind, g)})]
IndexLoaded(act) ==
    [kind \in Kinds |->
        IndexMapOf(act, kind, ValuesRecorded(NoRecord, act), GroupIndexOf(act))]
InverseLoaded(act) ==
    [kind \in Kinds |->
        InverseOf(<<>>, act, kind, CellsRecorded(NoRecord, act), ValuesRecorded(NoRecord, act),
                  GroupIndexOf(act), TotalOf(act)[kind])]

(* As long as actnum has not changed a coarse group, a grid is numbered as *)
(* one that is loaded, and writes the active cells it has.                 *)
NumberedRight(s) ==
    AsRecorded(s) => /\ s.actnum = s.active /\ s.total_active = TotalOf(s.active)
                     /\ s.index_map = IndexLoaded(s.active)
                     /\ s.inv_index_map = InverseLoaded(s.active)

RecordsTyped(values) == \A c \in Groups : values[c] \in Seq(ActiveValues)

LEMMA ValuesOfUpdate ==
    ASSUME NEW act \in [Cells -> ActiveValues], NEW cells, NEW values, RecordsKept(cells, values),
           RecordsTyped(values)
    PROVE  RecordsTyped(ValuesRecorded(values, act))
  <1> SUFFICES ASSUME NEW c \in Groups PROVE ValuesRecorded(values, act)[c] \in Seq(ActiveValues)
    BY DEF RecordsTyped
  <1> DEFINE S == ActiveMembers(act, c)
             more == [n \in 1 .. Cardinality(S) |-> act[InOrder(S)[n]]]
  <1>1. S \in SUBSET Cells
    BY DEF ActiveMembers, Members
  <1>2. InOrder(S) \in [1 .. Cardinality(S) -> S] /\ Cardinality(S) \in Nat
    BY <1>1, InOrderLists
  <1> HIDE DEF S
  <1>3. more \in [1 .. Cardinality(S) -> ActiveValues]
    BY <1>1, <1>2
  <1>4. ValuesRecorded(values, act)[c] = values[c] \o more
    BY DEF ValuesRecorded, S
  <1> HIDE DEF more
  <1>5. more \in Seq(ActiveValues)
    BY <1>2, <1>3, WrittenOut
  <1>6. values[c] \in Seq(ActiveValues)
    BY DEF RecordsTyped
  <1> QED BY <1>4, <1>5, <1>6, ConcatProperties

(* What a grid writes as ACTNUM is a value for every cell.                 *)
LEMMA ActnumTyped ==
    ASSUME NEW act \in [Cells -> ActiveValues], NEW cells, NEW values, RecordsKept(cells, values),
           RecordsTyped(values)
    PROVE  ActnumData(act, cells, values) \in [Cells -> ActiveValues]
  <1> SUFFICES ASSUME NEW g \in Cells, CoarseGroup[g] # NoGroup
               PROVE  LET on == {n \in DOMAIN cells[CoarseGroup[g]] : cells[CoarseGroup[g]][n] = g}
                      IN  on # {} => values[CoarseGroup[g]][Max(on)] \in ActiveValues
    BY DEF ActnumData, ActiveValues, Inactive
  <1> DEFINE c == CoarseGroup[g]
             on == {n \in DOMAIN cells[c] : cells[c][n] = g}
  <1>1. c \in Groups
    BY GridIndexAssumption
  <1> HIDE DEF c
  <1>2. /\ values[c] \in Seq(ActiveValues) /\ Len(values[c]) \in Nat
        /\ DOMAIN cells[c] = 1 .. Len(values[c])
    BY <1>1, LenProperties DEF RecordsKept, RecordsTyped
  <1>3. on # {} => Max(on) \in 1 .. Len(values[c])
    <2>1. on \in SUBSET (0 .. Len(values[c])) /\ on \in SUBSET (1 .. Len(values[c]))
      BY <1>2
    <2> HIDE DEF on
    <2> QED BY <1>2, <2>1, MaxOfSome
  <1>4. on # {} => values[c][Max(on)] \in ActiveValues
    <2> HIDE DEF on
    <2> QED BY <1>2, <1>3, ElementOfSeq
  <1> QED BY <1>4 DEF c

(* The records of a grid that is as recorded are those of a grid that is   *)
(* loaded.                                                                 *)
LEMMA RecordedOnce ==
    ASSUME NEW act, NEW cells, NEW values, RecordsKept(cells, values),
           \A c \in Groups : CellsRecorded(cells, act)[c] = InOrder(ActiveMembers(act, c))
    PROVE  /\ CellsRecorded(cells, act) = CellsRecorded(NoRecord, act)
           /\ ValuesRecorded(values, act) = ValuesRecorded(NoRecord, act)
  <1>1. ASSUME NEW c \in Groups PROVE cells[c] = <<>> /\ values[c] = <<>>
    <2> DEFINE S == ActiveMembers(act, c)
    <2>1. S \in SUBSET Cells /\ S \in SUBSET Members(c)
      BY DEF ActiveMembers, Members
    <2>2. /\ InOrder(S) \in Seq(S) /\ Len(InOrder(S)) \in Nat
          /\ InOrder(S) \in [1 .. Cardinality(S) -> S] /\ Cardinality(S) \in Nat
      BY <2>1, InOrderLists, LenProperties
    <2>3. /\ cells[c] \in Seq(Members(c)) /\ values[c] \in Seq(Range(values[c]))
          /\ Len(values[c]) = Len(cells[c]) /\ Len(cells[c]) \in Nat
      BY LenProperties DEF RecordsKept
    <2>4. CellsRecorded(cells, act)[c] = cells[c] \o InOrder(S)
      BY DEF CellsRecorded
    <2>5. cells[c] \o InOrder(S) = InOrder(S)
      BY <2>4
    <2> HIDE DEF S
    <2>6. InOrder(S) \in Seq(Members(c))
      <3>1. InOrder(S) \in [1 .. Cardinality(S) -> Members(c)]
        BY <2>1, <2>2
      <3> QED BY <2>2, <3>1, WrittenOut
    <2>7. Len(cells[c] \o InOrder(S)) = Len(cells[c]) + Len(InOrder(S))
      BY <2>3, <2>6, ConcatProperties
    <2>8. Len(cells[c]) = 0
      BY <2>2, <2>3, <2>5, <2>7
    <2> QED BY <2>3, <2>8, EmptySeq
  <1>2. \A c \in Groups : NoRecord[c] = <<>>
    BY DEF NoRecord
  <1> QED BY <1>1, <1>2 DEF CellsRecorded, ValuesRecorded

(* The inverse map is written anew: nothing is left of the old one.        *)
LEMMA InverseAnew ==
    ASSUME NEW act, NEW cells, NEW values, ~Mixed(values), ActiveRecorded(act, values),
           \A c \in Groups : values[c] \in Seq(Range(values[c])), NEW old, NEW kind \in Kinds
    PROVE  InverseOf(old, act, kind, cells, values, GroupIndexOf(act), TotalOf(act)[kind])
               = InverseOf(<<>>, act, kind, cells, values, GroupIndexOf(act), TotalOf(act)[kind])
  <1> DEFINE total == TotalOf(act)[kind]
             gindex == GroupIndexOf(act)
             groups(a) == {c \in Groups : GroupIndexes(kind, c, values) /\ gindex[c][kind] = a}
             plain(a) == {g \in Cells : /\ CoarseGroup[g] = NoGroup /\ kind \in act[g]
                                        /\ Counter(act, kind, g) = a}
             at(was, a) == IF groups(a) # {} THEN Head(cells[CHOOSE c \in groups(a) : TRUE])
                           ELSE IF plain(a) # {} THEN CHOOSE g \in plain(a) : TRUE
                           ELSE Resized(was, total)[a]
  <1>1. \A was : InverseOf(was, act, kind, cells, values, gindex, total)
                     = [a \in 0 .. total - 1 |-> at(was, a)]
    BY DEF InverseOf
  <1>2. total = Cardinality({g \in Cells : TakesIndex(act, kind, g)})
    BY DEF TotalOf
  <1>3. ASSUME NEW a \in 0 .. total - 1 PROVE groups(a) # {} \/ plain(a) # {}
    <2> HIDE DEF total
    <2>1. PICK g \in Cells : TakesIndex(act, kind, g) /\ Counter(act, kind, g) = a
      BY <1>2, EveryIndexTaken
    <2>2. CASE CoarseGroup[g] = NoGroup
      BY <2>1, <2>2 DEF TakesIndex
    <2>3. CASE CoarseGroup[g] # NoGroup
      <3>1. /\ CoarseGroup[g] \in Groups /\ GroupIndexes(kind, CoarseGroup[g], values)
            /\ IndexOfGroup(act, kind, CoarseGroup[g]) = a
        BY <2>1, <2>3, GroupOfIndex
      <3>2. gindex[CoarseGroup[g]][kind] = a
        BY <3>1 DEF GroupIndexOf
      <3> QED BY <3>1, <3>2
    <2> QED BY <2>2, <2>3
  <1> HIDE DEF groups, plain, total, gindex
  <1>4. \A a \in 0 .. total - 1 : at(old, a) = at(<<>>, a)
    BY <1>3
  <1> HIDE DEF at
  <1>5. [a \in 0 .. total - 1 |-> at(old, a)] = [a \in 0 .. total - 1 |-> at(<<>>, a)]
    BY <1>4
  <1> QED BY <1>1, <1>5 DEF total, gindex

(* A grid that is as recorded writes the active cells it has.              *)
LEMMA ActnumRight ==
    ASSUME NEW act \in [Cells -> ActiveValues]
    PROVE  ActnumData(act, CellsRecorded(NoRecord, act), ValuesRecorded(NoRecord, act)) = act
  <1> DEFINE cells == CellsRecorded(NoRecord, act)
             values == ValuesRecorded(NoRecord, act)
             data == ActnumData(act, cells, values)
             S(c) == ActiveMembers(act, c)
             more(c) == [n \in 1 .. Cardinality(S(c)) |-> act[InOrder(S(c))[n]]]
  <1>1. ASSUME NEW c \in Groups
        PROVE  /\ cells[c] = InOrder(S(c)) /\ values[c] = more(c)
               /\ InOrder(S(c)) \in [1 .. Cardinality(S(c)) -> S(c)] /\ Cardinality(S(c)) \in Nat
               /\ \A x \in S(c) : \E n \in 1 .. Cardinality(S(c)) : InOrder(S(c))[n] = x
    <2>1. S(c) \in SUBSET Cells
      BY DEF ActiveMembers, Members
    <2>2. /\ InOrder(S(c)) \in Seq(S(c)) /\ Cardinality(S(c)) \in Nat
          /\ InOrder(S(c)) \in [1 .. Cardinality(S(c)) -> S(c)]
          /\ \A x \in S(c) : \E n \in 1 .. Cardinality(S(c)) : InOrder(S(c))[n] = x
      BY <2>1, InOrderLists
    <2>3. more(c) \in Seq(Range(more(c)))
      <3>1. more(c) \in [1 .. Cardinality(S(c)) -> Range(more(c))]
        BY DEF Range
      <3> HIDE DEF more
      <3> QED BY <2>2, <3>1, WrittenOut
    <2>4. cells[c] = <<>> \o InOrder(S(c)) /\ values[c] = <<>> \o more(c)
      BY DEF CellsRecorded, ValuesRecorded, NoRecord
    <2> HIDE DEF cells, values, more
    <2> QED BY <2>2, <2>3, <2>4, ConcatEmptySeq
  <1> HIDE DEF cells, values
  <1>2. ASSUME NEW g \in Cells PROVE data[g] = act[g]
    <2>1. CASE CoarseGroup[g] = NoGroup
      BY <2>1 DEF ActnumData
    <2>2. CASE CoarseGroup[g] # NoGroup
      <3> DEFINE c == CoarseGroup[g]
                 N == Cardinality(S(c))
                 on == {n \in DOMAIN cells[c] : cells[c][n] = g}
      <3>1. data[g] = IF on = {} THEN Inactive ELSE values[c][Max(on)]
        BY <2>2 DEF ActnumData
      <3>2. c \in Groups /\ g \in Members(c)
        BY <2>2, GridIndexAssumption DEF Members
      <3> HIDE DEF c, data
      <3>3. DOMAIN cells[c] = 1 .. N /\ N \in Nat
        BY <1>1, <3>2
      <3>4. CASE g \in S(c)
        <4>1. PICK n \in 1 .. N : InOrder(S(c))[n] = g
          BY <1>1, <3>2, <3>4
        <4>2. on # {}
          BY <1>1, <3>2, <3>3, <4>1
        <4>3. on \in SUBSET (1 .. N) /\ on \in SUBSET (0 .. N)
          BY <3>3
        <4>4. Max(on) \in on /\ Max(on) \in 1 .. N
          <5> HIDE DEF on, N
          <5> QED BY <3>3, <4>2, <4>3, MaxOfSome
        <4>5. InOrder(S(c))[Max(on)] = g
          BY <1>1, <3>2, <4>4
        <4>6. values[c][Max(on)] = act[g]
          <5>1. more(c)[Max(on)] = act[InOrder(S(c))[Max(on)]]
            <6> HIDE DEF on
            <6> QED BY <4>4
          <5> HIDE DEF on, more
          <5> QED BY <1>1, <3>2, <4>5, <5>1
        <4> HIDE DEF on
        <4> QED BY <3>1, <4>2, <4>6
      <3>5. CASE g \notin S(c)
        <4>1. act[g] = Inactive
          BY <3>2, <3>5 DEF ActiveMembers
        <4>2. \A n \in 1 .. N : cells[c][n] \in S(c)
          BY <1>1, <3>2
        <4>3. on = {}
          BY <3>3, <3>5, <4>2
        <4> QED BY <3>1, <4>1, <4>3
      <3> QED BY <3>4, <3>5
    <2> QED BY <2>1, <2>2
  <1>3. data = [g \in Cells |-> data[g]]
    BY DEF ActnumData
  <1> HIDE DEF data
  <1>4. data = act
    BY <1>2, <1>3
  <1> QED BY <1>4 DEF data, cells, values

-----------------------------------------------------------------------------
(* Files that are written, and what is loaded from them.                   *)

GridFits(s) ==
    /\ LgrsFit(s.lgrs) /\ NncFit(s.lgrs, s.nnc) /\ s.unit \in UnitNames
    /\ s.scale \in [0 .. Len(s.lgrs) -> [1 .. 2 -> Int]]
    /\ s.active \in [Cells -> ActiveValues] /\ s.actnum \in [Cells -> ActiveValues]

(* The sections of a grid and those of its N local grids.                  *)
InTurn(all, first, rest, N) ==
    /\ all \in Seq(Range(all)) /\ Len(all) = N + 1 /\ all # <<>> /\ DOMAIN all = 1 .. N + 1
    /\ all[1] = first /\ \A i \in 1 .. N : all[i + 1] = rest[i]

LEMMA SectionsInTurn ==
    ASSUME NEW first, NEW N \in Nat, NEW R, NEW rest \in [1 .. N -> R]
    PROVE  InTurn(<<first>> \o rest, first, rest, N)
  <1> DEFINE S == {first} \cup R
             all == <<first>> \o rest
  <1>1. rest \in [1 .. N -> S]
    OBVIOUS
  <1>2. <<first>> \in Seq(S) /\ Len(<<first>>) = 1 /\ <<first>>[1] = first
    OBVIOUS
  <1> HIDE DEF S
  <1>3. rest \in Seq(S) /\ Len(rest) = N
    BY <1>1, WrittenOut
  <1>4. /\ all \in Seq(S) /\ Len(all) = 1 + N
        /\ \A n \in 1 .. 1 + N : all[n] = IF n <= 1 THEN <<first>>[n] ELSE rest[n - 1]
    BY <1>2, <1>3, ConcatProperties
  <1> HIDE DEF all
  <1>5. all \in [1 .. N + 1 -> S] /\ Len(all) = N + 1 /\ N + 1 \in Nat /\ N + 1 # 0
    <2>1. all \in [1 .. Len(all) -> S]
      BY <1>4, LenProperties
    <2>2. 1 + N = N + 1
      OBVIOUS
    <2>3. Len(all) = N + 1
      BY <1>4, <2>2
    <2>4. all \in [1 .. N + 1 -> S]
      BY <2>1, <2>3, Zenon
    <2> QED BY <2>3, <2>4
  <1>6. all \in [1 .. N + 1 -> Range(all)]
    BY <1>5 DEF Range
  <1>7. all \in Seq(Range(all))
    BY <1>5, <1>6, WrittenOut
  <1>8. all[1] = first
    BY <1>2, <1>4
  <1>9. ASSUME NEW i \in 1 .. N PROVE all[i + 1] = rest[i]
    <2>1. i + 1 \in 1 .. 1 + N /\ ~(i + 1 <= 1) /\ (i + 1) - 1 = i
      OBVIOUS
    <2> QED BY <1>4, <2>1
  <1>10. all # <<>>
    BY <1>5
  <1>11. DOMAIN all = 1 .. N + 1
    BY <1>5
  <1>12. InTurn(all, first, rest, N)
    BY <1>5, <1>7, <1>8, <1>9, <1>10, <1>11 DEF InTurn
  <1> QED BY <1>12 DEF all

LEMMA EGRIDWritten ==
    ASSUME NEW s, LgrsFit(s.lgrs), NEW u, NEW f, f = EGRIDFile(s, u)
    PROVE  /\ f.kind = "EGRID" /\ f.unit = u /\ f.axes = (s.axes # "none")
           /\ f.links = OwnLinks(s.lgrs, s.nnc)
           /\ f.sections \in Seq(Range(f.sections)) /\ Len(f.sections) = Len(s.lgrs) + 1
           /\ f.sections # <<>> /\ DOMAIN f.sections = 1 .. Len(s.lgrs) + 1
           /\ f.sections[1].actnum = s.actnum
           /\ f.sections[1].scale = output_scaling(s.scale[0], s.unit, u)
           /\ \A i \in 1 .. Len(s.lgrs) :
                  /\ f.sections[i + 1].name = s.lgrs[i].name
                  /\ f.sections[i + 1].parent = s.lgrs[i].parent
                  /\ f.sections[i + 1].nr = s.lgrs[i].nr
                  /\ f.sections[i + 1].actnum = s.lgrs[i].active
                  /\ f.sections[i + 1].host = s.lgrs[i].host
                  /\ f.sections[i + 1].scale = output_scaling(s.scale[i], s.lgrs[i].unit, u)
  <1> DEFINE gs == s.lgrs
             N == Len(gs)
             first == Section("", "", 0, s.actnum, <<>>, output_scaling(s.scale[0], s.unit, u))
             rest == [i \in DOMAIN gs |->
                         Section(gs[i].name, gs[i].parent, gs[i].nr, gs[i].active,
                                 gs[i].host, output_scaling(s.scale[i], gs[i].unit, u))]
  <1>1. DOMAIN gs = 1 .. N /\ N \in Nat
    BY GridShape
  <1>2. /\ f.kind = "EGRID" /\ f.unit = u /\ f.axes = (s.axes # "none")
        /\ f.links = OwnLinks(s.lgrs, s.nnc)
    BY DEF EGRIDFile
  <1>3. f.sections = <<first>> \o rest
    BY DEF EGRIDFile
  <1>4. rest \in [1 .. N -> Range(rest)]
    BY <1>1 DEF Range
  <1>5. first.actnum = s.actnum /\ first.scale = output_scaling(s.scale[0], s.unit, u)
    BY DEF Section
  <1>6. ASSUME NEW i \in 1 .. N
        PROVE  /\ rest[i].name = gs[i].name /\ rest[i].parent = gs[i].parent
               /\ rest[i].nr = gs[i].nr /\ rest[i].actnum = gs[i].active
               /\ rest[i].host = gs[i].host
               /\ rest[i].scale = output_scaling(s.scale[i], gs[i].unit, u)
    BY <1>1 DEF Section
  <1> HIDE DEF first, rest, N, gs
  <1>7. /\ f.sections \in Seq(Range(f.sections)) /\ Len(f.sections) = N + 1
        /\ f.sections # <<>> /\ DOMAIN f.sections = 1 .. N + 1
        /\ f.sections[1] = first /\ \A i \in 1 .. N : f.sections[i + 1] = rest[i]
    <2>1. InTurn(<<first>> \o rest, first, rest, N)
      BY <1>1, <1>4, SectionsInTurn
    <2>2. InTurn(f.sections, first, rest, N)
      BY <1>3, <2>1, Zenon
    <2> QED BY <2>2 DEF InTurn
  <1> QED BY <1>2, <1>5, <1>6, <1>7 DEF N, gs

LEMMA GRIDWritten ==
    ASSUME NEW s, LgrsFit(s.lgrs), NEW u, NEW f, f = GRIDFile(s, u)
    PROVE  /\ f.kind = "GRID" /\ f.unit = u /\ f.axes = (s.axes = "applied") /\ f.links = <<>>
           /\ f.sections \in Seq(Range(f.sections)) /\ Len(f.sections) = Len(s.lgrs) + 1
           /\ f.sections # <<>> /\ DOMAIN f.sections = 1 .. Len(s.lgrs) + 1
           /\ f.sections[1].actnum = s.active /\ f.sections[1].scale = s.scale[0]
           /\ \A i \in 1 .. Len(s.lgrs) :
                  /\ f.sections[i + 1].name = s.lgrs[i].name
                  /\ f.sections[i + 1].nr = 0
                  /\ f.sections[i + 1].actnum = s.lgrs[i].active
                  /\ f.sections[i + 1].host = s.lgrs[i].host
                  /\ f.sections[i + 1].scale = s.scale[i]
  <1> DEFINE gs == s.lgrs
             N == Len(gs)
             first == Section("", "", 0, s.active, <<>>, s.scale[0])
             rest == [i \in DOMAIN gs |->
                         Section(gs[i].name, "", 0, gs[i].active, gs[i].host, s.scale[i])]
  <1>1. DOMAIN gs = 1 .. N /\ N \in Nat
    BY GridShape
  <1>2. f.kind = "GRID" /\ f.unit = u /\ f.axes = (s.axes = "applied") /\ f.links = <<>>
    BY DEF GRIDFile
  <1>3. f.sections = <<first>> \o rest
    BY DEF GRIDFile
  <1>4. rest \in [1 .. N -> Range(rest)]
    BY <1>1 DEF Range
  <1>5. first.actnum = s.active /\ first.scale = s.scale[0]
    BY DEF Section
  <1>6. ASSUME NEW i \in 1 .. N
        PROVE  /\ rest[i].name = gs[i].name /\ rest[i].nr = 0
               /\ rest[i].actnum = gs[i].active /\ rest[i].host = gs[i].host
               /\ rest[i].scale = s.scale[i]
    BY <1>1 DEF Section
  <1> HIDE DEF first, rest, N, gs
  <1>7. /\ f.sections \in Seq(Range(f.sections)) /\ Len(f.sections) = N + 1
        /\ f.sections # <<>> /\ DOMAIN f.sections = 1 .. N + 1
        /\ f.sections[1] = first /\ \A i \in 1 .. N : f.sections[i + 1] = rest[i]
    <2>1. InTurn(<<first>> \o rest, first, rest, N)
      BY <1>1, <1>4, SectionsInTurn
    <2>2. InTurn(f.sections, first, rest, N)
      BY <1>3, <2>1, Zenon
    <2> QED BY <2>2 DEF InTurn
  <1> QED BY <1>2, <1>5, <1>6, <1>7 DEF N, gs

LEMMA ScalingTyped ==
    ASSUME NEW s \in [1 .. 2 -> Int], NEW u \in UnitNames, NEW v \in UnitNames
    PROVE  /\ output_scaling(s, u, v) \in [1 .. 2 -> Int]
           /\ output_scaling(output_scaling(s, u, v), v, u) = s
  <1> DEFINE t == output_scaling(s, u, v)
  <1>1. ASSUME NEW w \in UnitNames PROVE Factors(w) \in [1 .. 2 -> Int]
    <2>1. Factors(w) \in {<<0, 0>>, <<1, 0>>, <<0, 1>>}
      BY DEF Factors, UnitNames
    <2> QED BY <2>1
  <1>2. t = [n \in 1 .. 2 |-> s[n] - Factors(u)[n] + Factors(v)[n]]
    BY DEF output_scaling
  <1> HIDE DEF t
  <1>3. \A n \in 1 .. 2 : s[n] \in Int /\ Factors(u)[n] \in Int /\ Factors(v)[n] \in Int
    BY <1>1
  <1>4. t \in [1 .. 2 -> Int]
    BY <1>2, <1>3
  <1>5. \A n \in 1 .. 2 : t[n] - Factors(v)[n] + Factors(u)[n] = s[n]
    BY <1>2, <1>3
  <1>6. output_scaling(t, v, u) = [n \in 1 .. 2 |-> t[n] - Factors(v)[n] + Factors(u)[n]]
    BY DEF output_scaling
  <1>7. output_scaling(t, v, u) = s
    BY <1>5, <1>6
  <1> QED BY <1>4, <1>7 DEF t

(* A section that a file has is that of the main grid or of an LGR.        *)
LEMMA EGRIDLoads ==
    ASSUME NEW s, GridFits(s), NEW u \in UnitNames, NEW f, f = EGRIDFile(s, u)
    PROVE  /\ IsFile(f) /\ LgrsOf(f) = s.lgrs /\ ActnumOf(f, 1) = s.actnum
           /\ \A i \in 0 .. Len(s.lgrs) : f.sections[i + 1].scale \in [1 .. 2 -> Int]
  <1> DEFINE gs == s.lgrs
             N == Len(gs)
  <1>1. /\ LgrsFit(gs) /\ NncFit(gs, s.nnc) /\ s.unit \in UnitNames
        /\ s.scale \in [0 .. N -> [1 .. 2 -> Int]] /\ s.actnum \in [Cells -> ActiveValues]
        /\ N \in Nat /\ DOMAIN gs = 1 .. N
    BY GridShape DEF GridFits
  <1>2. /\ f.kind = "EGRID" /\ f.unit = u /\ f.axes = (s.axes # "none")
        /\ f.links = OwnLinks(gs, s.nnc)
        /\ f.sections \in Seq(Range(f.sections)) /\ Len(f.sections) = N + 1
        /\ f.sections # <<>> /\ DOMAIN f.sections = 1 .. N + 1
        /\ f.sections[1].actnum = s.actnum
        /\ f.sections[1].scale = output_scaling(s.scale[0], s.unit, u)
        /\ \A i \in 1 .. N :
               /\ f.sections[i + 1].name = gs[i].name /\ f.sections[i + 1].parent = gs[i].parent
               /\ f.sections[i + 1].nr = gs[i].nr /\ f.sections[i + 1].actnum = gs[i].active
               /\ f.sections[i + 1].host = gs[i].host
               /\ f.sections[i + 1].scale = output_scaling(s.scale[i], gs[i].unit, u)
    BY <1>1, EGRIDWritten
  <1> HIDE DEF gs, N
  <1>3. ASSUME NEW n \in 1 .. N + 1 PROVE n = 1 \/ (n - 1 \in 1 .. N /\ n = (n - 1) + 1)
    BY <1>1
  <1>4. \A i \in 1 .. N : /\ gs[i].unit = "METRIC" /\ gs[i].active # NoActnum /\ gs[i].nr \in Nat
                         /\ 0 \in DOMAIN gs[i].host /\ DOMAIN gs[i].host \subseteq Nat
                         /\ LgrRecord(gs[i])
    BY <1>1 DEF LgrsFit
  <1>5. s.actnum # NoActnum
    BY <1>1, GridIndexAssumption DEF NoActnum, Cells
  <1>6. \A n \in 1 .. N + 1 : f.sections[n].actnum # NoActnum
    BY <1>2, <1>3, <1>4, <1>5
  <1>7. \A i \in 1 .. N + 1 : ActnumOf(f, i) = f.sections[i].actnum
    <2>1. N + 1 \in Nat /\ DOMAIN f.sections = 1 .. N + 1
      BY <1>1, <1>2
    <2> DEFINE M == N + 1
    <2>2. M \in Nat /\ DOMAIN f.sections = 1 .. M /\ \A n \in 1 .. M : f.sections[n].actnum # NoActnum
      BY <1>6, <2>1
    <2> HIDE DEF M
    <2>3. \A i \in 1 .. M : ActnumOf(f, i) = f.sections[i].actnum
      BY <2>2, ActnumInTurn
    <2> QED BY <2>3 DEF M
  <1>8. ActnumOf(f, 1) = s.actnum
    BY <1>1, <1>2, <1>7
  <1>9. \A n \in 1 .. N + 1 : f.sections[n].scale \in [1 .. 2 -> Int]
    <2>1. "METRIC" \in UnitNames
      BY DEF UnitNames
    <2>2. f.sections[1].scale \in [1 .. 2 -> Int]
      <3>1. s.scale[0] \in [1 .. 2 -> Int] /\ s.unit \in UnitNames
        BY <1>1
      <3>2. output_scaling(s.scale[0], s.unit, u) \in [1 .. 2 -> Int]
        BY <3>1, ScalingTyped
      <3> QED BY <1>2, <3>2, Zenon
    <2>3. ASSUME NEW i \in 1 .. N PROVE f.sections[i + 1].scale \in [1 .. 2 -> Int]
      <3>1. s.scale[i] \in [1 .. 2 -> Int]
        BY <1>1
      <3>2. output_scaling(s.scale[i], "METRIC", u) \in [1 .. 2 -> Int]
        BY <2>1, <3>1, ScalingTyped
      <3>3. f.sections[i + 1].scale = output_scaling(s.scale[i], gs[i].unit, u) /\ gs[i].unit = "METRIC"
        BY <1>2, <1>4
      <3> QED BY <3>2, <3>3, Zenon
    <2> QED BY <1>3, <2>2, <2>3
  <1>10. /\ f.links \in Seq(Range(f.links))
         /\ \A l \in Range(f.links) : ArePairs(l.pairs)
    BY <1>1, <1>2, OwnLinksShape
  <1>11. ASSUME NEW n \in 2 .. Len(f.sections)
         PROVE  /\ f.sections[n].nr \in Nat
                /\ 0 \in DOMAIN f.sections[n].host /\ DOMAIN f.sections[n].host \subseteq Nat
    <2>1. n - 1 \in 1 .. N /\ (n - 1) + 1 = n
      BY <1>1, <1>2
    <2> QED BY <1>2, <1>4, <2>1
  <1>12. IsFile(f)
    BY <1>1, <1>2, <1>8, <1>9, <1>10, <1>11 DEF IsFile
  <1>13. LgrsOf(f) = gs
    <2>1. Len(f.sections) - 1 = N
      BY <1>1, <1>2
    <2>2. ASSUME NEW i \in 1 .. N
          PROVE  [name |-> f.sections[i + 1].name, parent |-> f.sections[i + 1].parent,
                  nr |-> IF f.kind = "EGRID" THEN f.sections[i + 1].nr ELSE i,
                  host |-> f.sections[i + 1].host, active |-> ActnumOf(f, i + 1),
                  unit |-> "METRIC"] = gs[i]
      <3>1. i + 1 \in 1 .. N + 1
        BY <1>1
      <3>2. ActnumOf(f, i + 1) = gs[i].active
        BY <1>2, <1>7, <3>1
      <3>3. gs[i] = [name |-> gs[i].name, parent |-> gs[i].parent, nr |-> gs[i].nr,
                     host |-> gs[i].host, active |-> gs[i].active, unit |-> gs[i].unit]
        BY <1>4 DEF LgrRecord
      <3> QED BY <1>2, <1>4, <3>2, <3>3
    <2>3. gs = [i \in 1 .. N |-> gs[i]]
      BY <1>1, LenProperties DEF LgrsFit
    <2> QED BY <2>1, <2>2, <2>3 DEF LgrsOf
  <1>14. \A i \in 0 .. N : f.sections[i + 1].scale \in [1 .. 2 -> Int]
    <2>1. \A i \in 0 .. N : i + 1 \in 1 .. N + 1
      BY <1>1
    <2> QED BY <1>9, <2>1
  <1> QED BY <1>8, <1>12, <1>13, <1>14 DEF gs, N

LEMMA GRIDLoads ==
    ASSUME NEW s, GridFits(s), NEW u \in UnitNames, NEW f, f = GRIDFile(s, u)
    PROVE  /\ IsFile(f) /\ ActnumOf(f, 1) = s.active /\ Len(LgrsOf(f)) = Len(s.lgrs)
           /\ \A i \in 1 .. Len(s.lgrs) : /\ LgrsOf(f)[i].name = s.lgrs[i].name
                                          /\ LgrsOf(f)[i].active = s.lgrs[i].active
                                          /\ LgrsOf(f)[i].host = s.lgrs[i].host
  <1> DEFINE gs == s.lgrs
             N == Len(gs)
  <1>1. /\ LgrsFit(gs) /\ s.scale \in [0 .. N -> [1 .. 2 -> Int]]
        /\ s.active \in [Cells -> ActiveValues] /\ N \in Nat /\ DOMAIN gs = 1 .. N
    BY GridShape DEF GridFits
  <1>2. /\ f.kind = "GRID" /\ f.unit = u /\ f.axes = (s.axes = "applied") /\ f.links = <<>>
        /\ f.sections \in Seq(Range(f.sections)) /\ Len(f.sections) = N + 1
        /\ f.sections # <<>> /\ DOMAIN f.sections = 1 .. N + 1
        /\ f.sections[1].actnum = s.active /\ f.sections[1].scale = s.scale[0]
        /\ \A i \in 1 .. N :
               /\ f.sections[i + 1].name = gs[i].name /\ f.sections[i + 1].nr = 0
               /\ f.sections[i + 1].actnum = gs[i].active /\ f.sections[i + 1].host = gs[i].host
               /\ f.sections[i + 1].scale = s.scale[i]
    <2>1. LgrsFit(s.lgrs)
      BY <1>1
    <2> QED BY <2>1, GRIDWritten, SMTT(30)
  <1> HIDE DEF gs, N
  <1>3. ASSUME NEW n \in 1 .. N + 1 PROVE n = 1 \/ (n - 1 \in 1 .. N /\ n = (n - 1) + 1)
    BY <1>1
  <1>4. \A i \in 1 .. N : /\ gs[i].active # NoActnum
                         /\ 0 \in DOMAIN gs[i].host /\ DOMAIN gs[i].host \subseteq Nat
    BY <1>1 DEF LgrsFit
  <1>5. s.active # NoActnum
    BY <1>1, GridIndexAssumption DEF NoActnum, Cells
  <1>6. \A n \in 1 .. N + 1 : f.sections[n].actnum # NoActnum
    BY <1>2, <1>3, <1>4, <1>5
  <1>7. \A i \in 1 .. N + 1 : ActnumOf(f, i) = f.sections[i].actnum
    <2>1. N + 1 \in Nat /\ DOMAIN f.sections = 1 .. N + 1
      BY <1>1, <1>2
    <2> DEFINE M == N + 1
    <2>2. M \in Nat /\ DOMAIN f.sections = 1 .. M /\ \A n \in 1 .. M : f.sections[n].actnum # NoActnum
      BY <1>6, <2>1
    <2> HIDE DEF M
    <2>3. \A i \in 1 .. M : ActnumOf(f, i) = f.sections[i].actnum
      BY <2>2, ActnumInTurn
    <2> QED BY <2>3 DEF M
  <1>8. ActnumOf(f, 1) = s.active
    BY <1>1, <1>2, <1>7
  <1>9. \A n \in 1 .. N + 1 : f.sections[n].scale \in [1 .. 2 -> Int]
    <2>1. f.sections[1].scale \in [1 .. 2 -> Int]
      BY <1>1, <1>2
    <2>2. ASSUME NEW i \in 1 .. N PROVE f.sections[i + 1].scale \in [1 .. 2 -> Int]
      <3>1. s.scale[i] \in [1 .. 2 -> Int]
        BY <1>1
      <3>2. f.sections[i + 1].scale = s.scale[i]
        BY <1>2
      <3> QED BY <3>1, <3>2, Zenon
    <2> QED BY <1>3, <2>1, <2>2
  <1>10. /\ f.links \in Seq(Range(f.links))
         /\ \A l \in Range(f.links) : ArePairs(l.pairs)
    BY <1>2, EmptySeq DEF Range
  <1>11. ASSUME NEW n \in 2 .. Len(f.sections)
         PROVE  /\ f.sections[n].nr \in Nat
                /\ 0 \in DOMAIN f.sections[n].host /\ DOMAIN f.sections[n].host \subseteq Nat
    <2>1. n - 1 \in 1 .. N /\ (n - 1) + 1 = n
      BY <1>1, <1>2
    <2> QED BY <1>2, <1>4, <2>1
  <1>12. IsFile(f)
    BY <1>1, <1>2, <1>8, <1>9, <1>10, <1>11 DEF IsFile
  <1> DEFINE hs == LgrsOf(f)
  <1>13. ASSUME NEW i \in 1 .. N
         PROVE  hs[i].name = gs[i].name /\ hs[i].active = gs[i].active /\ hs[i].host = gs[i].host
    <2>1. i + 1 \in 1 .. N + 1 /\ Len(f.sections) - 1 = N
      BY <1>1, <1>2
    <2>2. ActnumOf(f, i + 1) = gs[i].active
      BY <1>2, <1>7, <2>1
    <2> QED BY <1>2, <2>1, <2>2 DEF LgrsOf
  <1>14. Len(hs) = N
    <2>1. Len(f.sections) - 1 = N
      BY <1>1, <1>2
    <2>2. DOMAIN hs = 1 .. N /\ hs = [i \in 1 .. N |-> hs[i]]
      BY <2>1 DEF LgrsOf
    <2> HIDE DEF hs
    <2>3. hs \in [1 .. N -> Range(hs)]
      BY <2>2 DEF Range
    <2> QED BY <1>1, <2>3, WrittenOut
  <1> QED BY <1>8, <1>12, <1>13, <1>14 DEF gs, N

-----------------------------------------------------------------------------
(* The grid at every step, and the files that grids have been written to.  *)

KeptFor(f, s, name) ==
    \E u \in UnitNames :
        f = IF name \in {"EGRID", "FEGRID"} THEN EGRIDFile(s, u) ELSE GRIDFile(s, u)

SavedFit(files, was) ==
    /\ DOMAIN files = FileNames /\ DOMAIN was = FileNames
    /\ \A name \in FileNames :
           /\ files[name] = NoFile \/ IsFile(files[name])
           /\ was[name] # NoFile => /\ GridFits(was[name]) /\ NumberedRight(was[name])
                                    /\ KeptFor(files[name], was[name], name)

GridInv ==
    /\ updates \in Nat /\ RecordsTyped(active_values)
    /\ GridFits(Now) /\ (InUse => NumberedRight(Now))
    /\ cell_lgr = install_lgr(lgrs, gen, Bare(lgrs))
    /\ SavedFit(dir, saved)

(* The numbering of a grid after any update.                               *)
LEMMA GridUpdated ==
    ASSUME NEW act \in [Cells -> ActiveValues], NEW cells, NEW values, NEW inverse,
           RecordsKept(cells, values), RecordsTyped(values), updates \in Nat,
           UpdateIndex(act, cells, values, inverse)
    PROVE  /\ updates' \in Nat /\ RecordsTyped(active_values') /\ Now'.active = act
           /\ Now'.actnum \in [Cells -> ActiveValues] /\ (InUse' => NumberedRight(Now'))
  <1> DEFINE cells2 == CellsRecorded(cells, act)
             values2 == ValuesRecorded(values, act)
  <1>1. /\ active' = act /\ active_cells' = cells2 /\ active_values' = values2
        /\ total_active' = TotalOf(act)
        /\ index_map' = [kind \in Kinds |-> IndexMapOf(act, kind, values2, GroupIndexOf(act))]
        /\ inv_index_map' = [kind \in Kinds |-> InverseOf(inverse[kind], act, kind, cells2, values2,
                                                         GroupIndexOf(act), TotalOf(act)[kind])]
        /\ status' = "ok" => ~Mixed(values2)
        /\ updates' = updates + 1
    BY DEF UpdateIndex, TotalOf, GroupIndexOf
  <1>2. /\ Now'.active = act /\ Now'.active_cells = cells2 /\ Now'.active_values = values2
        /\ Now'.total_active = total_active' /\ Now'.index_map = index_map'
        /\ Now'.inv_index_map = inv_index_map' /\ Now'.actnum = ActnumData(act, cells2, values2)
    BY <1>1 DEF Now
  <1>3. /\ RecordsKept(CellsRecorded(cells, act), ValuesRecorded(values, act))
        /\ ActiveRecorded(act, ValuesRecorded(values, act))
    BY Recorded
  <1>4. RecordsTyped(ValuesRecorded(values, act))
    BY ValuesOfUpdate
  <1>5. RecordsKept(cells2, values2) /\ ActiveRecorded(act, values2) /\ RecordsTyped(values2)
    BY <1>3, <1>4
  <1> HIDE DEF cells2, values2
  <1>6. Now'.actnum \in [Cells -> ActiveValues]
    BY <1>2, <1>5, ActnumTyped
  <1>7. ASSUME InUse', AsRecorded(Now')
        PROVE  /\ Now'.actnum = act /\ Now'.total_active = TotalOf(act)
               /\ Now'.index_map = IndexLoaded(act) /\ Now'.inv_index_map = InverseLoaded(act)
    <2>1. \A c \in Groups : CellsRecorded(cells, act)[c] = InOrder(ActiveMembers(act, c))
      BY <1>2, <1>7 DEF AsRecorded, cells2
    <2>2. cells2 = CellsRecorded(NoRecord, act) /\ values2 = ValuesRecorded(NoRecord, act)
      BY <2>1, RecordedOnce DEF cells2, values2
    <2>3. Now'.actnum = act
      BY <1>2, <2>2, ActnumRight
    <2>4. index_map' = IndexLoaded(act)
      BY <1>1, <2>2 DEF IndexLoaded
    <2>5. ~Mixed(values2)
      BY <1>1, <1>7 DEF InUse
    <2>6. \A c \in Groups : values2[c] \in Seq(Range(values2[c]))
      BY <1>5 DEF RecordsKept
    <2>7. \A kind \in Kinds :
              InverseOf(inverse[kind], act, kind, cells2, values2, GroupIndexOf(act), TotalOf(act)[kind])
                  = InverseOf(<<>>, act, kind, cells2, values2, GroupIndexOf(act), TotalOf(act)[kind])
      BY <1>5, <2>5, <2>6, InverseAnew
    <2>8. inv_index_map' = InverseLoaded(act)
      BY <1>1, <2>2, <2>7 DEF InverseLoaded
    <2> QED BY <1>1, <1>2, <2>3, <2>4, <2>8
  <1>8. InUse' => NumberedRight(Now')
    BY <1>2, <1>7 DEF NumberedRight
  <1> QED BY <1>1, <1>2, <1>5, <1>6, <1>8

(* A grid that is loaded.                                                  *)
LEMMA GridLoaded ==
    ASSUME NEW f, IsFile(f), NEW apply, ~LoadFails(f, LgrsOf(f)), GridOf(f, LgrsOf(f), apply),
           updates \in Nat
    PROVE  /\ updates' \in Nat /\ RecordsTyped(active_values')
           /\ GridFits(Now') /\ (InUse' => NumberedRight(Now'))
           /\ cell_lgr' = install_lgr(lgrs', gen', Bare(lgrs'))
  <1> DEFINE gs == LgrsOf(f)
  <1>1. /\ UpdateIndex(ActnumOf(f, 1), NoRecord, NoRecord, NoInverse)
        /\ unit' = f.unit /\ lgrs' = gs /\ gen' = gen + 1
        /\ scale' = [h \in 0 .. Len(gs) |-> f.sections[h + 1].scale]
        /\ cell_lgr' = install_lgr(gs, gen + 1, Bare(gs)) /\ nnc' = init_nnc(gs, f.links)
    BY DEF GridOf
  <1>2. ActnumOf(f, 1) \in [Cells -> ActiveValues] /\ f.unit \in UnitNames
    BY DEF IsFile
  <1>3. RecordsTyped(NoRecord)
    BY EmptySeq DEF RecordsTyped, NoRecord
  <1>4. /\ updates' \in Nat /\ RecordsTyped(active_values') /\ Now'.active = ActnumOf(f, 1)
        /\ Now'.actnum \in [Cells -> ActiveValues] /\ (InUse' => NumberedRight(Now'))
    BY <1>1, <1>2, <1>3, NothingRecorded, GridUpdated
  <1>5. LgrsFit(gs)
    BY LgrsOfFileFit
  <1>6. scale' \in [0 .. Len(gs) -> [1 .. 2 -> Int]]
    <2>1. Len(gs) \in Nat /\ DOMAIN gs = 1 .. Len(gs) /\ DOMAIN gs = 1 .. Len(f.sections) - 1
      BY <1>5, GridShape DEF LgrsOf
    <2>2. DOMAIN f.sections = 1 .. Len(f.sections) /\ Len(f.sections) \in Nat /\ Len(f.sections) # 0
      BY LenProperties, EmptySeq DEF IsFile
    <2>3. Len(gs) = Len(f.sections) - 1
      <3> HIDE DEF gs
      <3>1. Len(f.sections) - 1 \in Nat
        BY <2>2
      <3> QED BY <2>1, <3>1
    <2>4. \A h \in 0 .. Len(gs) : h + 1 \in DOMAIN f.sections
      <3> HIDE DEF gs
      <3> QED BY <2>2, <2>3
    <2> QED BY <1>1, <2>4 DEF IsFile
  <1>7. NncFit(gs, nnc')
    <2> HIDE DEF gs
    <2> DEFINE links == f.links
    <2>1. links \in Seq(Range(links)) /\ \A l \in Range(links) : ArePairs(l.pairs) /\ ~LinkFails(gs, l)
      BY DEF IsFile, LoadFails, gs
    <2>2. links \in Seq(Range(links)) /\ Len(links) \in Nat
      BY <2>1, LenProperties
    <2> HIDE DEF links
    <2>3. \E u : LinkedUpTo(u, gs, links)
      BY <1>5, <2>1, LinkedInTurn
    <2>4. NncFit(gs, init_nnc(gs, links))
      BY <2>2, <2>3 DEF LinkedUpTo
    <2> QED BY <1>1, <2>4 DEF links
  <1>8. /\ Now'.lgrs = gs /\ Now'.nnc = nnc' /\ Now'.unit = f.unit /\ Now'.scale = scale'
    BY <1>1 DEF Now
  <1>9. GridFits(Now')
    <2> HIDE DEF gs
    <2> QED BY <1>2, <1>4, <1>5, <1>6, <1>7, <1>8 DEF GridFits
  <1> QED BY <1>1, <1>4, <1>9

(* The local grids of a copy have no numbers, so nothing is said of where  *)
(* its connections lead unless it has none.                                *)
LEMMA CopiedNncFit ==
    ASSUME NEW gs, LgrsFit(gs), NEW lists, NncFit(gs, lists)
    PROVE  NncFit(Copied(gs), lists)
  <1>1. /\ LgrsFit(Copied(gs)) /\ Len(Copied(gs)) = Len(gs)
        /\ \A h \in 0 .. Len(gs) : CellsOf(Copied(gs), h) = CellsOf(gs, h)
    BY CopiesFit
  <1>2. DOMAIN gs = 1 .. Len(gs) /\ Len(gs) \in Nat /\ DOMAIN Copied(gs) = DOMAIN gs
    BY GridShape DEF Copied
  <1>3. ASSUME NEW h \in 0 .. Len(gs), NEW n \in DOMAIN lists[h]
        PROVE  EntryFits(Copied(gs), h, lists[h][n])
    <2> DEFINE e == lists[h][n]
    <2>1. EntryFits(gs, h, e)
      BY <1>3 DEF NncFit, ListFits
    <2> SUFFICES EntryFits(Copied(gs), h, e)
      OBVIOUS
    <2> HIDE DEF e
    <2>2. CASE Len(gs) = 0
      <3>1. Nr(Copied(gs), h) = Nr(gs, h) /\ (Numbered(Copied(gs)) => Numbered(gs))
        BY <1>2, <2>2 DEF Nr, Numbered
      <3> QED BY <1>1, <2>1, <3>1 DEF EntryFits
    <2>3. CASE Len(gs) # 0
      <3>1. 1 \in DOMAIN Copied(gs)
        BY <1>2, <2>3
      <3>2. Copied(gs)[1].nr = 0
        <4>1. Copied(gs)[1] = [gs[1] EXCEPT !.nr = 0]
          BY <1>2, <3>1 DEF Copied
        <4>2. gs[1] = [name |-> gs[1].name, parent |-> gs[1].parent, nr |-> gs[1].nr,
                       host |-> gs[1].host, active |-> gs[1].active, unit |-> gs[1].unit]
          BY <1>2, <3>1 DEF LgrsFit, LgrRecord
        <4>3. [gs[1] EXCEPT !.nr = 0]
                  = [name |-> gs[1].name, parent |-> gs[1].parent, nr |-> 0,
                     host |-> gs[1].host, active |-> gs[1].active, unit |-> gs[1].unit]
          BY <4>2
        <4> QED BY <4>1, <4>3
      <3>3. ~Numbered(Copied(gs))
        BY <3>1, <3>2 DEF Numbered
      <3> QED BY <1>1, <2>1, <3>3 DEF EntryFits
    <2> QED BY <2>2, <2>3
  <1> QED BY <1>1, <1>3 DEF NncFit, ListFits

LEMMA AddedNncFit ==
    ASSUME NEW gs, LgrsFit(gs), NEW lists, NncFit(gs, lists), NEW h \in 0 .. Len(gs),
           NEW a \in CellsOf(gs, h), NEW b \in CellsOf(gs, h), NEW idx \in Nat,
           NEW more, more = [lists EXCEPT ![h] = Append(@, Entry(@, a, Nr(gs, h), b, Nr(gs, h), idx))]
    PROVE  NncFit(gs, more)
  <1> DEFINE list == lists[h]
             e == Entry(list, a, Nr(gs, h), b, Nr(gs, h), idx)
             longer == Append(list, e)
  <1>1. ListFits(gs, h, list) /\ lists \in [0 .. Len(gs) -> Seq(Entries)]
    BY DEF NncFit
  <1>2. e \in Entries /\ EntryFits(gs, h, e)
    BY <1>1, GridShape, EntryMade
  <1>3. list \in Seq(Entries) /\ DOMAIN list = 1 .. Len(list) /\ Len(list) \in Nat
    BY <1>1, LenProperties DEF ListFits
  <1>4. more = [lists EXCEPT ![h] = longer]
    OBVIOUS
  <1> HIDE DEF e, list
  <1>5. /\ longer \in Seq(Entries) /\ Len(longer) = Len(list) + 1
        /\ \A n \in 1 .. Len(list) : longer[n] = list[n]
        /\ longer[Len(list) + 1] = e
    BY <1>2, <1>3, AppendProperties
  <1> HIDE DEF longer
  <1>6. DOMAIN longer = 1 .. Len(list) + 1
    BY <1>5, LenProperties
  <1>7. ASSUME NEW n \in DOMAIN longer PROVE EntryFits(gs, h, longer[n])
    <2>1. n = Len(list) + 1 \/ n \in 1 .. Len(list)
      BY <1>3, <1>6
    <2> QED BY <1>1, <1>2, <1>3, <1>5, <2>1 DEF ListFits
  <1>8. ListFits(gs, h, longer)
    BY <1>5, <1>7 DEF ListFits
  <1>9. more \in [0 .. Len(gs) -> Seq(Entries)]
    BY <1>1, <1>4, <1>5
  <1>10. ASSUME NEW k \in 0 .. Len(gs) PROVE ListFits(gs, k, more[k])
    <2>1. more[k] = IF k = h THEN longer ELSE lists[k]
      BY <1>1, <1>4
    <2>2. ListFits(gs, k, lists[k])
      BY DEF NncFit
    <2> QED BY <1>8, <2>1, <2>2
  <1> QED BY <1>9, <1>10 DEF NncFit

(* A file that is written is one that loads what was written.              *)
LEMMA FilesSaved ==
    ASSUME NEW files, NEW was, SavedFit(files, was), NEW name \in FileNames, NEW s, GridFits(s),
           NumberedRight(s), NEW f, KeptFor(f, s, name)
    PROVE  SavedFit([files EXCEPT ![name] = f], [was EXCEPT ![name] = s])
  <1>1. PICK u \in UnitNames : f = EGRIDFile(s, u) \/ f = GRIDFile(s, u)
    BY DEF KeptFor
  <1>2. IsFile(f)
    BY <1>1, EGRIDLoads, GRIDLoads
  <1> QED BY <1>2 DEF SavedFit

(* Cases are loaded from files that exist.                                 *)
LEMMA CaseLoaded ==
    ASSUME NEW input \in Inputs, LoadCase(input)
    PROVE  \/ UNCHANGED <<vars, gridVars, fileVars>> /\ last'.op # "load"
           \/ \E name \in FileNames : LoadFile(name, TRUE)
  <1> DEFINE names == Candidates(input)
             found == {n \in DOMAIN names : dir[names[n]] # NoFile}
  <1>1. CASE found = {}
    <2>1. /\ UNCHANGED <<vars, gridVars, fileVars>>
          /\ last' = [op |-> "load_case", name |-> input, result |-> "none"]
      BY <1>1 DEF LoadCase, Done
    <2>2. last'.op = "load_case"
      BY <2>1
    <2> QED BY <2>1, <2>2
  <1>2. CASE found # {}
    <2>1. names \in Seq(FileNames)
      <3>1. Inputs \subseteq FileNames \cup {"OTHER", "UNRST", "FUNRST"}
        BY GridFileAssumption
      <3>2. CASE input \in FileNames
        BY <3>2 DEF Candidates, FileNames
      <3>3. CASE input = "OTHER"
        <4>1. names = <<"EGRID", "GRID", "FEGRID", "FGRID">>
          BY <3>3 DEF Candidates, FileNames
        <4> QED BY <4>1 DEF FileNames
      <3>4. CASE input = "UNRST"
        <4>1. names = <<"EGRID", "GRID">>
          BY <3>4 DEF Candidates, FileNames
        <4> QED BY <4>1 DEF FileNames
      <3>5. CASE input = "FUNRST"
        <4>1. names = <<"FEGRID", "FGRID">>
          BY <3>5 DEF Candidates, FileNames
        <4> QED BY <4>1 DEF FileNames
      <3> QED BY <3>1, <3>2, <3>3, <3>4, <3>5
    <2>2. DOMAIN names = 1 .. Len(names) /\ Len(names) \in Nat
      BY <2>1, LenProperties
    <2>3. Min(found) \in found
      <3> HIDE DEF names
      <3>1. found \in SUBSET Nat
        BY <2>2
      <3> HIDE DEF found
      <3>2. \E x \in found : \A y \in found : x <= y
        BY <1>2, <3>1, LeastElement
      <3> QED BY <3>2 DEF Min
    <2>4. names[Min(found)] \in FileNames
      <3> HIDE DEF names
      <3> QED BY <2>1, <2>2, <2>3, ElementOfSeq
    <2>5. LoadFile(names[Min(found)], TRUE)
      BY <1>2 DEF LoadCase
    <2> QED BY <2>4, <2>5
  <1> QED BY <1>1, <1>2

LEMMA GridInductive == GridSpec => []GridInv
  <1>1. GridInit => GridInv
    <2> SUFFICES ASSUME GridInit PROVE GridInv
      OBVIOUS
    <2>1. /\ active = [g \in Cells |-> Inactive] /\ active_cells = NoRecord
          /\ active_values = NoRecord /\ updates = 0 /\ unit = "METRIC" /\ lgrs = <<>>
          /\ scale = [h \in {0} |-> <<0, 0>>] /\ nnc = [h \in {0} |-> <<>>]
          /\ cell_lgr = Bare(<<>>) /\ dir \in Cases /\ saved = [name \in FileNames |-> NoFile]
      BY DEF GridInit, Init
    <2>2. active \in [Cells -> ActiveValues]
      BY <2>1 DEF Inactive, ActiveValues
    <2>3. RecordsTyped(active_values)
      BY <2>1, EmptySeq DEF RecordsTyped, NoRecord
    <2>4. ActnumData(active, active_cells, active_values) \in [Cells -> ActiveValues]
      BY <2>1, <2>2, <2>3, NothingRecorded, ActnumTyped
    <2>5. lgrs \in Seq(Range(lgrs)) /\ Len(lgrs) = 0 /\ DOMAIN lgrs = {} /\ 0 .. Len(lgrs) = {0}
      <3>1. lgrs \in Seq(Range(lgrs)) /\ Len(lgrs) = 0
        BY <2>1, EmptySeq
      <3>2. 0 .. 0 = {0}
        OBVIOUS
      <3> QED BY <2>1, <3>1, <3>2
    <2>6. LgrsFit(lgrs)
      BY <2>5 DEF LgrsFit
    <2>7. NncFit(lgrs, nnc)
      <3>1. nnc[0] = <<>> /\ <<>> \in Seq(Entries) /\ DOMAIN <<>> = {}
        BY <2>1, EmptySeq
      <3>2. nnc \in [0 .. Len(lgrs) -> Seq(Entries)]
        BY <2>1, <2>5, <3>1
      <3>3. ListFits(lgrs, 0, nnc[0])
        BY <3>1 DEF ListFits
      <3> QED BY <2>5, <3>2, <3>3 DEF NncFit
    <2>8. scale \in [0 .. Len(lgrs) -> [1 .. 2 -> Int]]
      <3>1. <<0, 0>> \in [1 .. 2 -> Int]
        OBVIOUS
      <3> QED BY <2>1, <2>5, <3>1
    <2>9. GridFits(Now)
      <3>1. /\ Now.lgrs = lgrs /\ Now.nnc = nnc /\ Now.unit = "METRIC" /\ Now.scale = scale
            /\ Now.active = active
            /\ Now.actnum = ActnumData(active, active_cells, active_values)
        BY <2>1 DEF Now
      <3> QED BY <2>2, <2>4, <2>6, <2>7, <2>8, <3>1 DEF GridFits, UnitNames
    <2>10. cell_lgr = install_lgr(lgrs, gen, Bare(lgrs))
      <3>1. \A h, c : Refining(lgrs, h, c) = {}
        BY <2>5 DEF Refining
      <3> QED BY <2>1, <3>1 DEF install_lgr, Bare
    <2>11. SavedFit(dir, saved)
      BY <2>1, GridFileAssumption DEF SavedFit
    <2> QED BY <2>1, <2>3, <2>9, <2>10, <2>11 DEF GridInv, InUse
  <1>2. IInv /\ GridInv /\ [GridNext]_allVars => GridInv'
    <2> SUFFICES ASSUME IInv, GridInv, [GridNext]_allVars PROVE GridInv'
      OBVIOUS
    <2>0. RecordsKept(active_cells, active_values)
      BY DEF IInv
    <2>1. ASSUME UNCHANGED <<vars, gridVars>>, SavedFit(dir', saved') PROVE GridInv'
      <3>1. Now' = Now /\ updates' = updates /\ status' = status /\ active_values' = active_values
        BY <2>1 DEF Now, vars, gridVars
      <3>2. lgrs' = lgrs /\ gen' = gen /\ cell_lgr' = cell_lgr
        BY <2>1 DEF gridVars
      <3>3. GridFits(Now') /\ (InUse' => NumberedRight(Now'))
        BY <3>1 DEF GridInv, InUse
      <3> QED BY <2>1, <3>1, <3>2, <3>3 DEF GridInv
    <2>2. ASSUME UNCHANGED fileVars PROVE SavedFit(dir', saved')
      BY <2>2 DEF fileVars, GridInv
    <2>3. ASSUME NEW name \in FileNames, NEW apply, LoadFile(name, apply) PROVE GridInv'
      <3> DEFINE f == dir[name]
                 gs == LgrsOf(f)
      <3>1. IsFile(f) /\ Loaded(name, f, gs, apply) /\ UNCHANGED fileVars
        BY <2>3 DEF LoadFile, GridInv, SavedFit
      <3>2. CASE LoadFails(f, gs)
        BY <2>1, <2>2, <3>1, <3>2 DEF Loaded
      <3>3. CASE ~LoadFails(f, gs)
        <4>1. GridOf(f, LgrsOf(f), apply) /\ updates \in Nat
          BY <3>1, <3>3 DEF Loaded, GridInv
        <4>2. /\ updates' \in Nat /\ RecordsTyped(active_values')
              /\ GridFits(Now') /\ (InUse' => NumberedRight(Now'))
              /\ cell_lgr' = install_lgr(lgrs', gen', Bare(lgrs'))
          BY <3>1, <3>3, <4>1, GridLoaded
        <4> QED BY <2>2, <3>1, <4>2 DEF GridInv
      <3> QED BY <3>2, <3>3
    <2>4. CASE \E input \in Inputs : MayLoad /\ LoadCase(input)
      BY <2>1, <2>2, <2>3, <2>4, CaseLoaded
    <2>5. CASE \E name \in FileNames, apply \in BOOLEAN : MayLoad /\ LoadFile(name, apply)
      BY <2>3, <2>5
    <2>6. ASSUME NEW name \in FileNames, NEW f, Write(name, f), InUse, KeptFor(f, Now, name)
          PROVE  GridInv'
      <3>1. /\ UNCHANGED <<vars, gridVars>> /\ dir' = [dir EXCEPT ![name] = f]
            /\ saved' = [saved EXCEPT ![name] = Now]
        BY <2>6 DEF Write
      <3>2. GridFits(Now) /\ NumberedRight(Now) /\ SavedFit(dir, saved)
        BY <2>6 DEF GridInv
      <3>3. SavedFit(dir', saved')
        BY <2>6, <3>1, <3>2, FilesSaved
      <3> QED BY <2>1, <3>1, <3>3
    <2>7. CASE \E name \in Targets, u \in Units : InUse /\ WriteEGRID(name, u)
      <3>1. PICK name \in Targets, u \in Units : InUse /\ WriteEGRID(name, u)
        BY <2>7
      <3>2. /\ name \in FileNames /\ u \in UnitNames /\ name \in {"EGRID", "FEGRID"}
            /\ Write(name, EGRIDFile(Now, u))
        BY <3>1, GridFileAssumption DEF WriteEGRID, FileNames
      <3>3. KeptFor(EGRIDFile(Now, u), Now, name)
        BY <3>2 DEF KeptFor
      <3> QED BY <2>6, <3>1, <3>2, <3>3
    <2>8. CASE \E name \in Targets, u \in Units : InUse /\ WriteGRID(name, u)
      <3>1. PICK name \in Targets, u \in Units : InUse /\ WriteGRID(name, u)
        BY <2>8
      <3>2. /\ name \in FileNames /\ u \in UnitNames /\ name \notin {"EGRID", "FEGRID"}
            /\ Write(name, GRIDFile(Now, u))
        BY <3>1, GridFileAssumption DEF WriteGRID, FileNames
      <3>3. KeptFor(GRIDFile(Now, u), Now, name)
        BY <3>2 DEF KeptFor
      <3> QED BY <2>6, <3>1, <3>2, <3>3
    <2>9. /\ Now.lgrs = lgrs /\ Now.nnc = nnc /\ Now.unit = unit /\ Now.scale = scale
          /\ Now.active = active
      BY DEF Now
    <2>10. /\ LgrsFit(lgrs) /\ NncFit(lgrs, nnc) /\ unit \in UnitNames
           /\ scale \in [0 .. Len(lgrs) -> [1 .. 2 -> Int]] /\ active \in [Cells -> ActiveValues]
           /\ RecordsTyped(active_values) /\ updates \in Nat
      BY <2>9 DEF GridInv, GridFits
    <2>11. CASE CopyGrid
      <3>1. /\ UpdateIndex(active, NoRecord, NoRecord, NoInverse)
            /\ lgrs' = Copied(lgrs) /\ gen' = gen + 1 /\ UNCHANGED fileVars
            /\ cell_lgr' = install_lgr(Copied(lgrs), gen + 1, cell_lgr)
            /\ unit' = unit /\ scale' = scale /\ nnc' = nnc
        BY <2>11 DEF CopyGrid, AllocCopy, CopiedPointers
      <3>2. RecordsTyped(NoRecord)
        BY EmptySeq DEF RecordsTyped, NoRecord
      <3>3. /\ updates' \in Nat /\ RecordsTyped(active_values') /\ Now'.active = active
            /\ Now'.actnum \in [Cells -> ActiveValues] /\ (InUse' => NumberedRight(Now'))
        BY <2>10, <3>1, <3>2, NothingRecorded, GridUpdated
      <3>4. /\ Now'.lgrs = lgrs' /\ Now'.nnc = nnc' /\ Now'.unit = unit' /\ Now'.scale = scale'
        BY DEF Now
      <3>5. LgrsFit(lgrs') /\ Len(lgrs') = Len(lgrs) /\ NncFit(lgrs', nnc')
        BY <2>10, <3>1, CopiesFit, CopiedNncFit
      <3>6. GridFits(Now')
        BY <2>10, <3>1, <3>3, <3>4, <3>5 DEF GridFits
      <3>7. cell_lgr' = install_lgr(lgrs', gen', Bare(lgrs'))
        BY <2>10, <3>1, CopiedAgain DEF GridInv
      <3> QED BY <2>2, <3>1, <3>3, <3>6, <3>7 DEF GridInv
    <2>12. CASE \E actnum \in Actnums : InUse /\ SetActnum(actnum)
      <3>1. PICK actnum \in Actnums : SetActnum(actnum)
        BY <2>12
      <3>2. /\ UpdateIndex(actnum, active_cells, active_values, inv_index_map)
            /\ UNCHANGED fileVars /\ actnum \in [Cells -> ActiveValues]
            /\ lgrs' = lgrs /\ gen' = gen /\ cell_lgr' = cell_lgr
            /\ unit' = unit /\ scale' = scale /\ nnc' = nnc
        BY <3>1, GridFileAssumption DEF SetActnum, ResetActnum, gridVars
      <3>3. /\ updates' \in Nat /\ RecordsTyped(active_values') /\ Now'.active = actnum
            /\ Now'.actnum \in [Cells -> ActiveValues] /\ (InUse' => NumberedRight(Now'))
        BY <2>0, <2>10, <3>2, GridUpdated
      <3>4. /\ Now'.lgrs = lgrs' /\ Now'.nnc = nnc' /\ Now'.unit = unit' /\ Now'.scale = scale'
        BY DEF Now
      <3>5. GridFits(Now')
        BY <2>10, <3>2, <3>3, <3>4 DEF GridFits
      <3> QED BY <2>2, <3>2, <3>3, <3>5 DEF GridInv
    <2>13. ASSUME NEW h \in 0 .. Len(lgrs), NEW a \in CellsOf(lgrs, h), a + 1 \in CellsOf(lgrs, h),
                  NEW idx \in 0 .. Len(nnc[h]) + 1, AddSelfNnc(h, a, a + 1, idx)
           PROVE  GridInv'
      <3>1. /\ nnc' = [nnc EXCEPT ![h] = Append(@, Entry(@, a, Nr(lgrs, h), a + 1, Nr(lgrs, h), idx))]
            /\ UNCHANGED <<vars, unit, axes, lgrs, scale, cell_lgr, gen, fileVars>>
        BY <2>13 DEF AddSelfNnc
      <3>2. NncFit(lgrs, nnc')
        <4>1. idx \in Nat
          OBVIOUS
        <4> QED BY <2>10, <2>13, <3>1, <4>1, AddedNncFit
      <3>3. /\ active' = active /\ active_cells' = active_cells /\ active_values' = active_values
            /\ status' = status /\ updates' = updates /\ index_map' = index_map
            /\ inv_index_map' = inv_index_map /\ total_active' = total_active
            /\ lgrs' = lgrs /\ gen' = gen /\ cell_lgr' = cell_lgr /\ unit' = unit /\ scale' = scale
        BY <3>1 DEF vars
      <3>4. /\ Now'.lgrs = lgrs /\ Now'.nnc = nnc' /\ Now'.unit = unit /\ Now'.scale = scale
            /\ Now'.active = Now.active /\ Now'.actnum = Now.actnum
            /\ Now'.active_cells = Now.active_cells /\ Now'.total_active = Now.total_active
            /\ Now'.index_map = Now.index_map /\ Now'.inv_index_map = Now.inv_index_map
        BY <3>3 DEF Now
      <3>5. GridFits(Now')
        BY <2>10, <3>2, <3>4 DEF GridFits, GridInv
      <3>6. InUse' => NumberedRight(Now')
        BY <3>3, <3>4 DEF GridInv, InUse, NumberedRight, AsRecorded
      <3> QED BY <2>2, <2>10, <3>1, <3>3, <3>5, <3>6 DEF GridInv
    <2>14. CASE UNCHANGED allVars
      BY <2>1, <2>2, <2>14 DEF allVars
    <2> QED BY <2>4, <2>5, <2>7, <2>8, <2>11, <2>12, <2>13, <2>14 DEF GridNext
  <1> QED BY <1>1, <1>2, InductiveInvariant, PTL DEF GridSpec

-----------------------------------------------------------------------------
(* What comes back from a file that is loaded.                             *)

(* What a load makes of the active cells of a file.                        *)
LEMMA NumberedByLoad ==
    ASSUME NEW act, UpdateIndex(act, NoRecord, NoRecord, NoInverse)
    PROVE  /\ active' = act /\ total_active' = TotalOf(act)
           /\ index_map' = IndexLoaded(act) /\ inv_index_map' = InverseLoaded(act)
  <1>1. \A kind \in Kinds : NoInverse[kind] = <<>>
    BY DEF NoInverse
  <1> QED BY <1>1 DEF UpdateIndex, TotalOf, IndexLoaded, InverseLoaded, GroupIndexOf

LEMMA EGRIDComesBack ==
    ASSUME NEW s, GridFits(s), NumberedRight(s), NEW u \in UnitNames, NEW f, f = EGRIDFile(s, u),
           NEW apply, ~LoadFails(f, LgrsOf(f)), GridOf(f, LgrsOf(f), apply), GridFits(Now'),
           Written' = s
    PROVE  GridComesBack' /\ ConnectionsComeBack'
  <1>1. /\ LgrsFit(s.lgrs) /\ NncFit(s.lgrs, s.nnc) /\ s.unit \in UnitNames
        /\ s.scale \in [0 .. Len(s.lgrs) -> [1 .. 2 -> Int]]
        /\ Len(s.lgrs) \in Nat /\ DOMAIN s.lgrs = 1 .. Len(s.lgrs)
    BY GridShape DEF GridFits
  <1>2. /\ LgrsOf(f) = s.lgrs /\ ActnumOf(f, 1) = s.actnum
    BY EGRIDLoads
  <1>3. /\ UpdateIndex(s.actnum, NoRecord, NoRecord, NoInverse)
        /\ unit' = f.unit /\ lgrs' = s.lgrs
        /\ axes' = CASE ~f.axes -> "none" [] f.axes /\ apply -> "applied" [] OTHER -> "kept"
        /\ scale' = [h \in 0 .. Len(s.lgrs) |-> f.sections[h + 1].scale]
        /\ nnc' = init_nnc(s.lgrs, f.links)
    BY <1>2 DEF GridOf
  <1>4. /\ f.unit = u /\ f.axes = (s.axes # "none") /\ f.links = OwnLinks(s.lgrs, s.nnc)
        /\ f.sections[1].scale = output_scaling(s.scale[0], s.unit, u)
        /\ \A i \in 1 .. Len(s.lgrs) :
               f.sections[i + 1].scale = output_scaling(s.scale[i], s.lgrs[i].unit, u)
    BY <1>1, EGRIDWritten
  <1>5. ASSUME AsRecorded(s)
        PROVE  /\ active' = s.active /\ total_active' = s.total_active
               /\ index_map' = s.index_map /\ inv_index_map' = s.inv_index_map
    <2>1. /\ s.actnum = s.active /\ s.total_active = TotalOf(s.active)
          /\ s.index_map = IndexLoaded(s.active) /\ s.inv_index_map = InverseLoaded(s.active)
      BY <1>5 DEF NumberedRight
    <2> QED BY <1>3, <2>1, NumberedByLoad
  <1>6. (axes' = "none") = (s.axes = "none")
    BY <1>3, <1>4
  <1>7. output_scaling(scale'[0], unit', s.unit) = s.scale[0]
    <2>1. scale'[0] = output_scaling(s.scale[0], s.unit, u)
      <3>1. 0 \in 0 .. Len(s.lgrs) /\ 0 + 1 = 1
        BY <1>1
      <3> QED BY <1>3, <1>4, <3>1
    <2>2. s.scale[0] \in [1 .. 2 -> Int]
      BY <1>1
    <2>3. output_scaling(output_scaling(s.scale[0], s.unit, u), u, s.unit) = s.scale[0]
      BY <1>1, <2>2, ScalingTyped
    <2> QED BY <1>3, <1>4, <2>1, <2>3, Zenon
  <1>8. ASSUME NEW i \in 1 .. Len(s.lgrs) PROVE output_scaling(scale'[i], unit', "METRIC") = s.scale[i]
    <2>1. s.scale[i] \in [1 .. 2 -> Int] /\ i \in 0 .. Len(s.lgrs) /\ s.lgrs[i].unit = "METRIC"
      BY <1>1 DEF LgrsFit
    <2>2. scale'[i] = output_scaling(s.scale[i], "METRIC", u)
      BY <1>3, <1>4, <2>1
    <2>3. output_scaling(output_scaling(s.scale[i], "METRIC", u), u, "METRIC") = s.scale[i]
      BY <2>1, ScalingTyped DEF UnitNames
    <2> QED BY <1>3, <1>4, <2>2, <2>3, Zenon
  <1>9. GridComesBack'
    BY <1>1, <1>3, <1>5, <1>6, <1>7, <1>8 DEF GridComesBack
  <1>10. ASSUME Numbered(s.lgrs), NEW h \in DOMAIN nnc',
                NEW k \in Indices(s.nnc[h]) \cup Indices(nnc'[h])
         PROVE  PairOf(nnc'[h], k) = PairOf(s.nnc[h], k)
    <2>1. NncFit(s.lgrs, nnc')
      <3>1. Now'.lgrs = lgrs' /\ Now'.nnc = nnc'
        BY DEF Now
      <3> QED BY <1>3, <3>1 DEF GridFits
    <2>2. h \in 0 .. Len(s.lgrs) /\ nnc'[h] \in Seq(Entries) /\ s.nnc[h] \in Seq(Entries)
      BY <1>1, <2>1 DEF NncFit
    <2>3. ASSUME NEW list \in Seq(Entries) PROVE Indices(list) \subseteq Nat
      <3>1. \A n \in DOMAIN list : list[n] \in Entries
        BY LenProperties
      <3>2. \A n \in DOMAIN list : list[n].idx \in Nat
        BY <3>1 DEF Entries
      <3> QED BY <3>2 DEF Indices, SelfEntries
    <2>4. k \in Nat
      BY <2>2, <2>3
    <2>5. \A l \in Range(OwnLinks(s.lgrs, s.nnc)) : ~LinkFails(s.lgrs, l)
      BY <1>2, <1>4 DEF LoadFails
    <2>6. PairOf(init_nnc(s.lgrs, OwnLinks(s.lgrs, s.nnc))[h], k) = PairOf(s.nnc[h], k)
      BY <1>1, <1>10, <2>2, <2>4, <2>5, ConnectionsReadBack
    <2> QED BY <1>3, <1>4, <2>6, Zenon
  <1>11. ConnectionsComeBack'
    BY <1>10 DEF ConnectionsComeBack
  <1> QED BY <1>9, <1>11

LEMMA GRIDComesBack ==
    ASSUME NEW s, GridFits(s), NumberedRight(s), NEW u \in UnitNames, NEW f, f = GRIDFile(s, u),
           NEW apply, ~LoadFails(f, LgrsOf(f)), GridOf(f, LgrsOf(f), apply),
           last'.name \notin {"EGRID", "FEGRID"}, Written' = s
    PROVE  GridComesBack' /\ ConnectionsComeBack'
  <1>1. ~ReadBack({"EGRID", "FEGRID"})'
    BY DEF ReadBack
  <1>2. /\ ActnumOf(f, 1) = s.active /\ Len(LgrsOf(f)) = Len(s.lgrs)
        /\ \A i \in 1 .. Len(s.lgrs) : /\ LgrsOf(f)[i].name = s.lgrs[i].name
                                       /\ LgrsOf(f)[i].active = s.lgrs[i].active
                                       /\ LgrsOf(f)[i].host = s.lgrs[i].host
    BY GRIDLoads
  <1>3. /\ UpdateIndex(s.active, NoRecord, NoRecord, NoInverse) /\ lgrs' = LgrsOf(f)
        /\ axes' = CASE ~f.axes -> "none" [] f.axes /\ apply -> "applied" [] OTHER -> "kept"
    BY <1>2 DEF GridOf
  <1>4. f.axes = (s.axes = "applied")
    BY DEF GRIDFile
  <1>5. ASSUME AsRecorded(s)
        PROVE  /\ active' = s.active /\ total_active' = s.total_active
               /\ index_map' = s.index_map /\ inv_index_map' = s.inv_index_map
    <2>1. /\ s.total_active = TotalOf(s.active)
          /\ s.index_map = IndexLoaded(s.active) /\ s.inv_index_map = InverseLoaded(s.active)
      BY <1>5 DEF NumberedRight
    <2> QED BY <1>3, <2>1, NumberedByLoad
  <1>6. s.axes = "applied" => axes' # "none"
    BY <1>3, <1>4
  <1>7. DOMAIN LgrsOf(f) = 1 .. Len(s.lgrs)
    <2>1. LgrsFit(LgrsOf(f))
      <3>1. IsFile(f)
        BY GRIDLoads
      <3> QED BY <3>1, LgrsOfFileFit
    <2> QED BY <1>2, <2>1, GridShape
  <1>8. GridComesBack'
    BY <1>1, <1>2, <1>3, <1>5, <1>6, <1>7 DEF GridComesBack
  <1>9. ConnectionsComeBack'
    BY <1>1 DEF ConnectionsComeBack
  <1> QED BY <1>8, <1>9

BackInv == GridComesBack /\ ConnectionsComeBack

LEMMA ComesBack == GridSpec => []BackInv
  <1>0. ASSUME ~(last.op = "load" /\ last.result = "fine" /\ saved[last.name] # NoFile) PROVE BackInv
    BY <1>0 DEF BackInv, GridComesBack, ConnectionsComeBack, ReadBack
  <1>1. GridInit => BackInv
    <2> SUFFICES ASSUME GridInit PROVE BackInv
      OBVIOUS
    <2>1. last.op = "none"
      BY DEF GridInit
    <2> QED BY <1>0, <2>1
  <1>2. IInv /\ GridInv /\ GridInv' /\ BackInv /\ [GridNext]_allVars => BackInv'
    <2> SUFFICES ASSUME IInv, GridInv, GridInv', BackInv, [GridNext]_allVars PROVE BackInv'
      OBVIOUS
    <2>1. ASSUME ~(last'.op = "load" /\ last'.result = "fine" /\ saved'[last'.name] # NoFile)
          PROVE  BackInv'
      BY <2>1 DEF BackInv, GridComesBack, ConnectionsComeBack, ReadBack
    <2>2. ASSUME NEW name \in FileNames, NEW apply, LoadFile(name, apply) PROVE BackInv'
      <3> DEFINE f == dir[name]
                 gs == LgrsOf(f)
                 s == saved[name]
      <3>1. Loaded(name, f, gs, apply) /\ saved' = saved
        BY <2>2 DEF LoadFile, fileVars
      <3>2. CASE LoadFails(f, gs)
        <4>1. last' = [op |-> "load", name |-> name, result |-> "raises"]
          BY <3>1, <3>2 DEF Loaded, Done
        <4>2. last'.result = "raises"
          BY <4>1
        <4> QED BY <2>1, <4>2
      <3>3. CASE ~LoadFails(f, gs)
        <4>1. last' = [op |-> "load", name |-> name, result |-> "fine"] /\ GridOf(f, gs, apply)
          BY <3>1, <3>3 DEF Loaded, Done
        <4>2. last'.name = name
          BY <4>1
        <4>3. Written' = s
          BY <3>1, <4>2 DEF Written
        <4>4. CASE s = NoFile
          BY <2>1, <3>1, <4>2, <4>4
        <4>5. CASE s # NoFile
          <5>1. GridFits(s) /\ NumberedRight(s) /\ KeptFor(f, s, name)
            BY <4>5 DEF GridInv, SavedFit
          <5>2. PICK u \in UnitNames :
                    f = IF name \in {"EGRID", "FEGRID"} THEN EGRIDFile(s, u) ELSE GRIDFile(s, u)
            BY <5>1 DEF KeptFor
          <5>3. GridFits(Now')
            BY DEF GridInv
          <5> HIDE DEF f, s
          <5>4. CASE name \in {"EGRID", "FEGRID"}
            <6>1. f = EGRIDFile(s, u)
              BY <5>2, <5>4
            <6>2. GridComesBack' /\ ConnectionsComeBack'
              BY <3>3, <4>1, <4>3, <5>1, <5>3, <6>1, EGRIDComesBack
            <6> QED BY <6>2 DEF BackInv
          <5>5. CASE name \notin {"EGRID", "FEGRID"}
            <6>1. f = GRIDFile(s, u)
              BY <5>2, <5>5
            <6>2. GridComesBack' /\ ConnectionsComeBack'
              BY <3>3, <4>1, <4>2, <4>3, <5>1, <5>5, <6>1, GRIDComesBack
            <6> QED BY <6>2 DEF BackInv
          <5> QED BY <5>4, <5>5
        <4> QED BY <4>4, <4>5
      <3> QED BY <3>2, <3>3
    <2>3. CASE \E input \in Inputs : MayLoad /\ LoadCase(input)
      BY <2>1, <2>2, <2>3, CaseLoaded
    <2>4. CASE \E name \in FileNames, apply \in BOOLEAN : MayLoad /\ LoadFile(name, apply)
      BY <2>2, <2>4
    <2>5. ASSUME NEW op, NEW name, Done(op, name, "fine"), op # "load" PROVE BackInv'
      <3>1. last'.op = op
        BY <2>5 DEF Done
      <3> QED BY <2>1, <2>5, <3>1
    <2>6. CASE \E name \in Targets, u \in Units : InUse /\ WriteEGRID(name, u)
      BY <2>5, <2>6 DEF WriteEGRID, Write
    <2>7. CASE \E name \in Targets, u \in Units : InUse /\ WriteGRID(name, u)
      BY <2>5, <2>7 DEF WriteGRID, Write
    <2>8. CASE CopyGrid
      BY <2>5, <2>8 DEF CopyGrid
    <2>9. CASE \E actnum \in Actnums : InUse /\ SetActnum(actnum)
      BY <2>5, <2>9 DEF SetActnum
    <2>10. ASSUME NEW h, NEW a, NEW b, NEW idx, AddSelfNnc(h, a, b, idx) PROVE BackInv'
      BY <2>5, <2>10 DEF AddSelfNnc
    <2>11. CASE UNCHANGED allVars
      BY <2>11 DEF allVars, vars, gridVars, fileVars, BackInv, GridComesBack, ConnectionsComeBack,
                   ReadBack, Written
    <2> QED BY <2>3, <2>4, <2>6, <2>7, <2>8, <2>9, <2>10, <2>11 DEF GridNext
  <1> QED BY <1>1, <1>2, InductiveInvariant, GridInductive, PTL DEF GridSpec

(* A grid that is loaded from the file it was saved to has the active      *)
(* cells and the numbering it had, unless actnum has changed a coarse      *)
(* group, the same local grids in the same hosts, and coordinates of the   *)
(* same lengths in the unit of the file; and in every grid that is loaded  *)
(* or copied, however often, the cells that a local grid refines point to  *)
(* it, and none points into a grid it was copied from                      *)
(* (rd_grid_fwrite_EGRID2, rd_grid_load_case__, rd_grid_alloc_copy).       *)
THEOREM WholeGridsComeBack == GridSpec => []GridsComeBack
  <1>1. BackInv => GridComesBack
    BY DEF BackInv
  <1>2. GridInv => LgrsHosted
    <2> SUFFICES ASSUME GridInv PROVE LgrsHosted
      OBVIOUS
    <2>1. Now.lgrs = lgrs
      BY DEF Now
    <2> QED BY <2>1, InstalledHosts DEF GridInv, GridFits
  <1>3. GridComesBack /\ LgrsHosted => GridsComeBack
    BY DEF GridsComeBack
  <1> QED BY <1>1, <1>2, <1>3, GridInductive, ComesBack, PTL

(* The connections within each grid come back from an EGRID file at the    *)
(* numbers they had, however many were added, in any order of the cells    *)
(* and with any number used twice, as long as the local grids have the     *)
(* numbers the file gave them (rd_grid_fwrite_self_nnc, rd_grid_init_nnc). *)
THEOREM ConnectionsReturn == GridSpec => []ConnectionsComeBack
  <1>1. BackInv => ConnectionsComeBack
    BY DEF BackInv
  <1> QED BY <1>1, ComesBack, PTL
=============================================================================
