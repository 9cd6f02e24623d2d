---------------------------- MODULE RegionProofs ----------------------------
(***************************************************************************)
(* The cached lists of a region are current in every reachable state, for  *)
(* every grid, keyword and geometry.                                       *)
(*                                                                         *)
(* The argument: an operation other than a query or a polygon selection    *)
(* ends in Replace or leaves mask and flags alone, and Replace clears both *)
(* flags; a query fills a list from the mask before it sets the flag; a    *)
(* polygon selection that changes the mask under a valid list is recorded  *)
(* in stale.  For that, what matters is which set a list was built from,   *)
(* not how: CellList is not expanded.  It is where a region is shown to    *)
(* implement Selection: the list holds the cells of the set in order, by   *)
(* induction over the cells that the loop has visited.                     *)
(***************************************************************************)
EXTENDS Region, SequenceTheorems, Induction, TLAPS

IInv == TypeOK /\ ActiveListsPaired /\ ListsCurrent /\ AnswerCurrent

LEMMA ListOverCells ==
    ASSUME NEW C, NEW S \in SUBSET C
    PROVE  CellList(S) \in ListsOver(C)
  <1> QED BY DEF ListsOver

LEMMA ListsKept ==
    ASSUME ListsTyped, ActiveListsPaired, UNCHANGED lists
    PROVE  ListsTyped' /\ ActiveListsPaired'
  <1> QED BY DEF ListsTyped, ActiveListsPaired, lists, ActiveIndexOf

(* After Replace there is no answer and no valid list to be out of date.   *)
LEMMA ReplaceStep ==
    ASSUME IInv, NEW S, Replace(S)
    PROVE  IInv'
  <1>1. active_mask' \in [Cells -> BOOLEAN]
    BY DEF Replace
  <1>2. ListsTyped' /\ ActiveListsPaired'
    BY ListsKept DEF IInv, TypeOK, Replace, InvalidateIndexLists
  <1>3. /\ global_index_list_valid' = FALSE /\ active_index_list_valid' = FALSE
        /\ preselect' = preselect /\ stale' = FALSE /\ answer' = NoAnswer
    BY DEF Replace, InvalidateIndexLists
  <1>4. answer'.kind = "none"
    BY <1>3 DEF NoAnswer
  <1>5. TypeOK'
    BY <1>1, <1>2, <1>3, <1>4, Zenon DEF IInv, TypeOK
  <1>6. ListsCurrent' /\ AnswerCurrent'
    BY <1>3, <1>4 DEF ListsCurrent, AnswerCurrent
  <1> QED BY <1>2, <1>5, <1>6 DEF IInv

(* A call that leaves everything but the last answer alone.                *)
LEMMA NothingDone ==
    ASSUME IInv, UNCHANGED <<active_mask, lists, flags, preselect, stale>>,
           answer' \in {answer, NoAnswer}
    PROVE  IInv'
  <1>1. ListsTyped' /\ ActiveListsPaired'
    BY ListsKept DEF IInv, TypeOK
  <1>2. answer'.kind \in {"none", answer.kind}
    BY DEF NoAnswer
  <1>3. TypeOK'
    BY <1>1, <1>2 DEF IInv, TypeOK, flags
  <1>4. ListsCurrent'
    BY DEF IInv, ListsCurrent, lists, flags, Selected
  <1>5. AnswerCurrent'
    BY DEF IInv, AnswerCurrent, NoAnswer, Selected
  <1> QED BY <1>1, <1>3, <1>4, <1>5 DEF IInv

LEMMA AssignStep ==
    ASSUME IInv, NEW S, NEW select, Assign(S, select)
    PROVE  IInv'
  <1> QED BY ReplaceStep DEF Assign

LEMMA KeywordStep ==
    ASSUME IInv, SelectByKeyword
    PROVE  IInv'
  <1> QED
    BY AssignStep DEF SelectByKeyword, SelectEqual, SelectBoolEqual,
       SelectInInterval, SelectWithLimit, CmpSelect

LEMMA PositionStep ==
    ASSUME IInv, SelectByPosition
    PROVE  IInv'
  <1>1. ASSUME NEW columns, NEW k, NEW select,
               SelectFromLayer(columns, k, select)
        PROVE  IInv'
    <2>1. CASE columns = {}
      BY <1>1, <2>1, NothingDone DEF SelectFromLayer
    <2>2. CASE columns # {}
      BY <1>1, <2>2, AssignStep DEF SelectFromLayer
    <2> QED BY <2>1, <2>2
  <1> QED
    BY <1>1, AssignStep DEF SelectByPosition, SelectFromBox, SelectI1I2,
       SelectJ1J2, SelectK1K2

LEMMA GeometryStep ==
    ASSUME IInv, SelectByGeometry
    PROVE  IInv'
  <1> QED
    BY AssignStep DEF SelectByGeometry, SelectFromDepth, SelectFromVolume,
       SelectFromDz, SelectActiveCells, PlaneSelect

LEMMA CombineStep ==
    ASSUME IInv, CombineRegions
    PROVE  IInv'
  <1>1. CASE AllocCopy
    <2>1. ListsTyped' /\ ActiveListsPaired'
      BY <1>1 DEF AllocCopy, ListsTyped, ActiveListsPaired, ActiveIndexOf
    <2>2. /\ answer'.kind = "none" /\ stale' = FALSE
          /\ global_index_list_valid' = FALSE /\ active_index_list_valid' = FALSE
          /\ UNCHANGED <<active_mask, preselect>>
      BY <1>1 DEF AllocCopy, NoAnswer
    <2>3. TypeOK'
      BY <2>1, <2>2, Zenon DEF IInv, TypeOK
    <2>4. ListsCurrent' /\ AnswerCurrent'
      BY <2>2 DEF ListsCurrent, AnswerCurrent
    <2> QED BY <2>1, <2>3, <2>4 DEF IInv
  <1>2. CASE \E S : Replace(S)
    BY <1>2, ReplaceStep
  <1>3. AllocCopy \/ \E S : Replace(S)
    BY DEF CombineRegions, SelectAll, InvertSelection, Reset, Intersection,
       Union, Subtract, Xor, Assign
  <1> QED BY <1>1, <1>2, <1>3

(* Filling a list takes it from the mask it is then current with, and the  *)
(* answer is that list.                                                    *)
LEMMA GlobalQuery ==
    ASSUME IInv, GetGlobalList
    PROVE  IInv'
  <1>1. /\ Selected' = Selected /\ Selected \in SUBSET Cells
        /\ UNCHANGED <<active_mask, preselect, stale, active_index_list,
                       global_active_list, active_index_list_valid>>
        /\ global_index_list_valid' = TRUE
        /\ answer'.kind = "global" /\ answer'.list = global_index_list'
    BY DEF GetGlobalList, AssertGlobalIndexList, Selected
  <1>2. stale \/ global_index_list' = CellList(Selected)
    BY DEF GetGlobalList, AssertGlobalIndexList, IInv, ListsCurrent
  <1>3. global_index_list' \in ListsOver(Cells) \cup {<<>>}
    BY <1>1, ListOverCells
    DEF GetGlobalList, AssertGlobalIndexList, IInv, TypeOK, ListsTyped
  <1>4. ListsTyped' /\ ActiveListsPaired'
    BY <1>1, <1>3 DEF IInv, TypeOK, ListsTyped, ActiveListsPaired, ActiveIndexOf
  <1>5. TypeOK'
    BY <1>1, <1>4, Zenon DEF IInv, TypeOK
  <1>6. ListsCurrent'
    BY <1>1, <1>2 DEF IInv, ListsCurrent
  <1>7. AnswerCurrent'
    BY <1>1, <1>2 DEF AnswerCurrent
  <1> QED BY <1>4, <1>5, <1>6, <1>7 DEF IInv

LEMMA ActiveQuery ==
    ASSUME IInv, GetActiveList \/ GetGlobalActiveList
    PROVE  IInv'
  <1> DEFINE active == CellList(Selected \cap ActiveCells)
  <1>1. /\ Selected' = Selected /\ Selected \cap ActiveCells \in SUBSET ActiveCells
        /\ UNCHANGED <<active_mask, preselect, stale, global_index_list,
                       global_index_list_valid>>
        /\ active_index_list_valid' = TRUE
    BY DEF GetActiveList, GetGlobalActiveList, AssertActiveIndexList, Selected
  <1>2. \/ answer'.kind = "active" /\ answer'.list = active_index_list'
        \/ answer'.kind = "global_active" /\ answer'.list = global_active_list'
    BY DEF GetActiveList, GetGlobalActiveList
  <1>3. active_index_list' = ActiveIndexOf(global_active_list')
    BY DEF GetActiveList, GetGlobalActiveList, AssertActiveIndexList,
           IInv, ActiveListsPaired
  <1>4. stale \/ global_active_list' = active
    BY DEF GetActiveList, GetGlobalActiveList, AssertActiveIndexList,
           IInv, ListsCurrent
  <1>5. global_active_list' \in ListsOver(ActiveCells) \cup {<<>>}
    BY <1>1, ListOverCells
    DEF GetActiveList, GetGlobalActiveList, AssertActiveIndexList,
        IInv, TypeOK, ListsTyped
  <1>6. ListsTyped' /\ ActiveListsPaired'
    BY <1>1, <1>3, <1>5
    DEF IInv, TypeOK, ListsTyped, ActiveListsPaired, ActiveIndexOf
  <1>7. TypeOK'
    BY <1>1, <1>2, <1>6, Zenon DEF IInv, TypeOK
  <1>8. ListsCurrent'
    BY <1>1, <1>4 DEF IInv, ListsCurrent
  <1>9. AnswerCurrent'
    BY <1>1, <1>2, <1>3, <1>4 DEF AnswerCurrent, ActiveIndexOf
  <1> QED BY <1>6, <1>7, <1>8, <1>9 DEF IInv

LEMMA QueryStep ==
    ASSUME IInv, Query
    PROVE  IInv'
  <1> QED BY GlobalQuery, ActiveQuery DEF Query, GetKwIndexList

(* Writing the mask alone either changes nothing, or finds no list valid,  *)
(* or is on record as having made a list stale.                            *)
LEMMA WriteMaskStep ==
    ASSUME IInv, NEW S, WriteMask(S)
    PROVE  IInv'
  <1>1. /\ active_mask' \in [Cells -> BOOLEAN] /\ stale' \in BOOLEAN
        /\ answer'.kind = "none"
    BY DEF WriteMask, NoAnswer
  <1>2. ListsTyped' /\ ActiveListsPaired'
    BY ListsKept DEF WriteMask, IInv, TypeOK
  <1>3. TypeOK'
    BY <1>1, <1>2 DEF WriteMask, IInv, TypeOK, flags
  <1>4. AnswerCurrent'
    BY <1>1 DEF AnswerCurrent
  <1>5. CASE S = Selected
    <2>1. Selected' = Selected
      BY <1>5 DEF WriteMask, Selected
    <2>2. UNCHANGED <<lists, flags, Selected>> /\ (stale' <=> stale)
      BY <2>1, <1>5 DEF WriteMask, IInv, TypeOK
    <2>3. ListsCurrent'
      BY <2>2 DEF IInv, ListsCurrent, lists, flags
    <2> QED BY <1>2, <1>3, <1>4, <2>3 DEF IInv
  <1>6. CASE S # Selected
    <2>1. stale' \/ (~global_index_list_valid' /\ ~active_index_list_valid')
      BY <1>6, Zenon DEF WriteMask, flags
    <2> QED BY <1>2, <1>3, <1>4, <2>1 DEF IInv, ListsCurrent
  <1> QED BY <1>5, <1>6

LEMMA InductiveInvariant == Spec => []IInv
  <1>1. Init => IInv
    <2> SUFFICES ASSUME Init PROVE IInv
      OBVIOUS
    <2>1. ListsTyped /\ ActiveListsPaired
      BY DEF Init, ListsTyped, ActiveListsPaired, ActiveIndexOf
    <2>2. active_mask \in [Cells -> BOOLEAN] /\ answer.kind = "none"
      BY DEF Init, NoAnswer
    <2>3. TypeOK
      BY <2>1, <2>2, Zenon DEF Init, TypeOK
    <2>4. ListsCurrent /\ AnswerCurrent
      BY <2>2 DEF Init, ListsCurrent, AnswerCurrent
    <2> QED BY <2>1, <2>3, <2>4 DEF IInv
  <1>2. IInv /\ [Next]_vars => IInv'
    <2> SUFFICES ASSUME IInv, [Next]_vars PROVE IInv'
      OBVIOUS
    <2>1. CASE SelectByKeyword  BY <2>1, KeywordStep
    <2>2. CASE SelectByPosition BY <2>2, PositionStep
    <2>3. CASE SelectByGeometry BY <2>3, GeometryStep
    <2>4. CASE CombineRegions   BY <2>4, CombineStep
    <2>5. CASE Query            BY <2>5, QueryStep
    <2>6. CASE SelectByPolygon  BY <2>6, WriteMaskStep DEF SelectByPolygon, PolygonSelect
    <2>7. CASE UNCHANGED vars   BY <2>7, NothingDone DEF vars
    <2> QED
      BY <2>1, <2>2, <2>3, <2>4, <2>5, <2>6, <2>7 DEF Next, NextInvalidating
  <1> QED BY <1>1, <1>2, PTL DEF Spec

(* Every state of a region is well formed: in particular each cached list  *)
(* is the enumeration of some set of cells of the grid.                    *)
THEOREM RegionTypeCorrect == Spec => []TypeOK
  <1>1. IInv => TypeOK BY DEF IInv
  <1> QED BY <1>1, InductiveInvariant, PTL

(* A list whose flag is set enumerates the current mask, unless a polygon  *)
(* selection has changed the mask under a valid list (rd_region.cpp).      *)
THEOREM RegionListsCurrent == Spec => []ListsCurrent
  <1>1. IInv => ListsCurrent BY DEF IInv
  <1> QED BY <1>1, InductiveInvariant, PTL

(* The active and the global-active list always name the same cells, even  *)
(* after a polygon selection: they are filled in one loop under one flag.  *)
THEOREM RegionActiveListsPaired == Spec => []ActiveListsPaired
  <1>1. IInv => ActiveListsPaired BY DEF IInv
  <1> QED BY <1>1, InductiveInvariant, PTL

(* What a client is given by a query is what is selected, with the same    *)
(* exception.                                                              *)
THEOREM RegionAnswersCurrent == Spec => []AnswerCurrent
  <1>1. IInv => AnswerCurrent BY DEF IInv
  <1> QED BY <1>1, InductiveInvariant, PTL

-----------------------------------------------------------------------------
(* What the loop over the cells makes of a set of cells.                   *)

(* The list that the loop has after the first n cells.                     *)
ListAfter(f, S, n) ==
    IF n = 0 THEN <<>>
    ELSE IF n - 1 \in S THEN Append(f[n - 1], n - 1)
    ELSE f[n - 1]

LEMMA GridVolume ==
    grid_vol \in Nat /\ Cells = 0 .. grid_vol - 1
  <1> QED BY GridAssumption DEF grid_vol, Cells

(* The recursion of CellList has a solution, by induction over the cells   *)
(* that were visited.                                                      *)
LEMMA LoopRuns ==
    ASSUME NEW S
    PROVE  \E f : f = [n \in 0 .. grid_vol |-> ListAfter(f, S, n)]
  <1> DEFINE Solved == {m \in 0 .. grid_vol : \E f : f = [n \in 0 .. m |-> ListAfter(f, S, n)]}
  <1>1. 0 \in Solved
    <2> DEFINE f == [n \in 0 .. 0 |-> <<>>]
    <2>1. f = [n \in 0 .. 0 |-> ListAfter(f, S, n)]
      BY DEF ListAfter
    <2> QED BY <2>1, GridVolume
  <1>2. ASSUME NEW m \in 0 .. grid_vol - 1, m \in Solved
        PROVE  m + 1 \in Solved
    <2>1. PICK f : f = [n \in 0 .. m |-> ListAfter(f, S, n)]
      BY <1>2
    <2> DEFINE g == [n \in 0 .. m + 1 |-> IF n = m + 1 THEN ListAfter(f, S, n) ELSE f[n]]
    <2>2. m \in Nat /\ m + 1 \in 0 .. grid_vol
      BY GridVolume
    <2>3. ASSUME NEW n \in 0 .. m + 1
          PROVE  g[n] = ListAfter(g, S, n)
      <3>1. n # 0 => n - 1 \in 0 .. m /\ g[n - 1] = f[n - 1]
        BY <2>2
      <3>2. ListAfter(g, S, n) = ListAfter(f, S, n)
        BY <3>1 DEF ListAfter
      <3>3. n # m + 1 => f[n] = ListAfter(f, S, n)
        <4>1. n # m + 1 => n \in 0 .. m
          BY <2>2
        <4> QED BY <2>1, <4>1
      <3> QED BY <3>2, <3>3
    <2>4. g = [n \in 0 .. m + 1 |-> ListAfter(g, S, n)]
      BY <2>3
    <2> QED BY <2>2, <2>4
  <1>3. grid_vol \in Solved
    <2> HIDE DEF Solved
    <2>1. 0 .. grid_vol \subseteq Solved
      BY <1>1, <1>2, UpToInduction, GridVolume
    <2> QED BY <2>1, GridVolume
  <1> QED BY <1>3

(* The list that it makes holds the cells of the set, each once and in     *)
(* increasing order.                                                       *)
LEMMA CellListEnumerates ==
    ASSUME NEW S \in SUBSET Cells
    PROVE  CellList(S) \in Seq(Int) /\ Abstract!Enumerates(CellList(S), S)
  <1> DEFINE f == CHOOSE f : f = [n \in 0 .. grid_vol |-> ListAfter(f, S, n)]
             Below(n) == {c \in S : c < n}
             Listed == {n \in 0 .. grid_vol :
                           f[n] \in Seq(Int) /\ Abstract!Enumerates(f[n], Below(n))}
  <1>0. grid_vol \in Nat /\ \A c \in S : c \in Int /\ 0 <= c /\ c < grid_vol
    BY GridVolume
  <1>1. CellList(S) = f[grid_vol]
    BY DEF CellList, ListAfter
  <1>2. f = [n \in 0 .. grid_vol |-> ListAfter(f, S, n)]
    BY LoopRuns
  <1> HIDE DEF f
  <1>3. 0 \in Listed
    <2>1. f[0] = <<>> /\ f[0] \in Seq(Int)
      BY <1>2, GridVolume DEF ListAfter
    <2>2. Below(0) = {}
      BY <1>0
    <2>3. Abstract!Enumerates(<<>>, {})
      BY DEF Abstract!Enumerates
    <2>4. f[0] \in Seq(Int) /\ Abstract!Enumerates(f[0], Below(0))
      BY <2>1, <2>2, <2>3
    <2> QED BY <1>0, <2>4
  <1>4. ASSUME NEW n \in 0 .. grid_vol - 1, n \in Listed
        PROVE  n + 1 \in Listed
    <2>1. /\ n \in Nat /\ n + 1 \in 0 .. grid_vol
          /\ f[n + 1] = IF n \in S THEN Append(f[n], n) ELSE f[n]
      <3>1. n \in Nat /\ n + 1 \in 0 .. grid_vol /\ n + 1 # 0 /\ (n + 1) - 1 = n
        BY <1>0
      <3>2. f[n + 1] = ListAfter(f, S, n + 1)
        BY <1>2, <3>1
      <3> QED BY <3>1, <3>2 DEF ListAfter
    <2>2. /\ f[n] \in Seq(Int) /\ {f[n][m] : m \in DOMAIN f[n]} = Below(n)
          /\ \A k, m \in DOMAIN f[n] : k < m => f[n][k] < f[n][m]
      BY <1>4 DEF Abstract!Enumerates
    <2>3. CASE n \notin S
      <3>1. Below(n + 1) = Below(n)
        BY <1>0, <2>1, <2>3
      <3> QED BY <1>4, <2>1, <2>3, <3>1
    <2>4. CASE n \in S
      <3> DEFINE list == Append(f[n], n)
                 last == Len(f[n]) + 1
      <3>1. /\ Len(f[n]) \in Nat /\ DOMAIN f[n] = 1 .. Len(f[n])
            /\ list \in Seq(Int) /\ DOMAIN list = 1 .. last /\ list[last] = n
            /\ \A k \in DOMAIN f[n] : list[k] = f[n][k]
        BY <2>1, <2>2, AppendProperties, LenProperties
      <3> HIDE DEF list
      <3>2. Below(n + 1) = Below(n) \cup {n}
        <4>1. \A c \in S : c < n + 1 <=> c < n \/ c = n
          BY <1>0, <2>1
        <4> QED BY <2>4, <4>1
      <3>3. {list[m] : m \in DOMAIN list} = Below(n + 1)
        <4>1. DOMAIN list = DOMAIN f[n] \cup {last}
          BY <3>1
        <4>2. {list[m] : m \in DOMAIN list} = {f[n][m] : m \in DOMAIN f[n]} \cup {n}
          <5>1. \A m \in DOMAIN list : list[m] \in {f[n][k] : k \in DOMAIN f[n]} \cup {n}
            BY <3>1, <4>1
          <5>2. n \in {list[m] : m \in DOMAIN list}
            BY <3>1, <4>1
          <5>3. \A m \in DOMAIN f[n] : f[n][m] \in {list[k] : k \in DOMAIN list}
            BY <3>1, <4>1
          <5> QED BY <5>1, <5>2, <5>3
        <4> QED BY <2>2, <3>2, <4>2
      <3>4. \A k, m \in DOMAIN list : k < m => list[k] < list[m]
        <4>1. \A k \in DOMAIN f[n] : f[n][k] < n
          BY <2>2
        <4> SUFFICES ASSUME NEW k \in 1 .. last, NEW m \in 1 .. last, k < m
                     PROVE  list[k] < list[m]
          BY <3>1
        <4>2. k \in DOMAIN f[n] /\ list[k] = f[n][k]
          BY <3>1
        <4>3. CASE m = last
          BY <3>1, <4>1, <4>2, <4>3
        <4>4. CASE m # last
          <5>1. m \in 1 .. Len(f[n])
            BY <3>1, <4>4
          <5>2. m \in DOMAIN f[n] /\ list[m] = f[n][m]
            BY <3>1, <5>1
          <5> QED BY <2>2, <4>2, <5>2
        <4> QED BY <4>3, <4>4
      <3>5. f[n + 1] = list
        BY <2>1, <2>4 DEF list
      <3>6. f[n + 1] \in Seq(Int) /\ Abstract!Enumerates(f[n + 1], Below(n + 1))
        BY <3>1, <3>3, <3>4, <3>5 DEF Abstract!Enumerates
      <3> QED BY <2>1, <3>6
    <2> QED BY <2>3, <2>4
  <1>5. grid_vol \in Listed
    <2> HIDE DEF Listed
    <2>1. 0 .. grid_vol \subseteq Listed
      BY <1>3, <1>4, UpToInduction, GridVolume
    <2> QED BY <2>1, GridVolume
  <1>6. Below(grid_vol) = S
    BY <1>0
  <1> QED BY <1>1, <1>5, <1>6

(* rd_grid_set_active_index numbers the active cells in the order of the   *)
(* cells, unless the grid has coarse groups: their cells share an index.   *)
NumberedInOrder ==
    \A c, d \in ActiveCells : c < d => IndexMap[c] < IndexMap[d]

(* The active indices of a list of cells are in the order of the list.     *)
LEMMA ActiveListEnumerates ==
    ASSUME NumberedInOrder, NEW S \in SUBSET ActiveCells
    PROVE  Abstract!Enumerates(ActiveIndexOf(CellList(S)), {IndexMap[c] : c \in S})
  <1> DEFINE list == CellList(S)
             indices == ActiveIndexOf(list)
  <1>1. /\ {list[n] : n \in DOMAIN list} = S
        /\ \A m, n \in DOMAIN list : m < n => list[m] < list[n]
    BY CellListEnumerates DEF Abstract!Enumerates, ActiveCells
  <1> HIDE DEF list
  <1>2. DOMAIN indices = DOMAIN list /\ \A n \in DOMAIN list : indices[n] = IndexMap[list[n]]
    BY DEF ActiveIndexOf
  <1> HIDE DEF indices
  <1>3. {indices[n] : n \in DOMAIN indices} = {IndexMap[c] : c \in S}
    BY <1>1, <1>2
  <1>4. \A n \in DOMAIN list : list[n] \in ActiveCells
    BY <1>1
  <1>5. \A m, n \in DOMAIN indices : m < n => indices[m] < indices[n]
    BY <1>1, <1>2, <1>4 DEF NumberedInOrder
  <1> QED BY <1>3, <1>5 DEF list, indices, Abstract!Enumerates

(* Every operation is a step of the abstract selection: a change, with no  *)
(* answer, or an answer computed from the current set.                     *)
LEMMA Changes ==
    ASSUME answer'.kind = "none"
    PROVE  Abstract!Next
  <1>1. Selected' \in SUBSET Cells
    BY DEF Selected
  <1>2. Abstract!Change
    BY <1>1 DEF Abstract!Change
  <1> QED BY <1>2 DEF Abstract!Next

LEMMA Answers ==
    ASSUME NumberedInOrder, AnswerCurrent', ~stale', Query
    PROVE  Abstract!Next
  <1>1. Selected' = Selected /\ Selected \in SUBSET Cells
    BY DEF Query, GetKwIndexList, GetGlobalList, GetActiveList, GetGlobalActiveList, Selected
  <1>2. Abstract!Active(Selected) = Selected \cap ActiveCells
    BY <1>1 DEF Abstract!Active, ActiveCells
  <1>3. CASE answer'.kind = "global"
    <2>1. Abstract!Enumerates(answer'.list, Selected)
      BY <1>1, <1>3, CellListEnumerates DEF AnswerCurrent
    <2> QED BY <1>1, <1>3, <2>1 DEF Abstract!AskGlobal, Abstract!Next
  <1>4. CASE answer'.kind = "global_active"
    <2>1. Abstract!Enumerates(answer'.list, Selected \cap ActiveCells)
      BY <1>1, <1>4, CellListEnumerates DEF AnswerCurrent
    <2> QED BY <1>1, <1>2, <1>4, <2>1 DEF Abstract!AskGlobalActive, Abstract!Next
  <1>5. CASE answer'.kind = "active"
    <2>1. Abstract!Enumerates(answer'.list, {IndexMap[c] : c \in Selected \cap ActiveCells})
      BY <1>1, <1>5, ActiveListEnumerates DEF AnswerCurrent
    <2> QED BY <1>1, <1>2, <1>5, <2>1 DEF Abstract!AskActive, Abstract!Next
  <1>6. answer'.kind \in {"global", "global_active", "active"}
    BY DEF Query, GetKwIndexList, GetGlobalList, GetActiveList, GetGlobalActiveList
  <1> QED BY <1>3, <1>4, <1>5, <1>6

(* Outside a query no answer is given.                                     *)
LEMMA NoAnswerGiven ==
    ASSUME Next, ~Query
    PROVE  answer' = NoAnswer
  <1>1. ASSUME NEW S, NEW select, Assign(S, select) PROVE answer' = NoAnswer
    BY <1>1 DEF Assign, Replace, InvalidateIndexLists
  <1>2. ASSUME SelectByKeyword PROVE answer' = NoAnswer
    BY <1>1, <1>2 DEF SelectByKeyword, SelectEqual, SelectBoolEqual, SelectInInterval,
       SelectWithLimit, CmpSelect
  <1>3. ASSUME SelectByPosition PROVE answer' = NoAnswer
    BY <1>1, <1>3 DEF SelectByPosition, SelectFromBox, SelectI1I2, SelectJ1J2, SelectK1K2,
       SelectFromLayer
  <1>4. ASSUME SelectByGeometry PROVE answer' = NoAnswer
    BY <1>1, <1>4 DEF SelectByGeometry, SelectFromDepth, SelectFromVolume, SelectFromDz,
       SelectActiveCells, PlaneSelect
  <1>5. ASSUME CombineRegions PROVE answer' = NoAnswer
    BY <1>1, <1>5 DEF CombineRegions, SelectAll, InvertSelection, Reset, AllocCopy,
       Intersection, Union, Subtract, Xor, Replace, InvalidateIndexLists
  <1>6. ASSUME SelectByPolygon PROVE answer' = NoAnswer
    BY <1>6 DEF SelectByPolygon, PolygonSelect, WriteMask
  <1> QED BY <1>2, <1>3, <1>4, <1>5, <1>6 DEF Next, NextInvalidating

(* A region implements the abstract selection, in which nothing is cached, *)
(* as long as no polygon selection has changed the mask under a list that  *)
(* is kept: every answer enumerates, in order and each once, the cells     *)
(* that are selected when it is given.  Of a grid with coarse groups this  *)
(* is not said of the active list, which repeats their index.              *)
THEOREM RegionImplementsSelection ==
    ASSUME NumberedInOrder
    PROVE  Spec => CacheInvisibleUnlessStale
  <1>1. Init => Abstract!Init
    <2> SUFFICES ASSUME Init PROVE Abstract!Init
      OBVIOUS
    <2>1. Selected \in {{}, Cells}
      BY DEF Init, Selected
    <2> QED BY <2>1 DEF Init, NoAnswer, Abstract!Init
  <1>2. AnswerCurrent' /\ [Next]_vars =>
            [(~stale /\ ~stale') => (Abstract!Next \/ UNCHANGED Abstract!vars)]_vars
    <2> SUFFICES ASSUME AnswerCurrent', Next, ~stale'
                 PROVE  Abstract!Next
      OBVIOUS
    <2>1. CASE Query
      BY <2>1, Answers
    <2>2. CASE ~Query
      BY <2>2, NoAnswerGiven, Changes DEF NoAnswer
    <2> QED BY <2>1, <2>2
  <1> QED BY <1>1, <1>2, RegionAnswersCurrent, PTL DEF Spec, CacheInvisibleUnlessStale
=============================================================================
