------------------------------- MODULE Region -------------------------------
(***************************************************************************)
(* rd_region.cpp: a selection of the cells of one grid.  The selection     *)
(* proper is active_mask; the index lists a client asks for are built from *)
(* it on demand and kept until a flag says they are out of date.           *)
(*                                                                         *)
(* One region is modelled.  The other operand of the set operations is     *)
(* only read by them, so it is any set of cells.  Regions of two different *)
(* grids, and keywords of a wrong size or type, end in util_abort(): they  *)
(* are outside the guards.                                                 *)
(***************************************************************************)
EXTENDS Integers, Sequences

CONSTANTS
    NX, NY, NZ,                \* dimensions of the grid
    NActive,                   \* number of active cells
    IndexMap,                  \* rd_grid index_map: global -> active or -1
    InvIndexMap,               \* rd_grid inv_index_map: active -> global
    Depth, Volume, Thickness,  \* geometry of each cell
    Keywords,                  \* the keywords a caller may pass
    Limits                     \* the limits a caller may pass, in halves

grid_vol == NX * NY * NZ
Cells == 0 .. grid_vol - 1
ActiveIndices == 0 .. NActive - 1

(* A keyword has one value per cell or one per active cell.  Values are    *)
(* counted in halves, so that a limit can lie between two integers.        *)
Sizes == {grid_vol, NActive}

ASSUME GridAssumption ==
    /\ NX \in Nat \ {0} /\ NY \in Nat \ {0} /\ NZ \in Nat \ {0}
    /\ NActive \in Nat
    /\ IndexMap \in [Cells -> -1 .. NActive - 1]
    /\ InvIndexMap \in [ActiveIndices -> Cells]

ASSUME KeywordAssumption ==
    \A kw \in Keywords :
        /\ kw.type \in {"int", "float", "bool"}
        /\ DOMAIN kw.data \in {Cells, ActiveIndices}

VARIABLES
    active_mask,               \* [Cells -> BOOLEAN]: the selection
    global_index_list,         \* cached: the selected cells
    active_index_list,         \* cached: active indices of those active
    global_active_list,        \* cached: global indices of the same cells
    global_index_list_valid,
    active_index_list_valid,
    preselect,
    answer,                    \* the list the last query returned
    stale                      \* history: the mask changed under a valid list

lists == <<global_index_list, active_index_list, global_active_list>>
flags == <<global_index_list_valid, active_index_list_valid>>
vars == <<active_mask, lists, flags, preselect, answer, stale>>

NoAnswer == [kind |-> "none", list |-> <<>>]

Selected == {c \in Cells : active_mask[c]}
ActiveCells == {c \in Cells : IndexMap[c] >= 0}

(* The loop over all cells that appends the members of S in order.         *)
CellList(S) ==
    LET upto[n \in 0 .. grid_vol] ==
            IF n = 0 THEN <<>>
            ELSE IF n - 1 \in S THEN Append(upto[n - 1], n - 1)
            ELSE upto[n - 1]
    IN  upto[grid_vol]

ListsOver(C) == {CellList(S) : S \in SUBSET C}

ActiveIndexOf(list) == [n \in DOMAIN list |-> IndexMap[list[n]]]

-----------------------------------------------------------------------------
(* The cells of the grid a coordinate range or a keyword value picks.      *)

GlobalIndex(i, j, k) == i + j * NX + k * NX * NY

Columns == (0 .. NX - 1) \X (0 .. NY - 1)

BoxCells(i1, i2, j1, j2, k1, k2) ==
    {GlobalIndex(i, j, k) : i \in i1 .. i2, j \in j1 .. j2, k \in k1 .. k2}

Lower(x) == IF x < 0 THEN 0 ELSE x
Upper(x, n) == IF x > n - 1 THEN n - 1 ELSE x

IsGlobal(kw) == DOMAIN kw.data = Cells

Elements(kw) == DOMAIN kw.data

(* The cells of the elements E of a keyword.                               *)
CellsAt(kw, E) == IF IsGlobal(kw) THEN E ELSE {InvIndexMap[a] : a \in E}

(* (int) limit: truncation towards zero of a number counted in halves.     *)
Truncated(h) == IF h >= 0 THEN h - (h % 2) ELSE -((-h) - ((-h) % 2))

(* An integer keyword is compared with the truncated limit, and strictly.  *)
WithinLimit(type, x, limit, select_less) ==
    CASE type = "int" /\ select_less  -> x < Truncated(limit)
      [] type = "int" /\ ~select_less -> x > Truncated(limit)
      [] type # "int" /\ select_less  -> x < limit
      [] OTHER                        -> x >= limit

-----------------------------------------------------------------------------
(* Every operation that changes the selection ends in one of these two.    *)

(* Mutant: only the flag of the active lists is cleared.                   *)
InvalidateActiveOnly ==
    /\ active_index_list_valid' = FALSE
    /\ stale' = FALSE
    /\ answer' = NoAnswer
    /\ UNCHANGED <<lists, preselect, global_index_list_valid>>

InvalidateIndexLists ==
    /\ global_index_list_valid' = FALSE
    /\ active_index_list_valid' = FALSE
    /\ stale' = FALSE
    /\ answer' = NoAnswer
    /\ UNCHANGED <<lists, preselect>>

Replace(S) ==
    /\ active_mask' = [c \in Cells |-> c \in S]
    /\ InvalidateIndexLists

With(S, select) == IF select THEN Selected \cup S ELSE Selected \ S

Assign(S, select) == Replace(With(S, select))

-----------------------------------------------------------------------------
(* Selection by keyword value.                                             *)

SelectEqual(kw, value, select) ==
    /\ kw.type = "int"
    /\ Assign(CellsAt(kw, {e \in Elements(kw) : kw.data[e] = value}), select)

(* There is no deselecting variant of select_true and select_false.        *)
SelectBoolEqual(kw, value) ==
    /\ kw.type = "bool"
    /\ Assign(CellsAt(kw, {e \in Elements(kw) : (kw.data[e] # 0) = value}), TRUE)

SelectInInterval(kw, min_value, max_value, select) ==
    /\ kw.type = "float"
    /\ Assign(CellsAt(kw, {e \in Elements(kw) : /\ kw.data[e] >= min_value
                                               /\ kw.data[e] < max_value}), select)

SelectWithLimit(kw, limit, select_less, select) ==
    /\ kw.type \in {"int", "float"}
    /\ Assign(CellsAt(kw, {e \in Elements(kw) :
                              WithinLimit(kw.type, kw.data[e], limit, select_less)}),
              select)

CmpSelect(kw1, kw2, select_less, select) ==
    /\ kw1.type = "float" /\ kw2.type = "float"
    /\ Elements(kw1) = Elements(kw2)
    /\ LET less == {e \in Elements(kw1) : kw1.data[e] < kw2.data[e]}
       IN  Assign(CellsAt(kw1, IF select_less THEN less ELSE Elements(kw1) \ less),
                  select)

-----------------------------------------------------------------------------
(* Selection by position and geometry.                                     *)

(* rd_box::active_list() holds active indices; the region uses each of     *)
(* them as a global index.                                                 *)
SelectFromBox(i1, i2, j1, j2, k1, k2, select) ==
    LET box == BoxCells(i1, i2, j1, j2, k1, k2)
    IN  Assign({IndexMap[c] : c \in box \cap ActiveCells}, select)

SelectI1I2(i1, i2, select) ==
    /\ i1 <= i2
    /\ Assign(BoxCells(Lower(i1), Upper(i2, NX), 0, NY - 1, 0, NZ - 1), select)

SelectJ1J2(j1, j2, select) ==
    /\ j1 <= j2
    /\ Assign(BoxCells(0, NX - 1, Lower(j1), Upper(j2, NY), 0, NZ - 1), select)

SelectK1K2(k1, k2, select) ==
    /\ k1 <= k2
    /\ Assign(BoxCells(0, NX - 1, 0, NY - 1, Lower(k1), Upper(k2, NZ)), select)

SelectFromDepth(limit, select_deep, select) ==
    Assign({c \in Cells : IF select_deep THEN Depth[c] >= limit
                                         ELSE Depth[c] <= limit}, select)

SelectFromVolume(limit, select_small, select) ==
    Assign({c \in Cells : IF select_small THEN Volume[c] <= limit
                                          ELSE Volume[c] >= limit}, select)

SelectFromDz(limit, select_thin, select) ==
    Assign({c \in Cells : IF select_thin THEN Thickness[c] <= limit
                                         ELSE Thickness[c] >= limit}, select)

SelectActiveCells(select_active, select) ==
    Assign(IF select_active THEN ActiveCells ELSE Cells \ ActiveCells, select)

(* above is the set of cells with a non-negative distance to the plane.    *)
PlaneSelect(above, select_above, select) ==
    Assign(IF select_above THEN above ELSE Cells \ above, select)

(* columns is the set of (i, j) whose layer value is the one asked for;    *)
(* when there is none the flags are left alone.                            *)
SelectFromLayer(columns, k, select) ==
    IF columns = {}
    THEN answer' = NoAnswer /\ UNCHANGED <<active_mask, lists, flags, preselect, stale>>
    ELSE Assign({GlobalIndex(c[1], c[2], k) : c \in columns}, select)

(* inside is the set of columns whose k = 0 cell is in the polygon.  This  *)
(* operation writes the mask and does not touch the flags.                 *)
WriteMask(S) ==
    /\ active_mask' = [c \in Cells |-> c \in S]
    /\ stale' = (stale \/ (S # Selected /\ (\/ global_index_list_valid
                                            \/ active_index_list_valid)))
    /\ answer' = NoAnswer
    /\ UNCHANGED <<lists, flags, preselect>>

PolygonSelect(inside, select_inside, select) ==
    LET hit == IF select_inside THEN inside ELSE Columns \ inside
    IN  WriteMask(With({GlobalIndex(c[1], c[2], k) : c \in hit, k \in 0 .. NZ - 1},
                       select))

-----------------------------------------------------------------------------
(* Selection of everything, reset, copy, and the set operations; other is  *)
(* the selection of the second region.                                     *)

SelectAll(select) == Assign(Cells, select)
InvertSelection   == Replace(Cells \ Selected)
Reset             == Replace(IF preselect THEN Cells ELSE {})

Intersection(other) == Replace(Selected \cap other)
Union(other)        == Replace(Selected \cup other)
Subtract(other)     == Replace(Selected \ other)

(* mask ^= !other, as the code has it.                                     *)
Xor(other) == Replace({c \in Cells : active_mask[c] # (c \notin other)})

(* The copy has the mask of the original and no lists; the model goes on   *)
(* with the copy.                                                          *)
AllocCopy ==
    /\ global_index_list' = <<>>
    /\ active_index_list' = <<>>
    /\ global_active_list' = <<>>
    /\ global_index_list_valid' = FALSE
    /\ active_index_list_valid' = FALSE
    /\ stale' = FALSE
    /\ answer' = NoAnswer
    /\ UNCHANGED <<active_mask, preselect>>

-----------------------------------------------------------------------------
(* Queries.                                                                *)

AssertGlobalIndexList ==
    /\ global_index_list' =
           IF global_index_list_valid THEN global_index_list ELSE CellList(Selected)
    /\ global_index_list_valid' = TRUE
    /\ UNCHANGED <<active_index_list, global_active_list, active_index_list_valid>>

AssertActiveIndexList ==
    /\ IF active_index_list_valid
       THEN UNCHANGED <<active_index_list, global_active_list>>
       ELSE /\ global_active_list' = CellList(Selected \cap ActiveCells)
            /\ active_index_list' = ActiveIndexOf(CellList(Selected \cap ActiveCells))
    /\ active_index_list_valid' = TRUE
    /\ UNCHANGED <<global_index_list, global_index_list_valid>>

GetGlobalList ==
    /\ AssertGlobalIndexList
    /\ answer' = [kind |-> "global", list |-> global_index_list']
    /\ UNCHANGED <<active_mask, preselect, stale>>

GetActiveList ==
    /\ AssertActiveIndexList
    /\ answer' = [kind |-> "active", list |-> active_index_list']
    /\ UNCHANGED <<active_mask, preselect, stale>>

(* Mutant: the list is returned without the active lists being asserted.   *)
GetGlobalActiveUnasserted ==
    /\ AssertGlobalIndexList
    /\ answer' = [kind |-> "global_active", list |-> global_active_list]
    /\ UNCHANGED <<active_mask, preselect, stale>>

GetGlobalActiveList ==
    /\ AssertActiveIndexList
    /\ answer' = [kind |-> "global_active", list |-> global_active_list']
    /\ UNCHANGED <<active_mask, preselect, stale>>

(* set, shift, scale, add, subtract, multiply, divide, copy and sum over a *)
(* keyword of kw_size elements visit the elements on the list this picks.  *)
GetKwIndexList(kw_size, force_active) ==
    IF kw_size = NActive THEN GetActiveList
    ELSE /\ kw_size = grid_vol
         /\ IF force_active THEN GetGlobalActiveList ELSE GetGlobalList

-----------------------------------------------------------------------------
ListsTyped ==
    /\ global_index_list \in ListsOver(Cells) \cup {<<>>}
    /\ global_active_list \in ListsOver(ActiveCells) \cup {<<>>}
    /\ \E l \in ListsOver(ActiveCells) \cup {<<>>} :
           active_index_list = ActiveIndexOf(l)

TypeOK ==
    /\ active_mask \in [Cells -> BOOLEAN]
    /\ ListsTyped
    /\ global_index_list_valid \in BOOLEAN
    /\ active_index_list_valid \in BOOLEAN
    /\ preselect \in BOOLEAN
    /\ answer.kind \in {"none", "global", "active", "global_active"}
    /\ stale \in BOOLEAN

Init ==
    /\ preselect \in BOOLEAN
    /\ active_mask = [c \in Cells |-> preselect]
    /\ global_index_list = <<>>
    /\ active_index_list = <<>>
    /\ global_active_list = <<>>
    /\ global_index_list_valid = FALSE
    /\ active_index_list_valid = FALSE
    /\ answer = NoAnswer
    /\ stale = FALSE

SelectByKeyword ==
    \E kw \in Keywords, select \in BOOLEAN :
        \/ \E value \in Limits : SelectEqual(kw, value, select)
        \/ \E value \in BOOLEAN : SelectBoolEqual(kw, value)
        \/ \E lo, hi \in Limits : SelectInInterval(kw, lo, hi, select)
        \/ \E limit \in Limits, less \in BOOLEAN :
               SelectWithLimit(kw, limit, less, select)
        \/ \E kw2 \in Keywords, less \in BOOLEAN : CmpSelect(kw, kw2, less, select)

(* Slices are passed with one step beyond the grid at either end.          *)
SelectByPosition ==
    \E select \in BOOLEAN :
        \/ \E i1, i2 \in 0 .. NX - 1, j1, j2 \in 0 .. NY - 1, k1, k2 \in 0 .. NZ - 1 :
               /\ i1 <= i2 /\ j1 <= j2 /\ k1 <= k2
               /\ SelectFromBox(i1, i2, j1, j2, k1, k2, select)
        \/ \E i1, i2 \in -1 .. NX : SelectI1I2(i1, i2, select)
        \/ \E j1, j2 \in -1 .. NY : SelectJ1J2(j1, j2, select)
        \/ \E k1, k2 \in -1 .. NZ : SelectK1K2(k1, k2, select)
        \/ \E columns \in SUBSET Columns, k \in 0 .. NZ - 1 :
               SelectFromLayer(columns, k, select)

SelectByGeometry ==
    \E select, side \in BOOLEAN :
        \/ \E limit \in Limits : \/ SelectFromDepth(limit, side, select)
                                 \/ SelectFromVolume(limit, side, select)
                                 \/ SelectFromDz(limit, side, select)
        \/ SelectActiveCells(side, select)
        \/ \E above \in SUBSET Cells : PlaneSelect(above, side, select)

CombineRegions ==
    \/ \E select \in BOOLEAN : SelectAll(select)
    \/ InvertSelection
    \/ Reset
    \/ AllocCopy
    \/ \E other \in SUBSET Cells : \/ Intersection(other)
                                   \/ Union(other)
                                   \/ Subtract(other)
                                   \/ Xor(other)

Query ==
    \/ GetGlobalList
    \/ GetActiveList
    \/ GetGlobalActiveList
    \/ \E kw_size \in Sizes, force_active \in BOOLEAN :
           GetKwIndexList(kw_size, force_active)

SelectByPolygon ==
    \E inside \in SUBSET Columns, side, select \in BOOLEAN :
        PolygonSelect(inside, side, select)

(* The operations that invalidate the lists whenever they write the mask.  *)
NextInvalidating ==
    \/ SelectByKeyword
    \/ SelectByPosition
    \/ SelectByGeometry
    \/ CombineRegions
    \/ Query

Next == NextInvalidating \/ SelectByPolygon

Spec == Init /\ [][Next]_vars

-----------------------------------------------------------------------------
(* The cached lists are never out of date: a list whose flag is set is the *)
(* enumeration of the current mask, unless a polygon selection has changed *)
(* the mask since.  Every other operation of rd_region.cpp keeps it.       *)
ListsCurrent ==
    stale \/ /\ global_index_list_valid => global_index_list = CellList(Selected)
             /\ active_index_list_valid =>
                    global_active_list = CellList(Selected \cap ActiveCells)

(* active_index_list and global_active_list share one flag and one loop:   *)
(* position by position they name the same cells, whatever was done to the *)
(* region, so a keyword operation touches the same cells for a keyword of  *)
(* active size and, with force_active, for one of global size.             *)
ActiveListsPaired == active_index_list = ActiveIndexOf(global_active_list)

(* What a client was given is what is selected when it is given: an answer *)
(* comes from the list asked for, built from the mask as it then is.       *)
AnswerCurrent ==
    stale \/ /\ answer.kind = "global" => answer.list = CellList(Selected)
             /\ answer.kind = "global_active" =>
                    answer.list = CellList(Selected \cap ActiveCells)
             /\ answer.kind = "active" =>
                    answer.list = ActiveIndexOf(CellList(Selected \cap ActiveCells))

(* Seen from outside there are no cached lists: every answer is computed   *)
(* from the current selection.                                             *)
Abstract == INSTANCE Selection WITH
    sel <- Selected, ActiveIndex <- LAMBDA c : IndexMap[c]

CacheInvisible == Abstract!Spec

(* It is so as long as no polygon selection has changed the mask under a   *)
(* list that is kept.                                                      *)
CacheInvisibleUnlessStale ==
    /\ Abstract!Init
    /\ [][(~stale /\ ~stale') => (Abstract!Next \/ UNCHANGED Abstract!vars)]_vars
=============================================================================
