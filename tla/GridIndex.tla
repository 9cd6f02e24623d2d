----------------------------- MODULE GridIndex -----------------------------
(***************************************************************************)
(* The numbering of the active cells of a grid (rd_grid.cpp) and of its    *)
(* coarse groups (rd_coarse_cell.cpp).                                     *)
(*                                                                         *)
(* Every cell has a global index.  The active ones also have an active     *)
(* index for the matrix and, with dual porosity, one for the fractures;    *)
(* all the cells of a coarse group count as one.  index_map leads from     *)
(* global to active index and inv_index_map back.  Both are rebuilt when   *)
(* the grid is loaded, when it is copied and when actnum is reset.         *)
(***************************************************************************)
EXTENDS Integers, Sequences, FiniteSets

CONSTANTS
    Size,            \* number of cells
    Groups,          \* coarse group numbers
    CoarseGroup,     \* [Cells -> Groups \cup {NoGroup}]
    NoGroup,
    DualPorosity,    \* whether there are fracture cells
    MaxUpdates       \* bound: rebuilds of the index that are explored

Cells == 0 .. Size - 1
Kinds == IF DualPorosity THEN {"matrix", "fracture"} ELSE {"matrix"}

(* cell.active is a set of the bits CELL_ACTIVE_MATRIX (1) and             *)
(* CELL_ACTIVE_FRACTURE (2); a cell with value 0 is inactive.              *)
ActiveValues == SUBSET Kinds
Inactive == {}

ASSUME GridIndexAssumption ==
    /\ Size \in Nat \ {0}
    /\ NoGroup \notin Groups
    /\ CoarseGroup \in [Cells -> Groups \cup {NoGroup}]
    /\ \A c \in Groups : \E g \in Cells : CoarseGroup[g] = c
    /\ DualPorosity \in BOOLEAN
    /\ MaxUpdates \in Nat

VARIABLES
    active,          \* [Cells -> ActiveValues]
    active_cells,    \* per group: the global indices recorded as active
    active_values,   \* per group: their active values
    group_index,     \* per group and kind: the active index, -1 for none
    index_map,       \* per kind: global index -> active index, -1 for none
    inv_index_map,   \* per kind: active index -> global index
    total_active,    \* per kind
    status,          \* "ok", "aborted", or "undefined" after a stray write
    updates

vars == <<active, active_cells, active_values, group_index, index_map,
          inv_index_map, total_active, status, updates>>

Members(c) == {g \in Cells : CoarseGroup[g] = c}
ActiveMembers(act, c) == {g \in Members(c) : act[g] # Inactive}

(* The members of a set of cells in the order the loops visit them.        *)
InOrder(S) == CHOOSE s \in [1 .. Cardinality(S) -> S] :
                  \A m, n \in DOMAIN s : m < n => s[m] < s[n]

-----------------------------------------------------------------------------
(* rd_grid_set_active_index: the counter is taken by every active cell     *)
(* outside the groups and by the first active cell of each group.          *)

TakesIndex(act, kind, g) ==
    /\ kind \in act[g]
    /\ \/ CoarseGroup[g] = NoGroup
       \/ \A h \in Members(CoarseGroup[g]) : h < g => kind \notin act[h]

Counter(act, kind, g) == Cardinality({h \in 0 .. g - 1 : TakesIndex(act, kind, h)})

IndexOfGroup(act, kind, c) ==
    LET takers == {g \in Members(c) : TakesIndex(act, kind, g)}
    IN  IF takers = {} THEN -1
        ELSE Counter(act, kind, CHOOSE g \in takers : TRUE)

(* rd_coarse_cell_update_index appends every active member; the lists are  *)
(* not cleared by rd_coarse_cell_reset_active_index.                       *)
CellsRecorded(old, act) ==
    [c \in Groups |-> old[c] \o InOrder(ActiveMembers(act, c))]

ValuesRecorded(old, act) ==
    [c \in Groups |->
        old[c] \o [n \in 1 .. Cardinality(ActiveMembers(act, c)) |->
                      act[InOrder(ActiveMembers(act, c))[n]]]]

(* util_abort: a value that differs from the one recorded before it.       *)
Mixed(values) ==
    \E c \in Groups : \E n \in 2 .. Len(values[c]) : values[c][n] # values[c][n - 1]

-----------------------------------------------------------------------------
(* rd_grid_realloc_index_map.  A group takes part with the first cell it   *)
(* has on record and that cell's recorded value.                           *)

GroupIndexes(kind, c, values) == values[c] # <<>> /\ kind \in Head(values[c])

IndexMapOf(act, kind, values, gindex) ==
    [g \in Cells |->
        LET c == CoarseGroup[g]
        IN  IF c # NoGroup /\ GroupIndexes(kind, c, values) THEN gindex[c][kind]
            ELSE IF kind \in act[g] THEN Counter(act, kind, g)
            ELSE -1]

(* resize keeps the elements below the new size and adds zeros.            *)
Resized(old, size) ==
    [a \in 0 .. size - 1 |-> IF a \in DOMAIN old THEN old[a] ELSE 0]

(* Mutant: the indices of the groups are left out of the inverse map.      *)
InverseOfPlain(old, act, kind, cells, values, gindex, size) ==
    [a \in 0 .. size - 1 |->
        LET plain == {g \in Cells : /\ CoarseGroup[g] = NoGroup /\ kind \in act[g]
                                    /\ Counter(act, kind, g) = a}
        IN  IF plain # {} THEN CHOOSE g \in plain : TRUE ELSE Resized(old, size)[a]]

InverseOf(old, act, kind, cells, values, gindex, size) ==
    [a \in 0 .. size - 1 |->
        LET groups == {c \in Groups : GroupIndexes(kind, c, values) /\ gindex[c][kind] = a}
            plain  == {g \in Cells : /\ CoarseGroup[g] = NoGroup /\ kind \in act[g]
                                     /\ Counter(act, kind, g) = a}
        IN  IF groups # {} THEN Head(cells[CHOOSE c \in groups : TRUE])
            ELSE IF plain # {} THEN CHOOSE g \in plain : TRUE
            ELSE Resized(old, size)[a]]

(* A group on record as active that has no index is written at [-1].       *)
StrayWrite(values, gindex) ==
    \E c \in Groups, kind \in Kinds :
        GroupIndexes(kind, c, values) /\ gindex[c][kind] = -1

(* rd_grid_update_index for the active values act, the record of each      *)
(* group and the inverse map as they were before.                          *)
UpdateIndex(act, cells, values, inverse) ==
    LET cells2  == CellsRecorded(cells, act)
        values2 == ValuesRecorded(values, act)
        gindex  == [c \in Groups |-> [kind \in Kinds |-> IndexOfGroup(act, kind, c)]]
        total   == [kind \in Kinds |->
                       Cardinality({g \in Cells : TakesIndex(act, kind, g)})]
    IN  /\ active' = act
        /\ active_cells' = cells2
        /\ active_values' = values2
        /\ group_index' = gindex
        /\ total_active' = total
        /\ index_map' = [kind \in Kinds |-> IndexMapOf(act, kind, values2, gindex)]
        /\ inv_index_map' = [kind \in Kinds |->
               InverseOf(inverse[kind], act, kind, cells2, values2, gindex, total[kind])]
        /\ status' = IF Mixed(values2) THEN "aborted"
                     ELSE IF StrayWrite(values2, gindex) THEN "undefined"
                     ELSE "ok"
        /\ updates' = updates + 1

-----------------------------------------------------------------------------
NoRecord  == [c \in Groups |-> <<>>]
NoInverse == [kind \in Kinds |-> <<>>]

(* rd_grid_reset_actnum, with the active values of the caller.             *)
ResetActnum(actnum) ==
    /\ status = "ok" /\ updates < MaxUpdates
    /\ UpdateIndex(actnum, active_cells, active_values, inv_index_map)

(* rd_grid_alloc_copy: the copy has the cells of the original and coarse   *)
(* groups of its own; the model goes on with the copy.                     *)
AllocCopy ==
    /\ status = "ok" /\ updates < MaxUpdates
    /\ UpdateIndex(active, NoRecord, NoRecord, NoInverse)

(* A grid that is allocated but not indexed yet.                           *)
Init ==
    /\ active = [g \in Cells |-> Inactive]
    /\ active_cells = NoRecord
    /\ active_values = NoRecord
    /\ group_index = [c \in Groups |-> [kind \in Kinds |-> -1]]
    /\ index_map = [kind \in Kinds |-> [g \in Cells |-> -1]]
    /\ inv_index_map = NoInverse
    /\ total_active = [kind \in Kinds |-> 0]
    /\ status = "ok"
    /\ updates = 0

(* Loading: the cells get their active values from the file, the groups    *)
(* are set up, and the index is built for the first time.                  *)
Load(act) ==
    /\ updates = 0
    /\ UpdateIndex(act, NoRecord, NoRecord, NoInverse)

Next ==
    \/ \E act \in [Cells -> ActiveValues] : Load(act)
    \/ updates > 0 /\ \E act \in [Cells -> ActiveValues] : ResetActnum(act)
    \/ updates > 0 /\ AllocCopy

Spec == Init /\ [][Next]_vars

-----------------------------------------------------------------------------
(* Going from an active index to a global index and back is the identity,  *)
(* so a property stored per active cell is read from the cell it was       *)
(* written for, in coarse groups too and after any number of resets.       *)
RoundTrip ==
    status = "ok" =>
        \A kind \in Kinds : \A a \in 0 .. total_active[kind] - 1 :
            index_map[kind][inv_index_map[kind][a]] = a
=============================================================================
