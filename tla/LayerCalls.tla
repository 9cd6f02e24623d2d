----------------------------- MODULE LayerCalls -----------------------------
(***************************************************************************)
(* A client at work on a layer (layer.cpp, layer.py).                      *)
(*                                                                         *)
(* The calls that change cells one by one are one action each.  The three  *)
(* that walk over the layer by recursion are taken step by step: filling a *)
(* connected area with a value (layer_update_connected_cells), collecting  *)
(* the cells of a block and erasing it (layer_trace_block_content), and    *)
(* going round a block (layer_trace_block_edge).                           *)
(***************************************************************************)
EXTENDS Layer

CONSTANTS
    Layouts,         \* what a layer is loaded with: a number for each cell, row by row
    Values,          \* the values a client sets
    BarrierLines,    \* pairs of corners between which barriers are put
    MaxChanges       \* bound: calls on one layer that change it

ASSUME LayerCallsAssumption ==
    /\ \A layout \in Layouts : layout \in [1 .. NX * NY -> Nat]
    /\ Values \subseteq Int
    /\ BarrierLines \subseteq Corners \X Corners
    /\ MaxChanges \in Nat

VARIABLES
    client_layer,
    walk,            \* the recursive call that runs, or the last that returned
    laid,            \* history: the sides of cells barriers were put on
    overwritten,     \* history: the cells a value was taken from
    changes

layerVars == <<client_layer, walk, laid, overwritten, changes>>

(* The cells and those around them.                                        *)
Frame == {<<i, j>> : i \in -1 .. NX, j \in -1 .. NY}

NoWalk  == [op |-> "none"]
Walking == {"update", "content", "outline"}
AtRest  == {"none", "updated", "contents", "outlined"}

Ready == walk.op \in AtRest /\ walk' = NoWalk
ChangingCells == Ready /\ changes < MaxChanges /\ changes' = changes + 1

-----------------------------------------------------------------------------
LayerInit ==
    /\ client_layer = LayerAlloc
    /\ walk = NoWalk
    /\ laid = {}
    /\ overwritten = {}
    /\ changes = 0

(* A new layer in the place of the last one.                               *)
Load(layout) ==
    /\ Ready
    /\ client_layer' = Loaded(layout)
    /\ laid' = {}
    /\ overwritten' = {}
    /\ changes' = 0

Overwritten(l, m) == {c \in Cells : l.value[c] # 0 /\ m.value[c] # l.value[c]}

Set(c, v) ==
    /\ ChangingCells
    /\ client_layer' = IsetCellValue(client_layer, c, v)
    /\ overwritten' = overwritten \cup Overwritten(client_layer, client_layer')
    /\ UNCHANGED laid

Replace(old, new) ==
    /\ ChangingCells
    /\ client_layer' = ReplaceCellValues(client_layer, old, new)
    /\ overwritten' = overwritten \cup Overwritten(client_layer, client_layer')
    /\ UNCHANGED laid

(* All edges are 0 then, those on the border of the layer too.             *)
Assign(v) ==
    /\ ChangingCells
    /\ client_layer' = AssignValue(client_layer, v)
    /\ overwritten' = IF v = 0 THEN {} ELSE Frame
    /\ UNCHANGED laid

(* The sides of cells between two corners in a row or a column.            *)
SidesBetween(p, q) ==
    LET Between(a, b, x) == (a <= x /\ x <= b) \/ (b <= x /\ x <= a)
    IN  {{m, n} : m, n \in {c \in Corners : Between(p[1], q[1], c[1]) /\ Between(p[2], q[2], c[2])}}

(* layer_add_interp_barrier                                                *)
AddInterpBarrier(p, q) ==
    /\ ChangingCells
    /\ \E way \in Staircases(p, q) :
           /\ client_layer' = AddBarriers(client_layer, way)
           /\ laid' = laid \cup UNION {SidesBetween(side[1], side[2]) : side \in way}
    /\ UNCHANGED overwritten

-----------------------------------------------------------------------------
(* The recursive walks.  A frame is a cell and the directions still to try.*)
UpdateOrder == <<"RIGHT", "LEFT", "TOP", "BOTTOM">>
TraceOrder  == <<"LEFT", "RIGHT", "BOTTOM", "TOP">>
Order(op) == IF op = "update" THEN UpdateOrder ELSE TraceOrder

(* A cell is entered: it gets the new value, when the walk has one.        *)
Entered(l, new, c) == IF new = {} THEN l ELSE IsetCellValue(l, c, CHOOSE v \in new : TRUE)

StartWalk(op, c, new) ==
    /\ walk' = [op |-> op, start |-> c, old |-> client_layer.value[c], new |-> new,
                before |-> client_layer.value, list |-> <<c>>, stack |-> <<[cell |-> c, todo |-> Order(op)]>>]
    /\ client_layer' = Entered(client_layer, new, c)
    /\ overwritten' = overwritten \cup Overwritten(client_layer, client_layer')
    /\ UNCHANGED laid

(* Layer.update_connected, which takes the value of the cell as the old one*)
UpdateConnected(c, new) ==
    /\ walk.op \in AtRest /\ changes < MaxChanges /\ changes' = changes + 1
    /\ new # client_layer.value[c]
    /\ StartWalk("update", c, {new})

TraceBlockContent(c, erase) ==
    /\ walk.op \in AtRest /\ changes < MaxChanges /\ changes' = changes + 1
    /\ client_layer.value[c] # 0
    /\ StartWalk("content", c, IF erase THEN {0} ELSE {})

Top == Last(walk.stack)

(* Whether the walk goes on from a cell to its neighbour.                  *)

GoesOn(c, n) ==
    /\ n \in Cells
    /\ client_layer.value[n] = walk.old
    /\ IF walk.op = "update" THEN CellContact(client_layer, c, n) ELSE n \notin ToSet(walk.list)

Tried == [Top EXCEPT !.todo = Tail(@)]

Visit ==
    /\ walk.op \in {"update", "content"} /\ walk.stack # <<>> /\ Top.todo # <<>>
    /\ LET n == Neighbour(Top.cell, Head(Top.todo))
       IN  IF GoesOn(Top.cell, n)
           THEN /\ client_layer' = Entered(client_layer, walk.new, n)
                /\ overwritten' = overwritten \cup Overwritten(client_layer, client_layer')
                /\ walk' = [walk EXCEPT
                       !.list = Append(@, n),
                       !.stack = Append(Append(Front(@), Tried), [cell |-> n, todo |-> Order(walk.op)])]
           ELSE /\ walk' = [walk EXCEPT !.stack = Append(Front(@), Tried)]
                /\ UNCHANGED <<client_layer, overwritten>>
    /\ UNCHANGED <<laid, changes>>

(* A cell is done, or the whole walk is.                                   *)
Leave ==
    /\ walk.op \in {"update", "content"}
    /\ walk.stack # <<>> /\ Top.todo = <<>>
    /\ walk' = IF Len(walk.stack) > 1 THEN [walk EXCEPT !.stack = Front(@)]
               ELSE [walk EXCEPT !.stack = <<>>,
                         !.op = IF @ = "update" THEN "updated" ELSE "contents"]
    /\ UNCHANGED <<client_layer, laid, overwritten, changes>>

(* Going round a block.  An edge that is met again shows that the walk     *)
(* never ends: the code would run out of stack.                            *)
TraceBlockEdge(c) ==
    /\ walk.op \in AtRest
    /\ client_layer.value[c] # 0
    /\ LET first == FindEdge(client_layer, c)
       IN  walk' = [op |-> IF first = Throws THEN "outlined" ELSE "outline", throws |-> first = Throws,
                    start |-> c, first |-> first, at |-> first, walked |-> {first}]
    /\ UNCHANGED <<client_layer, laid, overwritten, changes>>

(* Mutant: where it began is the corner of the cell, whatever the edge.    *)
CornerOfCell == StartOf(walk.first[1], "BOTTOM")

StartCorner == StartOf(walk.first[1], walk.first[2])

Follow ==
    /\ walk.op = "outline"
    /\ LET next == FollowEdge(client_layer, client_layer.value[walk.start], walk.at[1], walk.at[2])
       IN  IF EndOf(walk.at[1], walk.at[2]) = StartCorner
           THEN walk' = [walk EXCEPT !.op = "outlined"]
           ELSE IF next = Throws
           THEN walk' = [walk EXCEPT !.op = "outlined", !.throws = TRUE]
           ELSE walk' = [walk EXCEPT !.at = next, !.walked = @ \cup {next}]
    /\ UNCHANGED <<client_layer, laid, overwritten, changes>>

Loop == Visit \/ Leave \/ Follow

LayerNext ==
    \/ \E layout \in Layouts : Load(layout)
    \/ \E c \in Cells, v \in Values : Set(c, v) \/ UpdateConnected(c, v)
    \/ \E old, new \in Values : Replace(old, new)
    \/ \E v \in Values : Assign(v)
    \/ \E line \in BarrierLines : AddInterpBarrier(line[1], line[2])
    \/ \E c \in Cells : \/ \E erase \in BOOLEAN : TraceBlockContent(c, erase)
                        \/ TraceBlockEdge(c)
    \/ Loop

(* The code is sequential: a walk that has begun goes on.                  *)
LayerSpec == LayerInit /\ [][LayerNext]_layerVars /\ WF_layerVars(Loop)

-----------------------------------------------------------------------------
Side(c, n) == {x \in Corners : x \in {<<c[1] + i, c[2] + j>> : i, j \in {0, 1}}
                                /\ x \in {<<n[1] + i, n[2] + j>> : i, j \in {0, 1}}}
Open(c, n) == Beside(c, n) /\ Side(c, n) \notin laid

Area(values, c) == {n \in Cells : values[n] = values[c]}

(* The cells of an area that can be reached from one without a barrier.    *)
InContact(start, area) ==
    Reached({start}, area, [c \in area |-> {n \in area : Open(c, n)}])

(* Layer.update_connected: all cells in contact with the cell, and no      *)
(* other, get the new value; contact is cut by every barrier that was put  *)
(* between two corners, and by nothing else.                               *)
UpdatesConnected ==
    walk.op = "updated" =>
        LET connected == InContact(walk.start, Area(walk.before, walk.start))
        IN  \A c \in Cells :
               IF c \in connected THEN client_layer.value[c] \in walk.new
               ELSE client_layer.value[c] = walk.before[c]

(* The outer edge of the block of a cell: where it borders on what can be  *)
(* reached from outside, past corners too.                                 *)
Close(c, n) == (c[1] - n[1]) \in -1 .. 1 /\ (c[2] - n[2]) \in -1 .. 1

Block(c) == LET area == Area(client_layer.value, c) IN Reached({c}, area, Around(area))

OuterEdge(c) ==
    LET block   == Block(c)
        others  == {n \in Frame : n \notin block}
        outside == Reached({<<-1, -1>>}, others, [n \in others |-> {m \in others : Close(n, m)}])
    IN  {e \in block \X Dirs : Neighbour(e[1], e[2]) \in outside}

(* fault_block.hpp: trace_edge gives the outer edge of the block.  It does *)
(* from the first cell of the block, which is where loaded and scanned     *)
(* blocks are traced from; from another it may go round a hole, but it     *)
(* ends and stays on the border of the block (layer_trace_block_edge).     *)
IsFirst(c) ==
    \A n \in Block(c) : c[2] < n[2] \/ (c[2] = n[2] /\ c[1] <= n[1])

OutlineOfBlock ==
    (walk.op = "outlined" /\ overwritten = {}) =>
        /\ ~walk.throws
        /\ IsFirst(walk.start) => walk.walked = OuterEdge(walk.start)
        /\ \A e \in walk.walked : e[1] \in Block(walk.start)
                                  /\ Neighbour(e[1], e[2]) \notin Block(walk.start)

(* The recursive walks come to an end; the one round a block when no cell  *)
(* was taken from a block.                                                 *)
CallsReturn ==
    (walk.op \in Walking /\ (walk.op = "outline" => overwritten = {})) ~> (walk.op \in AtRest)
=============================================================================
