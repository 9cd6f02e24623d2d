---------------------------- MODULE FaultBlocks ----------------------------
(***************************************************************************)
(* The fault blocks of one layer of a grid (fault_block_layer.cpp and      *)
(* fault_block.cpp).                                                       *)
(*                                                                         *)
(* A block is a list of cells and lives as long as somebody points to it;  *)
(* the fault block layer keeps pointers to its blocks in a vector and, in  *)
(* block_map, the place in the vector for each id.  A block points back to *)
(* the fault block layer until it is detached.                             *)
(***************************************************************************)
EXTENDS Layer

CONSTANTS
    Ids,             \* the ids a client gives to blocks
    Added,           \* the cells a client adds, some of them outside the grid
    Keywords,        \* a number for each cell, row by row
    Lines,           \* pairs of corners between which barriers are put
    Inactive,        \* the cells that are not active
    MaxCalls         \* bound: calls on one fault block layer or its blocks

ASSUME FaultBlocksAssumption ==
    /\ Ids \subseteq Nat
    /\ \A kw \in Keywords : kw \in [1 .. NX * NY -> Nat]
    /\ Lines \subseteq Corners \X Corners
    /\ MaxCalls \in Nat

VARIABLES
    layer,           \* the values and barriers of the cells
    heap,            \* every block there is
    blocks,          \* the vector of pointers to blocks
    block_map,       \* for an id, at place id + 1, its place in the vector from 0, or -1
    call,            \* the scan or load that runs, or the last one
    calls

vars == <<layer, heap, blocks, block_map, call, calls>>

Idle == [op |-> "idle"]

Init ==
    /\ layer = LayerAlloc
    /\ heap = <<>> /\ blocks = <<>> /\ block_map = <<>>
    /\ call = Idle
    /\ calls = 0

-----------------------------------------------------------------------------
GetBlock(id) == IF id >= Len(block_map) THEN -1 ELSE block_map[id + 1]

NextId == IF Len(block_map) = 0 THEN 1 ELSE Len(block_map)

(* The map with an id at a place, longer when the id is beyond its end.    *)
Mapped(id, place) ==
    [k \in 1 .. (IF id < Len(block_map) THEN Len(block_map) ELSE id + 1) |->
        IF k = id + 1 THEN place ELSE IF k <= Len(block_map) THEN block_map[k] ELSE -1]

(* FaultBlock::add_cell for the cells of a list, one after the other: i    *)
(* and j are on their lists when a cell outside the grid is refused.       *)
Refused(list)  == {k \in DOMAIN list : list[k] \notin Cells}
Accepted(list) == IF Refused(list) = {} THEN list ELSE SubSeq(list, 1, Min(Refused(list)) - 1)
Listed(list)   == IF Refused(list) = {} THEN list ELSE SubSeq(list, 1, Min(Refused(list)))

WithCells(block, list) ==
    [block EXCEPT !.cells = @ \o Listed(list),
                  !.globals = @ \o Accepted(list),
                  !.valid_center = @ /\ Accepted(list) = <<>>]

Painted(id, list) ==
    FoldLeft(LAMBDA l, c : IsetCellValue(l, c, id), layer, Accepted(list))

(* fault_block_layer_add_block, and cells for the block.                   *)
NewBlock(id, list) ==
    LET block == [id |-> id, cells |-> <<>>, globals |-> <<>>,
                  valid_center |-> FALSE, centre |-> <<>>, attached |-> TRUE]
    IN  /\ heap' = Append(heap, WithCells(block, list))
        /\ blocks' = Append(blocks, Len(heap) + 1)
        /\ block_map' = Mapped(id, Len(blocks))
        /\ layer' = Painted(id, list)

-----------------------------------------------------------------------------
Ended == call.op \in {"idle", "scanned", "loaded", "freed"}

Changing ==
    /\ Ended /\ call.op # "freed" /\ calls < MaxCalls
    /\ calls' = calls + 1

(* A new fault block layer; nobody points to the old blocks any more.      *)
Alloc ==
    /\ Ended
    /\ layer' = LayerAlloc
    /\ heap' = <<>> /\ blocks' = <<>> /\ block_map' = <<>>
    /\ call' = Idle
    /\ calls' = 0

AddBlock(id) ==
    /\ Changing /\ call' = Idle
    /\ GetBlock(id) < 0
    /\ NewBlock(id, <<>>)

InsertBlockContent(b) ==
    /\ Changing /\ call' = Idle
    /\ NewBlock(NextId, heap[b].cells)

AddCell(b, c) ==
    /\ Changing /\ call' = Idle
    /\ heap[b].attached
    /\ heap' = [heap EXCEPT ![b] = WithCells(@, <<c>>)]
    /\ layer' = Painted(heap[b].id, <<c>>)
    /\ UNCHANGED <<blocks, block_map>>

(* assert_center: the sum is over the cells listed, and fails for a cell   *)
(* outside the grid.                                                       *)
GetCentroid(b) ==
    /\ Ended /\ calls < MaxCalls /\ calls' = calls + 1
    /\ ~heap[b].valid_center
    /\ Refused(heap[b].cells) = {}
    /\ heap' = [heap EXCEPT ![b].valid_center = TRUE, ![b].centre = heap[b].cells]
    /\ UNCHANGED <<layer, blocks, block_map, call>>

(* Mutant: the id keeps its place.                                         *)
MapWithId(id, place) ==
    [k \in DOMAIN block_map |-> IF block_map[k] > place THEN block_map[k] - 1 ELSE block_map[k]]

MapWithout(id, place) ==
    [k \in DOMAIN block_map |->
        IF k = id + 1 THEN -1
        ELSE IF block_map[k] > place THEN block_map[k] - 1 ELSE block_map[k]]

DelBlock(id) ==
    /\ Changing /\ call' = Idle
    /\ GetBlock(id) >= 0
    /\ LET place == GetBlock(id)
       IN  /\ block_map' = MapWithout(id, place)
           /\ heap' = [heap EXCEPT ![blocks[place + 1]].attached = FALSE]
           /\ blocks' = [k \in 1 .. Len(blocks) - 1 |->
                  IF k <= place THEN blocks[k] ELSE blocks[k + 1]]
    /\ UNCHANGED layer

(* The destructor of the fault block layer.                                *)

(* Mutant: the blocks are not detached.                                    *)
FreeUndetached ==
    /\ Ended /\ call.op # "freed"
    /\ blocks' = <<>> /\ block_map' = <<>>
    /\ call' = [op |-> "freed"]
    /\ UNCHANGED <<layer, heap, calls>>

Free ==
    /\ Ended /\ call.op # "freed"
    /\ heap' = [b \in DOMAIN heap |->
           [heap[b] EXCEPT !.attached = @ /\ b \notin {blocks[k] : k \in DOMAIN blocks}]]
    /\ blocks' = <<>> /\ block_map' = <<>>
    /\ call' = [op |-> "freed"]
    /\ UNCHANGED <<layer, calls>>

AddBarrier(p, q) ==
    /\ Changing /\ call' = Idle
    /\ layer' = AddIjBarrier(layer, p, q)
    /\ UNCHANGED <<heap, blocks, block_map>>

-----------------------------------------------------------------------------
(* Scanning and loading go over the layer row by row.  Work is what there  *)
(* is still to do.                                                         *)
First(work) == CHOOSE k \in DOMAIN RowOrder :
                   /\ work[k] # 0
                   /\ \A m \in 1 .. k - 1 : work[m] = 0

Done(work) == \A k \in DOMAIN work : work[k] = 0

Start(op, kw, every, work) ==
    /\ Changing
    /\ call' = [op |-> op, kw |-> kw, every |-> every, work |-> work, before |-> Len(heap)]
    /\ UNCHANGED <<layer, heap, blocks, block_map>>

ScanLayer(values) == Start("scan", values, FALSE, values)

(* fault_block_layer_scan_kw: where the keyword is 0 there is a block too. *)

(* Mutant: the greatest number that is in use.                             *)
GreatestNumber(kw) == Max(ToSet(kw))

FreeNumber(kw) == Max(ToSet(kw)) + 1

ScanKw(kw) ==
    Start("scan", kw, TRUE, [k \in DOMAIN kw |-> IF kw[k] > 0 THEN kw[k] ELSE FreeNumber(kw)])

LoadKw(kw) == Start("load", kw, FALSE, kw)

(* The cells of an area that are connected with one of them.               *)
Piece(start, area) == Reached({start}, area, Around(area))

(* One block is found, its content is erased and the block is added.       *)
ScanBlock ==
    /\ call.op = "scan" /\ ~Done(call.work)
    /\ LET first   == First(call.work)
           alike   == {k \in DOMAIN RowOrder : call.work[k] = call.work[first]}
           content == Piece(RowOrder[first], {RowOrder[k] : k \in alike})
       IN  /\ NewBlock(NextId, InRowOrder(content))
           /\ call' = [call EXCEPT !.work = [k \in DOMAIN RowOrder |->
                           IF RowOrder[k] \in content THEN 0 ELSE @[k]]]
    /\ UNCHANGED calls

LoadCell ==
    /\ call.op = "load" /\ ~Done(call.work)
    /\ LET first == First(call.work)
           id    == call.work[first]
           place == GetBlock(id)
           cell  == <<RowOrder[first]>>
       IN  /\ call' = [call EXCEPT !.work[first] = 0]
           /\ \/ /\ place < 0
                 /\ NewBlock(id, cell)
              \/ /\ place >= 0
                 /\ heap' = [heap EXCEPT ![blocks[place + 1]] = WithCells(@, cell)]
                 /\ layer' = Painted(id, cell)
                 /\ UNCHANGED <<blocks, block_map>>
    /\ UNCHANGED calls

Return ==
    /\ call.op \in {"scan", "load"} /\ Done(call.work)
    /\ call' = [call EXCEPT !.op = IF @ = "scan" THEN "scanned" ELSE "loaded"]
    /\ UNCHANGED <<layer, heap, blocks, block_map, calls>>

Next ==
    \/ Alloc \/ Free
    \/ \E id \in Ids : AddBlock(id) \/ DelBlock(id)
    \/ \E b \in DOMAIN heap : \/ InsertBlockContent(b) \/ GetCentroid(b)
                              \/ \E c \in Added : AddCell(b, c)
    \/ \E line \in Lines : AddBarrier(line[1], line[2])
    \/ \E kw \in Keywords : ScanLayer(kw) \/ ScanKw(kw) \/ LoadKw(kw)
    \/ ScanBlock \/ LoadCell \/ Return

Spec == Init /\ [][Next]_vars

(* The ids of the neighbours of a block, from the cells it lists; polylines*)
(* are left out.                                                           *)
Neighbours(b, connected_only) ==
    LET Connected(c, n) ==
            /\ n \in Cells \ Inactive
            /\ layer.value[c] # layer.value[n]
            /\ connected_only => CellContact(layer, c, n)
        beside(c) == {n \in {Neighbour(c, d) : d \in Dirs} : Connected(c, n)}
    IN  (UNION {{layer.value[n] : n \in beside(c)} : c \in ToSet(heap[b].cells)}) \ {0, heap[b].id}

-----------------------------------------------------------------------------
Stored == {blocks[k] : k \in DOMAIN blocks}

(* The map and the vector say the same, however blocks came and went: the  *)
(* map leads from the id of each block to the place of the block, and from *)
(* no other id to any place.  fault_block_layer_get_block relies on it.    *)
BlockMapExact ==
    /\ \A k \in DOMAIN blocks : GetBlock(heap[blocks[k]].id) = k - 1
    /\ \A k \in DOMAIN block_map :
           block_map[k] >= 0 => /\ block_map[k] < Len(blocks)
                                /\ heap[blocks[block_map[k] + 1]].id = k - 1

(* fault_block_layer.hpp: a block that is in no layer any more is detached,*)
(* and a block that is in one is not.                                      *)
AttachedWhileStored == \A b \in DOMAIN heap : heap[b].attached <=> b \in Stored

(* fault_block_layer.cpp: the blocks found by a scan hold each cell that   *)
(* was not 0 once, cells side by side are in one block exactly when they   *)
(* had one number, and each block is singly connected.                     *)
ScanPartitions ==
    call.op = "scanned" =>
        LET found   == {b \in DOMAIN heap : b > call.before}
            Of(c)   == {b \in found : c \in ToSet(heap[b].cells)}
            scanned == {RowOrder[k] : k \in {m \in DOMAIN RowOrder : call.every \/ call.kw[m] # 0}}
        IN  /\ \A b \in found : ToSet(heap[b].cells) \subseteq scanned
            /\ \A b \in found : Len(heap[b].cells) = Cardinality(ToSet(heap[b].cells))
            /\ \A c \in scanned : Cardinality(Of(c)) = 1
            /\ \A k, m \in DOMAIN RowOrder :
                   (RowOrder[k] \in scanned /\ RowOrder[m] \in scanned /\ Beside(RowOrder[k], RowOrder[m]))
                       => (call.kw[k] = call.kw[m] <=> Of(RowOrder[k]) = Of(RowOrder[m]))
            /\ \A b \in found : \A part \in (SUBSET ToSet(heap[b].cells)) \ {{}, ToSet(heap[b].cells)} :
                   \E c \in part, n \in ToSet(heap[b].cells) \ part : Beside(c, n)

(* Two blocks in a layer are neighbours of one another or not at all, when *)
(* all their cells are active and still theirs.                            *)
NeighboursMutual ==
    LET Whole(b) == /\ heap[b].attached /\ heap[b].id # 0
                    /\ \A c \in ToSet(heap[b].cells) : c \in Cells \ Inactive
                    /\ {c \in Cells : layer.value[c] = heap[b].id} = ToSet(heap[b].cells)
    IN  \A a, b \in DOMAIN heap, connected_only \in BOOLEAN :
            (Whole(a) /\ Whole(b)) =>
                (heap[a].id \in Neighbours(b, connected_only)
                    <=> heap[b].id \in Neighbours(a, connected_only))
=============================================================================
