---------------------------- MODULE LayerProofs ----------------------------
(***************************************************************************)
(* block_map and the vector of blocks agree, a block is attached exactly   *)
(* while it is in the vector, blocks are neighbours of one another or not  *)
(* at all, and a scan finds the connected pieces, for every grid, keyword  *)
(* and set of ids.                                                         *)
(*                                                                         *)
(* The argument for the first two: the vector and the map change together, *)
(* where a block is added at the end or deleted and the later ones move    *)
(* down by one.  What the cells of a block are plays no part, so heap is   *)
(* only known as far as ids and pointers go (HeapShape).  The third is     *)
(* about the cells of two blocks in one state, whatever led to it.         *)
(*                                                                         *)
(* Scans: cells are reached step by step, and each step that is not the    *)
(* last adds a cell, so that as many steps as there are cells reach all    *)
(* (SpreadCloses).  Hence a piece has all its neighbours of its number     *)
(* (PieceIsWhole), and what is done of a scan is in blocks, each cell in   *)
(* one (Scanning).                                                         *)
(*                                                                         *)
(* Flood fill: barriers lie exactly where they were drawn (ContactIsOpen). *)
(* What was entered has the new value and is connected with the first      *)
(* cell; what is open to it is entered too or still pending on the stack   *)
(* (Flooding).  At the end nothing is pending, and what was entered is all *)
(* that is connected (InContactCloses).                                    *)
(***************************************************************************)
EXTENDS FaultBlocks, LayerCalls, SequenceTheorems, WellFoundedInduction, Induction, TLAPS

Fields == {"id", "cells", "globals", "valid_center", "centre", "attached"}

HeapShape ==
    /\ heap \in Seq({heap[b] : b \in DOMAIN heap})
    /\ \A b \in DOMAIN heap : /\ DOMAIN heap[b] = Fields
                              /\ heap[b].id \in Nat
                              /\ heap[b].attached \in BOOLEAN

VectorsShape ==
    /\ blocks \in Seq(Nat)
    /\ \A k \in DOMAIN blocks : blocks[k] \in DOMAIN heap
    /\ block_map \in Seq(Int)

(* What a load still has to do: ids, and 0 where there is nothing to do.   *)
CallShape ==
    /\ "op" \in DOMAIN call
    /\ call.op = "load" => "work" \in DOMAIN call /\ call.work \in [1 .. NX * NY -> Nat]

IInv == HeapShape /\ VectorsShape /\ BlockMapExact /\ AttachedWhileStored

LEMMA Domains ==
    ASSUME HeapShape, VectorsShape
    PROVE  /\ Len(heap) \in Nat /\ DOMAIN heap = 1 .. Len(heap)
           /\ Len(blocks) \in Nat /\ DOMAIN blocks = 1 .. Len(blocks)
           /\ Len(block_map) \in Nat /\ DOMAIN block_map = 1 .. Len(block_map)
           /\ \A k \in DOMAIN block_map : block_map[k] \in Int
  <1>1. Len(heap) \in Nat /\ DOMAIN heap = 1 .. Len(heap)
    BY LenProperties DEF HeapShape
  <1>2. Len(blocks) \in Nat /\ DOMAIN blocks = 1 .. Len(blocks)
    BY LenProperties DEF VectorsShape
  <1>3. /\ Len(block_map) \in Nat /\ DOMAIN block_map = 1 .. Len(block_map)
        /\ \A k \in DOMAIN block_map : block_map[k] \in Int
    BY LenProperties, ElementOfSeq DEF VectorsShape
  <1> QED BY <1>1, <1>2, <1>3

(* Two places of the vector never hold blocks of one id.                   *)
LEMMA IdsDiffer ==
    ASSUME IInv, NEW k \in DOMAIN blocks, NEW m \in DOMAIN blocks,
           heap[blocks[k]].id = heap[blocks[m]].id
    PROVE  k = m
  <1>1. k \in Int /\ m \in Int
    BY Domains DEF IInv
  <1>2. k - 1 = m - 1
    BY DEF IInv, BlockMapExact
  <1> QED BY <1>1, <1>2

(* Cells added to a block leave its id and its pointer.                    *)
LEMMA CellsAdded ==
    ASSUME NEW block, NEW list, DOMAIN block = Fields
    PROVE  /\ DOMAIN WithCells(block, list) = Fields
           /\ WithCells(block, list).id = block.id
           /\ WithCells(block, list).attached = block.attached
  <1> QED BY DEF WithCells, Fields

(* A block of the heap is replaced by one of the same id and pointer.      *)
LEMMA BlockChanged ==
    ASSUME IInv, UNCHANGED <<blocks, block_map>>, NEW b \in DOMAIN heap, NEW new,
           heap' = [heap EXCEPT ![b] = new],
           DOMAIN new = Fields, new.id = heap[b].id, new.attached = heap[b].attached
    PROVE  IInv'
  <1>1. DOMAIN heap' = DOMAIN heap /\ Len(heap) \in Nat /\ DOMAIN heap = 1 .. Len(heap)
    BY Domains DEF IInv
  <1>2. \A d \in DOMAIN heap : /\ DOMAIN heap'[d] = Fields
                               /\ heap'[d].id = heap[d].id
                               /\ heap'[d].attached = heap[d].attached
    BY DEF IInv, HeapShape
  <1>3. heap' \in [1 .. Len(heap) -> {heap'[d] : d \in DOMAIN heap'}]
    BY <1>1
  <1>4. heap' \in Seq({heap'[d] : d \in DOMAIN heap'})
    BY <1>1, <1>3, WrittenOut
  <1>5. HeapShape'
    BY <1>1, <1>2, <1>4 DEF IInv, HeapShape
  <1>6. VectorsShape'
    BY <1>1 DEF IInv, VectorsShape
  <1>7. BlockMapExact'
    <2>1. \A k \in DOMAIN blocks : blocks[k] \in DOMAIN heap
      BY DEF IInv, VectorsShape
    <2>2. \A k \in DOMAIN block_map : block_map[k] >= 0 =>
              block_map[k] + 1 \in DOMAIN blocks
      BY Domains DEF IInv, BlockMapExact
    <2> QED BY <1>2, <2>1, <2>2 DEF IInv, BlockMapExact, GetBlock
  <1>8. AttachedWhileStored'
    BY <1>1, <1>2 DEF IInv, AttachedWhileStored, Stored
  <1> QED BY <1>5, <1>6, <1>7, <1>8 DEF IInv

(* A new block, whose id was on no block of the vector.                    *)
LEMMA BlockAdded ==
    ASSUME IInv, NEW id \in Nat, NEW list, GetBlock(id) < 0, NewBlock(id, list)
    PROVE  IInv'
  <1> DEFINE n == Len(heap) + 1
             b == Len(blocks) + 1
             new == heap'[n]
             size == IF id < Len(block_map) THEN Len(block_map) ELSE id + 1
  <1>1. /\ Len(heap) \in Nat /\ DOMAIN heap = 1 .. Len(heap)
        /\ Len(blocks) \in Nat /\ DOMAIN blocks = 1 .. Len(blocks)
        /\ Len(block_map) \in Nat /\ DOMAIN block_map = 1 .. Len(block_map)
        /\ \A k \in DOMAIN block_map : block_map[k] \in Int
    BY Domains DEF IInv
  <1>2. PICK block : /\ DOMAIN block = Fields /\ block.id = id /\ block.attached = TRUE
                     /\ heap' = Append(heap, WithCells(block, list))
    BY Zenon DEF NewBlock, Fields
  <1>3. /\ heap' \in Seq({heap[d] : d \in DOMAIN heap} \cup {WithCells(block, list)})
        /\ DOMAIN heap' = 1 .. n /\ new = WithCells(block, list)
        /\ \A d \in DOMAIN heap : heap'[d] = heap[d]
    <2>1. heap \in Seq({heap[d] : d \in DOMAIN heap} \cup {WithCells(block, list)})
      BY SeqMonotonic DEF IInv, HeapShape
    <2> QED BY <1>1, <1>2, <2>1, AppendProperties, LenProperties
  <1>4. DOMAIN new = Fields /\ new.id = id /\ new.attached = TRUE
    BY <1>2, <1>3, CellsAdded
  <1>5. HeapShape'
    <2>1. heap' \in [1 .. n -> {heap'[d] : d \in DOMAIN heap'}]
      BY <1>1, <1>3, LenProperties
    <2>2. heap' \in Seq({heap'[d] : d \in DOMAIN heap'})
      BY <1>1, <2>1, WrittenOut
    <2>3. ASSUME NEW d \in DOMAIN heap'
          PROVE  /\ DOMAIN heap'[d] = Fields /\ heap'[d].id \in Nat
                 /\ heap'[d].attached \in BOOLEAN
      <3>1. CASE d = n
        BY <1>4, <3>1
      <3>2. CASE d \in DOMAIN heap
        BY <1>3, <3>2 DEF IInv, HeapShape
      <3> QED BY <1>1, <1>3, <3>1, <3>2
    <2> QED BY <2>2, <2>3 DEF HeapShape
  <1>6. /\ blocks' \in Seq(Nat) /\ Len(blocks') = b /\ DOMAIN blocks' = 1 .. b
        /\ blocks'[b] = n /\ \A k \in DOMAIN blocks : blocks'[k] = blocks[k]
    BY <1>1, AppendProperties, LenProperties DEF IInv, VectorsShape, NewBlock
  <1>7. /\ size \in Nat /\ id + 1 \in 1 .. size /\ Len(block_map) <= size
        /\ block_map' \in Seq(Int) /\ Len(block_map') = size
        /\ DOMAIN block_map' = 1 .. size
        /\ \A k \in 1 .. size : block_map'[k] =
               IF k = id + 1 THEN Len(blocks)
               ELSE IF k <= Len(block_map) THEN block_map[k] ELSE -1
    <2>1. size \in Nat /\ id + 1 \in 1 .. size /\ Len(block_map) <= size
      BY <1>1
    <2>2. block_map' = [k \in 1 .. size |-> IF k = id + 1 THEN Len(blocks)
                           ELSE IF k <= Len(block_map) THEN block_map[k] ELSE -1]
      BY DEF NewBlock, Mapped
    <2> HIDE DEF size
    <2>3. \A k \in 1 .. size : k <= Len(block_map) => block_map[k] \in Int
      BY <1>1, <2>1
    <2>4. block_map' \in [1 .. size -> Int]
      BY <1>1, <2>1, <2>2, <2>3
    <2>5. block_map' \in Seq(Int) /\ Len(block_map') = size
      BY <2>1, <2>4, WrittenOut
    <2> QED BY <2>1, <2>2, <2>4, <2>5
  <1>8. VectorsShape'
    <2>1. ASSUME NEW k \in DOMAIN blocks' PROVE blocks'[k] \in DOMAIN heap'
      <3>1. CASE k = b
        BY <1>1, <1>3, <1>6, <3>1
      <3>2. CASE k \in DOMAIN blocks
        BY <1>1, <1>3, <1>6, <3>2 DEF IInv, VectorsShape
      <3> QED BY <1>1, <1>6, <3>1, <3>2
    <2> QED BY <1>6, <1>7, <2>1 DEF VectorsShape
  <1>9. id < Len(block_map) => block_map[id + 1] < 0
    BY <1>1 DEF GetBlock
  <1>10. \A k \in DOMAIN blocks : /\ blocks[k] \in DOMAIN heap
                                  /\ heap[blocks[k]].id \in Nat
                                  /\ heap[blocks[k]].id < Len(block_map)
                                  /\ block_map[heap[blocks[k]].id + 1] = k - 1
    <2> SUFFICES ASSUME NEW k \in DOMAIN blocks
                 PROVE  /\ blocks[k] \in DOMAIN heap
                        /\ heap[blocks[k]].id \in Nat
                        /\ heap[blocks[k]].id < Len(block_map)
                        /\ block_map[heap[blocks[k]].id + 1] = k - 1
      OBVIOUS
    <2>1. blocks[k] \in DOMAIN heap /\ heap[blocks[k]].id \in Nat
      BY DEF IInv, VectorsShape, HeapShape
    <2>2. GetBlock(heap[blocks[k]].id) = k - 1 /\ k - 1 >= 0
      BY <1>1 DEF IInv, BlockMapExact
    <2> QED BY <1>1, <2>1, <2>2 DEF GetBlock
  <1>11. \A k \in DOMAIN blocks : heap[blocks[k]].id # id
    BY <1>1, <1>9, <1>10
  <1>12. \A k \in DOMAIN blocks' :
             LET i == heap'[blocks'[k]].id
             IN  i \in Nat /\ i < Len(block_map') /\ block_map'[i + 1] = k - 1
    <2> SUFFICES ASSUME NEW k \in DOMAIN blocks'
                 PROVE  LET i == heap'[blocks'[k]].id
                        IN  i \in Nat /\ i < Len(block_map') /\ block_map'[i + 1] = k - 1
      OBVIOUS
    <2>1. CASE k = b
      <3>1. heap'[blocks'[k]].id = id
        BY <1>4, <1>6, <2>1
      <3>2. block_map'[id + 1] = k - 1
        BY <1>1, <1>7, <2>1
      <3> QED BY <1>7, <3>1, <3>2
    <2>2. CASE k \in DOMAIN blocks
      <3> DEFINE i == heap[blocks[k]].id
      <3>1. heap'[blocks'[k]].id = i
        BY <1>3, <1>6, <1>10, <2>2
      <3>2. i \in Nat /\ i < Len(block_map) /\ block_map[i + 1] = k - 1 /\ i # id
        BY <1>10, <1>11, <2>2
      <3> HIDE DEF i
      <3>3. i + 1 \in 1 .. size /\ i + 1 # id + 1 /\ i + 1 <= Len(block_map)
        BY <1>1, <1>7, <3>2
      <3>4. block_map'[i + 1] = block_map[i + 1]
        BY <1>7, <3>3
      <3> QED BY <1>1, <1>7, <3>1, <3>2, <3>4
    <2> QED BY <1>1, <1>6, <2>1, <2>2
  <1>13. \A k \in DOMAIN block_map' : block_map'[k] >= 0 =>
             block_map'[k] < Len(blocks') /\ heap'[blocks'[block_map'[k] + 1]].id = k - 1
    <2> SUFFICES ASSUME NEW k \in DOMAIN block_map', block_map'[k] >= 0
                 PROVE  block_map'[k] < Len(blocks') /\ heap'[blocks'[block_map'[k] + 1]].id = k - 1
      OBVIOUS
    <2>1. CASE k = id + 1
      <3>1. block_map'[k] = Len(blocks)
        BY <1>7, <2>1
      <3>2. heap'[blocks'[block_map'[k] + 1]].id = id
        BY <1>4, <1>6, <3>1
      <3> QED BY <1>1, <1>6, <2>1, <3>1, <3>2
    <2>2. CASE k # id + 1
      <3>1. k \in DOMAIN block_map /\ block_map'[k] = block_map[k]
        BY <1>1, <1>7, <2>2
      <3>2. block_map[k] + 1 \in DOMAIN blocks /\ heap[blocks[block_map[k] + 1]].id = k - 1
        BY <1>1, <3>1 DEF IInv, BlockMapExact
      <3> DEFINE m == block_map[k] + 1
      <3>3. blocks'[m] = blocks[m] /\ blocks[m] \in DOMAIN heap
        BY <1>6, <1>10, <3>2
      <3>4. heap'[blocks'[m]].id = k - 1
        BY <1>3, <3>2, <3>3
      <3>5. block_map[k] < Len(blocks')
        BY <1>1, <1>6, <3>1, <3>2
      <3> QED BY <3>1, <3>4, <3>5
    <2> QED BY <2>1, <2>2
  <1>14. BlockMapExact'
    BY <1>7, <1>12, <1>13 DEF BlockMapExact, GetBlock
  <1>15. AttachedWhileStored'
    <2>1. Stored' = Stored \cup {n}
      BY <1>1, <1>6 DEF Stored
    <2>2. n \notin DOMAIN heap /\ DOMAIN heap' = DOMAIN heap \cup {n}
      BY <1>1, <1>3
    <2> QED BY <1>3, <1>4, <2>1, <2>2 DEF IInv, AttachedWhileStored
  <1> QED BY <1>5, <1>8, <1>14, <1>15 DEF IInv

(* The next id is on no block of the vector.                               *)
LEMMA NextIdFree ==
    ASSUME IInv
    PROVE  NextId \in Nat /\ GetBlock(NextId) < 0
  <1> QED BY Domains DEF IInv, NextId, GetBlock

(* A place in the map is a place in the vector.                            *)
LEMMA PlaceFound ==
    ASSUME IInv, NEW id \in Nat, GetBlock(id) >= 0
    PROVE  /\ id + 1 \in DOMAIN block_map /\ block_map[id + 1] = GetBlock(id)
           /\ GetBlock(id) \in 0 .. Len(blocks) - 1 /\ GetBlock(id) + 1 \in DOMAIN blocks
           /\ blocks[GetBlock(id) + 1] \in DOMAIN heap
           /\ heap[blocks[GetBlock(id) + 1]].id = id
  <1>1. id < Len(block_map) /\ id + 1 \in DOMAIN block_map /\ block_map[id + 1] = GetBlock(id)
    BY Domains DEF IInv, GetBlock
  <1>2. /\ GetBlock(id) \in Int /\ GetBlock(id) < Len(blocks)
        /\ heap[blocks[GetBlock(id) + 1]].id = id
    BY <1>1, Domains DEF IInv, BlockMapExact
  <1>3. GetBlock(id) \in 0 .. Len(blocks) - 1 /\ GetBlock(id) + 1 \in DOMAIN blocks
    BY <1>2, Domains DEF IInv
  <1> QED BY <1>1, <1>2, <1>3 DEF IInv, VectorsShape

(* A deleted block leaves the vector, and the later ones move down.        *)
LEMMA BlockDeleted ==
    ASSUME IInv, NEW id \in Nat, DelBlock(id)
    PROVE  IInv'
  <1> DEFINE place == GetBlock(id)
             gone  == blocks[place + 1]
             Moved(k) == IF k <= place THEN k ELSE k + 1
  <1>1. /\ Len(heap) \in Nat /\ DOMAIN heap = 1 .. Len(heap)
        /\ Len(blocks) \in Nat /\ DOMAIN blocks = 1 .. Len(blocks)
        /\ Len(block_map) \in Nat /\ DOMAIN block_map = 1 .. Len(block_map)
        /\ \A k \in DOMAIN block_map : block_map[k] \in Int
    BY Domains DEF IInv
  <1>2. /\ id + 1 \in DOMAIN block_map /\ block_map[id + 1] = place
        /\ place \in 0 .. Len(blocks) - 1 /\ place + 1 \in DOMAIN blocks
        /\ gone \in DOMAIN heap /\ heap[gone].id = id
    BY PlaceFound DEF DelBlock
  <1>3. /\ block_map' = [k \in DOMAIN block_map |->
               IF k = id + 1 THEN -1
               ELSE IF block_map[k] > place THEN block_map[k] - 1 ELSE block_map[k]]
        /\ heap' = [heap EXCEPT ![gone].attached = FALSE]
        /\ blocks' = [k \in 1 .. Len(blocks) - 1 |-> blocks[Moved(k)]]
    BY DEF DelBlock, MapWithout
  <1> HIDE DEF place, gone
  <1>4. /\ DOMAIN heap' = DOMAIN heap
        /\ \A d \in DOMAIN heap : /\ DOMAIN heap'[d] = Fields
                                   /\ heap'[d].id = heap[d].id
                                   /\ heap'[d].attached = (IF d = gone THEN FALSE ELSE heap[d].attached)
    BY <1>1, <1>2, <1>3 DEF IInv, HeapShape, Fields
  <1>5. HeapShape'
    <2>1. heap' \in [1 .. Len(heap) -> {heap'[d] : d \in DOMAIN heap'}]
      BY <1>1, <1>3, <1>4
    <2>2. heap' \in Seq({heap'[d] : d \in DOMAIN heap'})
      BY <1>1, <2>1, WrittenOut
    <2> QED BY <1>4, <2>2 DEF IInv, HeapShape
  <1>6. \A k \in 1 .. Len(blocks) - 1 : /\ Moved(k) \in DOMAIN blocks /\ Moved(k) # place + 1
                                        /\ blocks[Moved(k)] \in DOMAIN heap
    <2>1. \A k \in 1 .. Len(blocks) - 1 : Moved(k) \in 1 .. Len(blocks) /\ Moved(k) # place + 1
      BY <1>1, <1>2
    <2>2. \A m \in DOMAIN blocks : blocks[m] \in DOMAIN heap
      BY DEF IInv, VectorsShape
    <2> HIDE DEF Moved
    <2> QED BY <1>1, <2>1, <2>2
  <1>7. \A k \in DOMAIN heap : heap[k].id \in Nat
    BY DEF IInv, HeapShape
  <1>8. blocks' \in Seq(Nat) /\ Len(blocks') = Len(blocks) - 1 /\ DOMAIN blocks' = 1 .. Len(blocks) - 1
    <2>1. Len(blocks) - 1 \in Nat
      BY <1>1, <1>2
    <2>2. \A k \in 1 .. Len(blocks) - 1 : blocks[Moved(k)] \in Nat
      BY <1>1, <1>6
    <2>3. blocks' \in [1 .. Len(blocks) - 1 -> Nat]
      BY <1>3, <2>2
    <2> QED BY <2>1, <2>3, WrittenOut
  <1>9. block_map' \in Seq(Int) /\ DOMAIN block_map' = DOMAIN block_map /\ Len(block_map') = Len(block_map)
    <2>1. block_map' \in [1 .. Len(block_map) -> Int]
      BY <1>1, <1>2, <1>3
    <2> QED BY <1>1, <2>1, WrittenOut
  <1>10. VectorsShape'
    BY <1>3, <1>4, <1>6, <1>8, <1>9 DEF VectorsShape
  <1>11. \A k \in DOMAIN blocks' : GetBlock(heap[blocks[k]].id)' = k - 1
    <2> SUFFICES ASSUME NEW k \in DOMAIN blocks'
                 PROVE  GetBlock(heap[blocks[k]].id)' = k - 1
      OBVIOUS
    <2> DEFINE i == heap[blocks[Moved(k)]].id
    <2>1. heap'[blocks'[k]].id = i /\ i \in Nat
      BY <1>3, <1>4, <1>6, <1>7, <1>8
    <2>2. GetBlock(i) = Moved(k) - 1
      BY <1>6, <1>8 DEF IInv, BlockMapExact
    <2>3. Moved(k) \in Int /\ Moved(k) >= 1 /\ Moved(k) - 1 # place
      <3>1. k \in 1 .. Len(blocks) - 1 /\ Moved(k) \in 1 .. Len(blocks) /\ Moved(k) # place + 1
        BY <1>1, <1>6, <1>8
      <3>2. Len(blocks) \in Nat /\ place \in Int
        BY <1>1, <1>2
      <3> HIDE DEF Moved
      <3> QED BY <3>1, <3>2
    <2> HIDE DEF i
    <2>4. i < Len(block_map) /\ i + 1 \in DOMAIN block_map /\ block_map[i + 1] = Moved(k) - 1
      BY <1>1, <2>1, <2>2, <2>3 DEF GetBlock
    <2>5. i + 1 # id + 1
      BY <1>2, <2>3, <2>4
    <2>6. block_map'[i + 1] = k - 1
      BY <1>2, <1>3, <1>8, <2>4, <2>5
    <2> QED BY <1>1, <1>9, <2>1, <2>4, <2>6 DEF GetBlock
  <1>12. \A k \in DOMAIN block_map' : block_map'[k] >= 0 =>
             block_map'[k] < Len(blocks') /\ heap'[blocks'[block_map'[k] + 1]].id = k - 1
    <2> SUFFICES ASSUME NEW k \in DOMAIN block_map', block_map'[k] >= 0
                 PROVE  block_map'[k] < Len(blocks') /\ heap'[blocks'[block_map'[k] + 1]].id = k - 1
      OBVIOUS
    <2> DEFINE at == block_map[k]
    <2>1. k # id + 1 /\ k \in DOMAIN block_map /\ k \in Int /\ at \in Int
          /\ block_map'[k] = IF at > place THEN at - 1 ELSE at
      BY <1>1, <1>3, <1>9
    <2>2. at >= 0
      BY <1>2, <2>1
    <2>3. at < Len(blocks) /\ heap[blocks[at + 1]].id = k - 1
      BY <1>9, <2>2 DEF IInv, BlockMapExact
    <2>4. at # place
      BY <1>2, <2>1, <2>3 DEF gone
    <2> HIDE DEF at
    <2>5. /\ block_map'[k] + 1 \in 1 .. Len(blocks) - 1
          /\ Moved(block_map'[k] + 1) = at + 1
      BY <1>1, <1>2, <2>1, <2>2, <2>3, <2>4
    <2>6. heap'[blocks'[block_map'[k] + 1]].id = heap[blocks[at + 1]].id
      BY <1>3, <1>4, <1>6, <2>5
    <2>7. block_map'[k] < Len(blocks')
      BY <1>1, <1>8, <2>1, <2>5
    <2> QED BY <2>3, <2>6, <2>7
  <1>13. BlockMapExact'
    BY <1>11, <1>12 DEF BlockMapExact
  <1>14. AttachedWhileStored'
    <2>1. \A k \in DOMAIN blocks : blocks[k] = gone <=> k = place + 1
      BY <1>2, IdsDiffer DEF gone
    <2>2. \A k \in DOMAIN blocks : k # place + 1 => \E m \in 1 .. Len(blocks) - 1 : Moved(m) = k
      <3> SUFFICES ASSUME NEW k \in DOMAIN blocks, k # place + 1
                   PROVE  \E m \in 1 .. Len(blocks) - 1 : Moved(m) = k
        OBVIOUS
      <3>1. CASE k <= place
        BY <1>1, <1>2, <3>1
      <3>2. CASE k > place
        <4>1. k - 1 \in 1 .. Len(blocks) - 1 /\ Moved(k - 1) = k
          BY <1>1, <1>2, <3>2
        <4> QED BY <4>1
      <3> QED BY <1>1, <1>2, <3>1, <3>2
    <2>3. Stored' = Stored \ {gone}
      <3>1. \A k \in 1 .. Len(blocks) - 1 : blocks'[k] = blocks[Moved(k)]
        BY <1>3
      <3> HIDE DEF Moved
      <3>2. Stored' = {blocks[Moved(k)] : k \in 1 .. Len(blocks) - 1}
        BY <1>8, <3>1 DEF Stored
      <3>3. ASSUME NEW k \in 1 .. Len(blocks) - 1 PROVE blocks[Moved(k)] \in Stored \ {gone}
        BY <1>6, <2>1 DEF Stored
      <3>4. ASSUME NEW d \in Stored, d # gone PROVE d \in Stored'
        <4>1. PICK k \in DOMAIN blocks : d = blocks[k] /\ k # place + 1
          BY <2>1, <3>4 DEF Stored
        <4>2. PICK m \in 1 .. Len(blocks) - 1 : Moved(m) = k
          BY <2>2, <4>1
        <4> QED BY <3>2, <4>1, <4>2
      <3> QED BY <3>2, <3>3, <3>4
    <2> QED BY <1>4, <2>3 DEF IInv, AttachedWhileStored
  <1> QED BY <1>5, <1>10, <1>13, <1>14 DEF IInv

(* With the fault block layer no block is in a vector, and none attached.  *)
LEMMA LayerFreed ==
    ASSUME IInv, Free
    PROVE  IInv'
  <1>1. Len(heap) \in Nat /\ DOMAIN heap = 1 .. Len(heap)
    BY Domains DEF IInv
  <1>2. /\ DOMAIN heap' = DOMAIN heap
        /\ \A d \in DOMAIN heap : /\ DOMAIN heap'[d] = Fields
                                   /\ heap'[d].id = heap[d].id
                                   /\ heap'[d].attached = (heap[d].attached /\ d \notin Stored)
    BY Zenon DEF IInv, HeapShape, Fields, Free, Stored
  <1>3. \A d \in DOMAIN heap : heap'[d].attached = FALSE
    BY <1>2 DEF IInv, AttachedWhileStored, HeapShape
  <1>4. HeapShape'
    <2>1. heap' \in [1 .. Len(heap) -> {heap'[d] : d \in DOMAIN heap'}]
      BY <1>1, <1>2 DEF Free
    <2>2. heap' \in Seq({heap'[d] : d \in DOMAIN heap'})
      BY <1>1, <2>1, WrittenOut
    <2> QED BY <1>2, <1>3, <2>2 DEF IInv, HeapShape
  <1>5. blocks' = <<>> /\ block_map' = <<>> /\ DOMAIN blocks' = {} /\ DOMAIN block_map' = {}
    BY DEF Free
  <1>6. VectorsShape'
    BY <1>5 DEF VectorsShape
  <1>7. BlockMapExact'
    BY <1>5 DEF BlockMapExact
  <1>8. AttachedWhileStored'
    BY <1>2, <1>3, <1>5 DEF AttachedWhileStored, Stored
  <1> QED BY <1>4, <1>6, <1>7, <1>8 DEF IInv

(* A layer without blocks, as it is allocated.                             *)
LEMMA NoBlocks ==
    ASSUME heap = <<>>, blocks = <<>>, block_map = <<>>
    PROVE  IInv
  <1>1. DOMAIN heap = {} /\ DOMAIN blocks = {} /\ DOMAIN block_map = {}
    OBVIOUS
  <1>2. HeapShape /\ VectorsShape
    BY <1>1 DEF HeapShape, VectorsShape
  <1>3. BlockMapExact /\ AttachedWhileStored
    BY <1>1 DEF BlockMapExact, AttachedWhileStored, Stored
  <1> QED BY <1>2, <1>3 DEF IInv

LEMMA NoBlocksThen ==
    ASSUME heap' = <<>>, blocks' = <<>>, block_map' = <<>>
    PROVE  IInv'
  <1>1. DOMAIN heap' = {} /\ DOMAIN blocks' = {} /\ DOMAIN block_map' = {}
    OBVIOUS
  <1>2. HeapShape' /\ VectorsShape'
    BY <1>1 DEF HeapShape, VectorsShape
  <1>3. BlockMapExact' /\ AttachedWhileStored'
    BY <1>1 DEF BlockMapExact, AttachedWhileStored, Stored
  <1> QED BY <1>2, <1>3 DEF IInv

LEMMA NothingMoved ==
    ASSUME IInv, UNCHANGED <<heap, blocks, block_map>>
    PROVE  IInv'
  <1>1. HeapShape' /\ VectorsShape'
    BY DEF IInv, HeapShape, VectorsShape
  <1>2. BlockMapExact' /\ AttachedWhileStored'
    BY DEF IInv, BlockMapExact, AttachedWhileStored, GetBlock, Stored
  <1> QED BY <1>1, <1>2 DEF IInv

(* Where the next cell of a load is, there is an id.                       *)
LEMMA IdToLoad ==
    ASSUME NEW work \in [1 .. NX * NY -> Nat], ~Done(work)
    PROVE  First(work) \in 1 .. NX * NY /\ work[First(work)] \in Nat /\ work[First(work)] # 0
  <1> DEFINE places == {k \in 1 .. NX * NY : work[k] # 0}
  <1>1. places # {} /\ places \subseteq Nat
    BY DEF Done
  <1>2. PICK k \in places : \A m \in places : ~(<<m, k>> \in OpToRel(<, Nat))
    BY <1>1, WFMin, NatLessThanWellFounded
  <1>3. \A m \in 1 .. k - 1 : work[m] = 0
    <2> SUFFICES ASSUME NEW m \in 1 .. k - 1, work[m] # 0
                 PROVE  FALSE
      OBVIOUS
    <2>1. NX * NY \in Nat
      BY LayerAssumption
    <2>2. k \in Nat /\ k <= NX * NY /\ m \in Nat /\ m < k
      BY <1>1, <2>1
    <2>3. m \in places
      BY <2>1, <2>2
    <2> QED BY <1>2, <2>2, <2>3 DEF OpToRel
  <1>4. DOMAIN RowOrder = 1 .. NX * NY
    BY DEF RowOrder
  <1>5. First(work) \in 1 .. NX * NY /\ work[First(work)] # 0
    BY <1>3, <1>4 DEF First
  <1> QED BY <1>5

LEMMA CellLoaded ==
    ASSUME IInv, CallShape, LoadCell
    PROVE  IInv'
  <1> DEFINE id == call.work[First(call.work)]
  <1>1. id \in Nat
    BY IdToLoad DEF CallShape, LoadCell
  <1>2. GetBlock(id) \in Int
    BY <1>1, Domains DEF IInv, GetBlock
  <1>3. CASE GetBlock(id) < 0
    <2>1. ~(GetBlock(id) >= 0)
      BY <1>2, <1>3
    <2>2. NewBlock(id, <<RowOrder[First(call.work)]>>)
      BY <2>1, Zenon DEF LoadCell
    <2> HIDE DEF id
    <2> QED BY <1>1, <1>3, <2>2, BlockAdded
  <1>4. CASE GetBlock(id) >= 0
    <2> DEFINE b == blocks[GetBlock(id) + 1]
               new == WithCells(heap[b], <<RowOrder[First(call.work)]>>)
    <2>1. b \in DOMAIN heap
      BY <1>1, <1>4, PlaceFound
    <2>2. DOMAIN new = Fields /\ new.id = heap[b].id /\ new.attached = heap[b].attached
      BY <2>1, CellsAdded DEF IInv, HeapShape
    <2>3. ~(GetBlock(id) < 0)
      BY <1>2, <1>4
    <2>4. heap' = [heap EXCEPT ![b] = new] /\ UNCHANGED <<blocks, block_map>>
      BY <2>3, Zenon DEF LoadCell
    <2> HIDE DEF b, new
    <2> QED BY <2>1, <2>2, <2>4, BlockChanged
  <1> HIDE DEF id
  <1> QED BY <1>2, <1>3, <1>4

(* A load goes over a keyword, and what it has done is 0.                  *)
LEMMA LoadsKeywords ==
    ASSUME CallShape, Next
    PROVE  CallShape'
  <1>1. ASSUME NEW kw \in Keywords, LoadKw(kw)
        PROVE  CallShape'
    <2>1. kw \in [1 .. NX * NY -> Nat]
      BY FaultBlocksAssumption
    <2>2. "op" \in DOMAIN call' /\ "work" \in DOMAIN call' /\ call'.work = kw
      BY <1>1 DEF LoadKw, Start
    <2> QED BY <2>1, <2>2 DEF CallShape
  <1>2. ASSUME NEW kw \in Keywords, ScanLayer(kw) \/ ScanKw(kw)
        PROVE  CallShape'
    <2>1. "op" \in DOMAIN call' /\ call'.op = "scan"
      BY <1>2 DEF ScanLayer, ScanKw, Start
    <2> QED BY <2>1 DEF CallShape
  <1>3. CASE LoadCell
    <2>1. "work" \in DOMAIN call /\ call.work \in [1 .. NX * NY -> Nat]
      BY <1>3 DEF CallShape, LoadCell
    <2> DEFINE left == [call.work EXCEPT ![First(call.work)] = 0]
    <2>2. call' = [call EXCEPT !.work = left]
      BY <1>3, Zenon DEF LoadCell
    <2>3. left \in [1 .. NX * NY -> Nat]
      BY <2>1
    <2> HIDE DEF left
    <2>4. "op" \in DOMAIN call' /\ "work" \in DOMAIN call' /\ call'.work = left
      BY <2>1, <2>2 DEF CallShape
    <2> QED BY <2>3, <2>4 DEF CallShape
  <1>4. CASE ScanBlock
    <2>1. "op" \in DOMAIN call' /\ call'.op = "scan"
      BY <1>4 DEF CallShape, ScanBlock
    <2> QED BY <2>1 DEF CallShape
  <1>5. CASE Return
    <2>1. "op" \in DOMAIN call' /\ call'.op \in {"scanned", "loaded"}
      BY <1>5 DEF CallShape, Return
    <2> QED BY <2>1 DEF CallShape
  <1>6. ASSUME call' \in {Idle, [op |-> "freed"]} PROVE CallShape'
    BY <1>6 DEF CallShape, Idle
  <1>7. ASSUME call' = call PROVE CallShape'
    BY <1>7 DEF CallShape
  <1> QED
    BY <1>1, <1>2, <1>3, <1>4, <1>5, <1>6, <1>7
       DEF Next, Alloc, Free, AddBlock, DelBlock, InsertBlockContent, GetCentroid, AddCell,
           AddBarrier

(* Every step keeps the map, the vector and the pointers in agreement.     *)
LEMMA StepKeepsIInv ==
    ASSUME IInv, CallShape, Next
    PROVE  IInv'
  <1>1. CASE Alloc
    <2>1. heap' = <<>> /\ blocks' = <<>> /\ block_map' = <<>>
      BY <1>1 DEF Alloc
    <2> QED BY <2>1, NoBlocksThen
  <1>2. CASE Free
    BY <1>2, LayerFreed
  <1>3. ASSUME NEW id \in Ids, AddBlock(id)
        PROVE  IInv'
    BY <1>3, BlockAdded, FaultBlocksAssumption DEF AddBlock
  <1>4. ASSUME NEW id \in Ids, DelBlock(id)
        PROVE  IInv'
    BY <1>4, BlockDeleted, FaultBlocksAssumption
  <1>5. ASSUME NEW b \in DOMAIN heap, InsertBlockContent(b)
        PROVE  IInv'
    BY <1>5, NextIdFree, BlockAdded DEF InsertBlockContent
  <1>6. ASSUME NEW b \in DOMAIN heap, NEW c \in Added, AddCell(b, c)
        PROVE  IInv'
    <2> DEFINE new == WithCells(heap[b], <<c>>)
    <2>1. DOMAIN new = Fields /\ new.id = heap[b].id /\ new.attached = heap[b].attached
      BY CellsAdded DEF IInv, HeapShape
    <2>2. heap' = [heap EXCEPT ![b] = new] /\ UNCHANGED <<blocks, block_map>>
      BY <1>6 DEF AddCell
    <2> HIDE DEF new
    <2> QED BY <2>1, <2>2, BlockChanged
  <1>7. ASSUME NEW b \in DOMAIN heap, GetCentroid(b)
        PROVE  IInv'
    <2> DEFINE new == [heap[b] EXCEPT !.valid_center = TRUE, !.centre = heap[b].cells]
    <2>1. DOMAIN new = Fields /\ new.id = heap[b].id /\ new.attached = heap[b].attached
      BY DEF IInv, HeapShape
    <2>2. heap' = [heap EXCEPT ![b] = new] /\ UNCHANGED <<blocks, block_map>>
      BY <1>7, Zenon DEF GetCentroid
    <2> HIDE DEF new
    <2> QED BY <2>1, <2>2, BlockChanged
  <1>8. ASSUME NEW line \in Lines, AddBarrier(line[1], line[2])
        PROVE  IInv'
    BY <1>8, NothingMoved DEF AddBarrier
  <1>9. ASSUME NEW kw \in Keywords, ScanLayer(kw) \/ ScanKw(kw) \/ LoadKw(kw)
        PROVE  IInv'
    BY <1>9, NothingMoved DEF ScanLayer, ScanKw, LoadKw, Start
  <1>10. CASE ScanBlock
    <2>1. PICK list : NewBlock(NextId, list)
      BY <1>10 DEF ScanBlock
    <2> QED BY <2>1, NextIdFree, BlockAdded
  <1>11. CASE LoadCell
    BY <1>11, CellLoaded
  <1>12. CASE Return
    BY <1>12, NothingMoved DEF Return
  <1> QED
    BY <1>1, <1>2, <1>3, <1>4, <1>5, <1>6, <1>7, <1>8, <1>9, <1>10, <1>11, <1>12 DEF Next

LEMMA AlwaysIInv == Spec => [](IInv /\ CallShape)
  <1>1. Init => IInv /\ CallShape
    BY NoBlocks DEF Init, CallShape, Idle
  <1>2. IInv /\ CallShape /\ [Next]_vars => IInv' /\ CallShape'
    <2> SUFFICES ASSUME IInv, CallShape, [Next]_vars
                 PROVE  IInv' /\ CallShape'
      OBVIOUS
    <2>1. CASE Next
      BY <2>1, StepKeepsIInv, LoadsKeywords
    <2>2. CASE UNCHANGED vars
      BY <2>2, NothingMoved DEF vars, CallShape
    <2> QED BY <2>1, <2>2
  <1> QED BY <1>1, <1>2, PTL DEF Spec

-----------------------------------------------------------------------------
(* block_map leads from the id of each block of a fault block layer to its *)
(* place in the vector, and from no other id to any place, after any calls *)
(* on any grid (fault_block_layer_get_block and fault_block_layer_del_block*)
(* rely on it).                                                            *)
THEOREM MapAndVectorAgree == Spec => []BlockMapExact
  <1>1. IInv => BlockMapExact
    BY DEF IInv
  <1> QED BY <1>1, AlwaysIInv, PTL

(* A block points to its fault block layer exactly while that layer keeps  *)
(* the block, so that no block writes to a layer that is gone.             *)
THEOREM NoBlockOutlivesItsLayer == Spec => []AttachedWhileStored
  <1>1. IInv => AttachedWhileStored
    BY DEF IInv
  <1> QED BY <1>1, AlwaysIInv, PTL
-----------------------------------------------------------------------------
(* From a neighbour there is a way back, and a barrier between two cells   *)
(* stands between them seen from either.                                   *)
LEMMA WayBack ==
    ASSUME NEW c \in Cells, NEW d \in Dirs
    PROVE  /\ Opposite[d] \in Dirs
           /\ Neighbour(Neighbour(c, d), Opposite[d]) = c
  <1>1. PICK i \in Int, j \in Int : c = <<i, j>>
    BY LayerAssumption DEF Cells
  <1>2. CASE d = "RIGHT"
    BY <1>1, <1>2 DEF Neighbour, Opposite, Shift, Dirs
  <1>3. CASE d = "LEFT"
    BY <1>1, <1>3 DEF Neighbour, Opposite, Shift, Dirs
  <1>4. CASE d = "TOP"
    BY <1>1, <1>4 DEF Neighbour, Opposite, Shift, Dirs
  <1>5. CASE d = "BOTTOM"
    BY <1>1, <1>5 DEF Neighbour, Opposite, Shift, Dirs
  <1> QED BY <1>2, <1>3, <1>4, <1>5 DEF Dirs

LEMMA ContactSymmetric ==
    ASSUME NEW l, NEW c \in Cells, NEW n \in Cells, CellContact(l, c, n)
    PROVE  CellContact(l, n, c)
  <1>1. c[1] \in Int /\ c[2] \in Int /\ n[1] \in Int /\ n[2] \in Int
    BY LayerAssumption DEF Cells
  <1>2. CASE /\ c[2] = n[2] /\ (c[1] - n[1]) \in {1, -1}
             /\ (IF c[1] > n[1] THEN c ELSE n) \notin l.left_barrier
    <2>1. n[2] = c[2] /\ (n[1] - c[1]) \in {1, -1}
      BY <1>1, <1>2
    <2>2. (IF n[1] > c[1] THEN n ELSE c) = (IF c[1] > n[1] THEN c ELSE n)
      BY <1>1, <1>2
    <2> QED BY <1>2, <2>1, <2>2 DEF CellContact
  <1>3. CASE /\ c[1] = n[1] /\ (c[2] - n[2]) \in {1, -1}
             /\ (IF c[2] > n[2] THEN c ELSE n) \notin l.bottom_barrier
    <2>1. n[1] = c[1] /\ (n[2] - c[2]) \in {1, -1}
      BY <1>1, <1>3
    <2>2. (IF n[2] > c[2] THEN n ELSE c) = (IF c[2] > n[2] THEN c ELSE n)
      BY <1>1, <1>3
    <2> QED BY <1>3, <2>1, <2>2 DEF CellContact
  <1> QED BY <1>2, <1>3 DEF CellContact

(* All cells of a block are active, in the grid and have its number, and   *)
(* no other cells have: what NeighboursMutual asks of both blocks.         *)
Whole(b) ==
    /\ heap[b].attached /\ heap[b].id # 0
    /\ \A c \in ToSet(heap[b].cells) : c \in Cells \ Inactive
    /\ {c \in Cells : layer.value[c] = heap[b].id} = ToSet(heap[b].cells)

(* The cells of one block that reach another are reached from it.          *)
LEMMA NeighbourOfNeighbour ==
    ASSUME NEW a \in DOMAIN heap, NEW b \in DOMAIN heap, NEW connected_only \in BOOLEAN,
           Whole(a), Whole(b), heap[a].id \in Neighbours(b, connected_only)
    PROVE  heap[b].id \in Neighbours(a, connected_only)
  <1> DEFINE Connected(c, n) ==
                 /\ n \in Cells \ Inactive
                 /\ layer.value[c] # layer.value[n]
                 /\ connected_only => CellContact(layer, c, n)
             beside(c) == {n \in {Neighbour(c, d) : d \in Dirs} : Connected(c, n)}
             Seen(p) == (UNION {{layer.value[n] : n \in beside(c)} : c \in ToSet(heap[p].cells)})
                            \ {0, heap[p].id}
  <1>1. /\ Neighbours(a, connected_only) = Seen(a)
        /\ Neighbours(b, connected_only) = Seen(b)
    BY DEF Neighbours
  <1>2. PICK c \in ToSet(heap[b].cells) : heap[a].id \in {layer.value[n] : n \in beside(c)}
    BY <1>1
  <1>3. PICK d \in Dirs : /\ Connected(c, Neighbour(c, d))
                          /\ heap[a].id = layer.value[Neighbour(c, d)]
    BY <1>2
  <1> DEFINE n == Neighbour(c, d)
  <1>4. /\ c \in Cells \ Inactive /\ layer.value[c] = heap[b].id
        /\ n \in Cells \ Inactive /\ n \in ToSet(heap[a].cells)
    BY <1>2, <1>3 DEF Whole
  <1>5. Opposite[d] \in Dirs /\ Neighbour(n, Opposite[d]) = c
    BY <1>4, WayBack
  <1> HIDE DEF n
  <1>6. connected_only => CellContact(layer, n, c)
    BY <1>3, <1>4, ContactSymmetric DEF n
  <1>7. c \in beside(n)
    BY <1>3, <1>4, <1>5, <1>6 DEF n
  <1>8. heap[b].id \notin {0, heap[a].id}
    BY <1>3, <1>4 DEF n, Whole
  <1>9. heap[b].id \in {layer.value[m] : m \in beside(n)}
    BY <1>4, <1>7
  <1> HIDE DEF beside, Connected
  <1> QED BY <1>1, <1>4, <1>8, <1>9

(* Two blocks of a layer are neighbours of one another or not at all, with *)
(* barriers or without, when all their cells are active and still theirs   *)
(* (fault_block_get_neighbours).  Without this premise they are not.       *)
THEOREM NeighboursOfOneAnother == Spec => []NeighboursMutual
  <1>1. NeighboursMutual
    BY NeighbourOfNeighbour DEF NeighboursMutual, Whole
  <1> QED BY <1>1, PTL

-----------------------------------------------------------------------------
(* What is reached from some cells: all that is connected to them inside   *)
(* the area.                                                               *)

(* u[k] is what is reached in k steps; each step goes on until one does    *)
(* not, and there are not more steps than cells.                           *)
Spreads(u, from, area, next) ==
    /\ u \in [0 .. Cardinality(area) -> SUBSET area]
    /\ u[0] = from
    /\ \A k \in 1 .. Cardinality(area) :
           u[k] = u[k - 1] \cup {c \in area : \E r \in u[k - 1] : c \in next[r]}

LEMMA SpreadCloses ==
    ASSUME NEW area, IsFiniteSet(area), NEW from \in SUBSET area,
           NEW next \in [area -> SUBSET area], NEW u, Spreads(u, from, area, next)
    PROVE  \A r \in u[Cardinality(area)] : next[r] \subseteq u[Cardinality(area)]
  <1> DEFINE N == Cardinality(area)
             Closed(X) == \A r \in X : next[r] \subseteq X
             T == {k \in 0 .. N : Closed(u[k]) \/ k <= Cardinality(u[k])}
  <1>1. /\ N \in Nat
        /\ \A X \in SUBSET area : IsFiniteSet(X) /\ Cardinality(X) \in Nat
    BY FS_CardinalityType, FS_Subset
  <1>2. /\ u \in [0 .. N -> SUBSET area]
        /\ \A k \in 1 .. N : u[k] = u[k - 1] \cup {c \in area : \E r \in u[k - 1] : c \in next[r]}
    BY DEF Spreads
  <1> HIDE DEF N
  <1>3. 0 \in T
    BY <1>1, <1>2
  <1>4. ASSUME NEW k \in 0 .. N - 1, k \in T PROVE k + 1 \in T
    <2>1. k \in 0 .. N /\ k + 1 \in 1 .. N /\ k + 1 \in 0 .. N /\ (k + 1) - 1 = k
      BY <1>1
    <2>2. /\ u[k] \in SUBSET area /\ u[k + 1] \in SUBSET area
          /\ u[k + 1] = u[k] \cup {c \in area : \E r \in u[k] : c \in next[r]}
      BY <1>2, <2>1
    <2>3. CASE Closed(u[k])
      <3>1. u[k + 1] = u[k]
        BY <2>2, <2>3
      <3> QED BY <2>1, <2>3, <3>1
    <2>4. CASE ~Closed(u[k]) /\ k <= Cardinality(u[k])
      <3>1. PICK r \in u[k] : \E c \in next[r] : c \notin u[k]
        BY <2>4
      <3>2. PICK c \in next[r] : c \notin u[k]
        BY <3>1
      <3>3. c \in area /\ c \in u[k + 1]
        BY <2>2, <3>1, <3>2
      <3>4. Cardinality(u[k] \cup {c}) = Cardinality(u[k]) + 1
        BY <1>1, <2>2, <3>2, FS_AddElement
      <3>5. u[k] \cup {c} \subseteq u[k + 1]
        BY <2>2, <3>3
      <3>6. Cardinality(u[k] \cup {c}) <= Cardinality(u[k + 1])
        BY <1>1, <2>2, <3>5, FS_Subset
      <3>7. Cardinality(u[k]) \in Nat /\ Cardinality(u[k + 1]) \in Nat
        BY <1>1, <2>2
      <3>8. k + 1 <= Cardinality(u[k + 1])
        BY <2>1, <2>4, <3>4, <3>6, <3>7
      <3> QED BY <2>1, <3>8
    <2> QED BY <1>4, <2>3, <2>4
  <1> HIDE DEF T
  <1>5. N \in T
    <2>1. 0 .. N \subseteq T
      BY <1>1, <1>3, <1>4, UpToInduction
    <2> QED BY <1>1, <2>1
  <1>6. u[N] \in SUBSET area
    BY <1>1, <1>2
  <1>7. CASE Closed(u[N])
    BY <1>7 DEF N
  <1>8. CASE N <= Cardinality(u[N])
    <2>1. Cardinality(u[N]) <= N /\ (Cardinality(u[N]) = N => u[N] = area)
      BY <1>6, FS_Subset DEF N
    <2>2. u[N] = area
      BY <1>1, <1>6, <1>8, <2>1
    <2> QED BY <2>2 DEF N
  <1> QED BY <1>5, <1>7, <1>8 DEF T

(* Reached is what such a spread ends with.                                *)
LEMMA ReachedSpreads ==
    ASSUME NEW area, IsFiniteSet(area), NEW from \in SUBSET area,
           NEW near \in [area -> SUBSET area]
    PROVE  \E u : Spreads(u, from, area, near) /\ Reached(from, area, near) = u[Cardinality(area)]
  <1> DEFINE N == Cardinality(area)
             Go(X) == X \cup {c \in area : \E r \in X : c \in near[r]}
             step == [k \in 1 .. N |-> [X \in SUBSET area |-> Go(X)]]
             Solves(e) == e = [k \in 0 .. N |->
                                  IF k = 0 THEN from
                                  ELSE LET before == e[k - 1]
                                       IN  before \cup {c \in area : \E r \in before : c \in near[r]}]
             reached == CHOOSE e : Solves(e)
  <1>1. N \in Nat
    BY FS_CardinalityType
  <1>2. Reached(from, area, near) = reached[N]
    BY DEF Reached
  <1>3. step \in [1 .. N -> [SUBSET area -> SUBSET area]]
    OBVIOUS
  <1> HIDE DEF N
  <1>4. PICK u : Recurs(u, N, SUBSET area, from, step)
    <2> HIDE DEF step
    <2> QED BY <1>1, <1>3, RecursionSolved
  <1>5. ASSUME NEW k \in 1 .. N PROVE u[k] = Go(u[k - 1])
    <2>1. k - 1 \in 0 .. N
      BY <1>1
    <2>2. u[k - 1] \in SUBSET area /\ u[k] = step[k][u[k - 1]]
      BY <1>4, <2>1 DEF Recurs
    <2> QED BY <2>2
  <1>6. u \in [0 .. N -> SUBSET area] /\ u[0] = from
    BY <1>4 DEF Recurs
  <1>7. Solves(u)
    <2>1. ASSUME NEW k \in 0 .. N
          PROVE  u[k] = IF k = 0 THEN from
                        ELSE LET before == u[k - 1]
                             IN  before \cup {c \in area : \E r \in before : c \in near[r]}
      <3>1. k # 0 => k \in 1 .. N
        BY <1>1
      <3> QED BY <1>5, <1>6, <3>1
    <2>2. u = [k \in 0 .. N |-> u[k]]
      BY <1>6
    <2> QED BY <2>1, <2>2
  <1>8. Solves(reached)
    <2> HIDE DEF Solves
    <2> QED BY <1>7
  <1> HIDE DEF reached
  <1>9. /\ reached \in [0 .. N -> {reached[k] : k \in 0 .. N}]
        /\ \A k \in 0 .. N : reached[k] = IF k = 0 THEN from ELSE Go(reached[k - 1])
    BY <1>8, Zenon
  <1> HIDE DEF Solves
  <1> DEFINE T == {k \in 0 .. N : reached[k] = u[k]}
  <1>10. 0 \in T
    <2>1. 0 \in 0 .. N
      BY <1>1
    <2>2. reached[0] = from
      BY <1>9, <2>1, Zenon
    <2> QED BY <1>6, <2>1, <2>2
  <1>11. ASSUME NEW k \in 0 .. N - 1, k \in T PROVE k + 1 \in T
    <2>1. k + 1 \in 1 .. N /\ k + 1 \in 0 .. N /\ (k + 1) - 1 = k /\ k + 1 # 0
      BY <1>1
    <2>2. reached[k + 1] = Go(reached[k])
      BY <1>9, <2>1
    <2>3. u[k + 1] = Go(u[k])
      BY <1>5, <2>1
    <2> HIDE DEF Go
    <2> QED BY <1>11, <2>1, <2>2, <2>3
  <1> HIDE DEF T
  <1>12. N \in T
    <2>1. 0 .. N \subseteq T
      BY <1>1, <1>10, <1>11, UpToInduction
    <2> QED BY <1>1, <2>1
  <1>13. reached[N] = u[N]
    BY <1>12 DEF T
  <1>14. Spreads(u, from, area, near)
    BY <1>5, <1>6 DEF Spreads, N
  <1> QED BY <1>2, <1>13, <1>14 DEF N

(* A step leads out of a part of what is reached.                          *)
LeadsOut(part, content, next) == \E r \in part : \E c \in content \ part : c \in next[r]

(* What is reached falls into no two parts, one of which has the beginning.*)
LEMMA SpreadConnects ==
    ASSUME NEW area, IsFiniteSet(area), NEW from \in SUBSET area,
           NEW next \in [area -> SUBSET area], NEW u, Spreads(u, from, area, next),
           NEW content, content = u[Cardinality(area)],
           NEW part, part \subseteq content, from \subseteq part, part # content
    PROVE  LeadsOut(part, content, next)
  <1> DEFINE N == Cardinality(area)
             T == {k \in 0 .. N : u[k] \subseteq part}
  <1> SUFFICES ASSUME \A r \in part : \A c \in u[N] \ part : c \notin next[r]
               PROVE  FALSE
    BY DEF LeadsOut
  <1>1. N \in Nat
    BY FS_CardinalityType
  <1>2. /\ u \in [0 .. N -> SUBSET area]
        /\ \A k \in 1 .. N : u[k] = u[k - 1] \cup {c \in area : \E r \in u[k - 1] : c \in next[r]}
    BY DEF Spreads
  <1>3. \A r \in u[N] : next[r] \subseteq u[N]
    BY SpreadCloses
  <1> HIDE DEF N
  <1>4. 0 \in T
    BY <1>1 DEF Spreads
  <1>5. ASSUME NEW k \in 0 .. N - 1, k \in T PROVE k + 1 \in T
    <2>1. k + 1 \in 1 .. N /\ k + 1 \in 0 .. N /\ (k + 1) - 1 = k
      BY <1>1
    <2>2. u[k + 1] = u[k] \cup {c \in area : \E r \in u[k] : c \in next[r]}
      BY <1>2, <2>1
    <2>3. ASSUME NEW c \in area, NEW r \in u[k], c \in next[r] PROVE c \in part
      <3>1. r \in part /\ r \in u[N]
        BY <1>5 DEF N
      <3>2. c \in u[N]
        BY <1>3, <2>3, <3>1
      <3> QED BY <2>3, <3>1, <3>2
    <2> QED BY <1>5, <2>1, <2>2, <2>3
  <1> HIDE DEF T
  <1>6. N \in T
    <2>1. 0 .. N \subseteq T
      BY <1>1, <1>4, <1>5, UpToInduction
    <2> QED BY <1>1, <2>1
  <1>7. u[N] \subseteq part
    BY <1>6 DEF T
  <1> QED BY <1>7 DEF N

-----------------------------------------------------------------------------
(* Scans.                                                                  *)

(* The number a scan takes each cell for: where the keyword is 0 none, or  *)
(* one of their own.                                                       *)
Numbers(kw, every) ==
    [k \in 1 .. NX * NY |-> IF every /\ kw[k] = 0 THEN FreeNumber(kw) ELSE kw[k]]

Positions(cells) == {k \in 1 .. NX * NY : RowOrder[k] \in ToSet(cells)}

(* Cells that do not fall into two parts.                                  *)
InOnePiece(C) ==
    \A part \in (SUBSET C) \ {{}, C} : \E c \in part, n \in C \ part : Beside(c, n)

(* A block of a scan: cells of one number, each once, that are connected,  *)
(* and no cell of that number is left beside them.                         *)
BlockFound(cells, number, work) ==
    /\ Len(cells) = Cardinality(ToSet(cells))
    /\ ToSet(cells) \subseteq {RowOrder[k] : k \in 1 .. NX * NY}
    /\ InOnePiece(ToSet(cells))
    /\ \A k \in Positions(cells) : work[k] = 0 /\ number[k] # 0
    /\ \A k, m \in Positions(cells) : number[k] = number[m]
    /\ \A k \in Positions(cells), m \in 1 .. NX * NY :
           Beside(RowOrder[k], RowOrder[m]) /\ number[k] = number[m] => m \in Positions(cells)

(* What is done of a scan is in blocks, each cell in one.                  *)
Partly(blocksOf, number, work) ==
    /\ \A k \in 1 .. NX * NY : work[k] \in {0, number[k]}
    /\ \A b \in DOMAIN blocksOf : BlockFound(blocksOf[b], number, work)
    /\ \A k \in 1 .. NX * NY : work[k] = 0 /\ number[k] # 0 =>
           \E b \in DOMAIN blocksOf : k \in Positions(blocksOf[b])
    /\ \A b, d \in DOMAIN blocksOf :
           Positions(blocksOf[b]) \cap Positions(blocksOf[d]) # {} => b = d

FoundBy(h, before) == [b \in before + 1 .. Len(h) |-> h[b].cells]

CallFields == {"op", "kw", "every", "work", "before"}

Scanning ==
    call.op \in {"scan", "scanned"} =>
        /\ DOMAIN call = CallFields
        /\ call.kw \in Keywords /\ call.every \in BOOLEAN
        /\ call.work \in [1 .. NX * NY -> Nat]
        /\ call.before \in 0 .. Len(heap)
        /\ Partly(FoundBy(heap, call.before), Numbers(call.kw, call.every), call.work)
        /\ call.op = "scanned" => Done(call.work)

(* Cells side by side are so seen from either.                             *)
LEMMA BesideSymmetric ==
    ASSUME NEW c \in Cells, NEW n \in Cells, Beside(c, n)
    PROVE  Beside(n, c)
  <1>1. PICK d \in Dirs : n = Neighbour(c, d)
    BY DEF Beside
  <1>2. Opposite[d] \in Dirs /\ Neighbour(n, Opposite[d]) = c
    BY <1>1, WayBack
  <1> QED BY <1>2 DEF Beside

(* The cells that a scan reaches are in one piece, and none of the area is *)
(* left beside them.                                                       *)
WholePiece(content, start, area) ==
    /\ content \subseteq area /\ start \in content
    /\ \A r \in content, c \in area : Beside(r, c) => c \in content
    /\ InOnePiece(content)

LEMMA PieceIsWhole ==
    ASSUME NEW area, area \subseteq Cells, IsFiniteSet(area), NEW start, start \in area,
           NEW content, content = Piece(start, area)
    PROVE  WholePiece(content, start, area)
  <1> DEFINE N == Cardinality(area)
             next == Around(area)
  <1>1. PICK u : Spreads(u, {start}, area, next) /\ content = u[N]
    <2>1. next \in [area -> SUBSET area] /\ {start} \in SUBSET area
      BY DEF Around
    <2> HIDE DEF next
    <2>2. \E u : Spreads(u, {start}, area, next) /\ Reached({start}, area, next) = u[N]
      BY <2>1, ReachedSpreads DEF N
    <2> QED BY <2>2 DEF Piece, next
  <1>2. next \in [area -> SUBSET area] /\ {start} \in SUBSET area
    BY DEF Around
  <1>3. N \in Nat
    BY FS_CardinalityType
  <1>4. content \subseteq area
    <2>1. N \in 0 .. N /\ u \in [0 .. N -> SUBSET area]
      BY <1>1, <1>3 DEF Spreads
    <2> QED BY <1>1, <2>1
  <1>5. \A r \in content, c \in area : Beside(r, c) => c \in content
    <2>1. \A r \in content : next[r] \subseteq content
      <3> HIDE DEF next
      <3> QED BY <1>1, <1>2, SpreadCloses
    <2> QED BY <1>4, <2>1 DEF Around
  <1>6. start \in content
    <2> DEFINE T == {k \in 0 .. N : start \in u[k]}
    <2>1. u[0] = {start} /\ \A k \in 1 .. N : u[k - 1] \subseteq u[k]
      <3> HIDE DEF next
      <3> QED BY <1>1 DEF Spreads
    <2> HIDE DEF N
    <2>2. 0 \in T
      BY <1>3, <2>1
    <2>3. ASSUME NEW k \in 0 .. N - 1, k \in T PROVE k + 1 \in T
      <3>1. k + 1 \in 1 .. N /\ k + 1 \in 0 .. N /\ (k + 1) - 1 = k
        BY <1>3
      <3> QED BY <2>1, <2>3, <3>1
    <2> HIDE DEF T
    <2>4. 0 .. N \subseteq T
      BY <1>3, <2>2, <2>3, UpToInduction
    <2>5. N \in T
      BY <1>3, <2>4
    <2> QED BY <1>1, <2>5 DEF T
  <1>7. ASSUME NEW part \in SUBSET content, start \in part, part # content
        PROVE  \E r \in part, c \in content \ part : Beside(r, c)
    <2>1. LeadsOut(part, content, next)
      <3>1. {start} \subseteq part /\ part \subseteq content
        BY <1>7
      <3> HIDE DEF next
      <3> QED BY <1>1, <1>2, <1>7, <3>1, SpreadConnects
    <2> QED BY <1>4, <2>1 DEF Around, LeadsOut
  <1>8. InOnePiece(content)
    <2> SUFFICES ASSUME NEW part \in (SUBSET content) \ {{}, content}
                 PROVE  \E c \in part, n \in content \ part : Beside(c, n)
      BY DEF InOnePiece
    <2>1. CASE start \in part
      BY <1>7, <2>1
    <2>2. CASE start \notin part
      <3> DEFINE rest == content \ part
      <3>1. start \in rest /\ rest \in SUBSET content /\ rest # content
        BY <1>6, <2>2
      <3>2. PICK r \in rest, c \in content \ rest : Beside(r, c)
        BY <1>7, <3>1
      <3>3. c \in part /\ r \in content \ part /\ r \in Cells /\ c \in Cells
        BY <1>4, <3>2
      <3>4. Beside(c, r)
        BY <3>2, <3>3, BesideSymmetric
      <3> QED BY <3>3, <3>4
    <2> QED BY <2>1, <2>2
  <1> QED BY <1>4, <1>5, <1>6, <1>8 DEF WholePiece

-----------------------------------------------------------------------------
(* The loops over a layer meet each cell once.                             *)
LEMMA RowArithmetic ==
    ASSUME NEW a \in Nat, NEW b \in Nat \ {0}
    PROVE  /\ a % b \in 0 .. b - 1 /\ a \div b \in Nat
           /\ a = b * (a \div b) + (a % b)
  <1> QED OBVIOUS

LEMMA RowsFit ==
    ASSUME NEW q \in Nat, NEW r \in Nat, NEW x \in Nat \ {0}, NEW y \in Nat \ {0},
           x * q + r < x * y
    PROVE  q < y
  <1> SUFFICES ASSUME y <= q PROVE FALSE
    OBVIOUS
  <1>1. q - y \in Nat
    OBVIOUS
  <1>2. x * (q - y) >= 0 /\ x * q = x * y + x * (q - y)
    BY <1>1
  <1>3. x * q \in Int /\ x * y \in Int
    OBVIOUS
  <1> QED BY <1>2, <1>3

LEMMA RowOrderCells ==
    /\ NX * NY \in Nat /\ NX * NY > 0
    /\ DOMAIN RowOrder = 1 .. NX * NY
    /\ \A k \in 1 .. NX * NY : RowOrder[k] \in Cells
    /\ \A k, m \in 1 .. NX * NY : RowOrder[k] = RowOrder[m] => k = m
  <1>1. NX * NY \in Nat /\ NX * NY > 0
    BY LayerAssumption
  <1>2. DOMAIN RowOrder = 1 .. NX * NY
    BY DEF RowOrder
  <1>3. ASSUME NEW k \in 1 .. NX * NY
        PROVE  /\ (k - 1) % NX \in 0 .. NX - 1 /\ (k - 1) \div NX \in 0 .. NY - 1
               /\ k - 1 = NX * ((k - 1) \div NX) + ((k - 1) % NX)
    <2> DEFINE q == (k - 1) \div NX
               r == (k - 1) % NX
    <2>1. k - 1 \in Nat /\ k - 1 < NX * NY
      BY <1>1
    <2>2. r \in 0 .. NX - 1 /\ q \in Nat /\ k - 1 = NX * q + r
      BY <2>1, RowArithmetic, LayerAssumption
    <2> HIDE DEF q, r
    <2>3. r \in Nat /\ NX * q + r < NX * NY
      BY <2>1, <2>2, LayerAssumption
    <2>4. q < NY
      BY <2>2, <2>3, RowsFit, LayerAssumption
    <2>5. q \in 0 .. NY - 1
      BY <2>2, <2>4, LayerAssumption
    <2> QED BY <2>2, <2>5 DEF q, r
  <1>4. \A k \in 1 .. NX * NY : RowOrder[k] = <<(k - 1) % NX, (k - 1) \div NX>>
    BY DEF RowOrder
  <1>5. ASSUME NEW k \in 1 .. NX * NY PROVE RowOrder[k] \in Cells
    <2> DEFINE i == (k - 1) % NX
               j == (k - 1) \div NX
    <2>1. i \in 0 .. NX - 1 /\ j \in 0 .. NY - 1 /\ RowOrder[k] = <<i, j>>
      BY <1>3, <1>4
    <2> HIDE DEF i, j
    <2> QED BY <2>1 DEF Cells
  <1>6. ASSUME NEW k \in 1 .. NX * NY, NEW m \in 1 .. NX * NY, RowOrder[k] = RowOrder[m]
        PROVE  k = m
    <2>1. (k - 1) % NX = (m - 1) % NX /\ (k - 1) \div NX = (m - 1) \div NX
      BY <1>4, <1>6
    <2>2. k - 1 = m - 1
      BY <1>3, <2>1
    <2> QED BY <2>2
  <1> QED BY <1>1, <1>2, <1>5, <1>6

(* The cells of a content, each once.                                      *)
LEMMA InRowOrderLists ==
    ASSUME NEW content, content \subseteq {RowOrder[k] : k \in 1 .. NX * NY}
    PROVE  /\ InRowOrder(content) \in Seq(content)
           /\ ToSet(InRowOrder(content)) = content
           /\ Len(InRowOrder(content)) = Cardinality(content)
  <1> DEFINE P == {k \in DOMAIN RowOrder : RowOrder[k] \in content}
             c == Cardinality(P)
             Good(s) == \A m, n \in DOMAIN s : m < n => s[m] < s[n]
             order == CHOOSE s \in [1 .. c -> P] : Good(s)
             list == [n \in DOMAIN order |-> RowOrder[order[n]]]
  <1>1. InRowOrder(content) = list
    BY DEF InRowOrder
  <1>2. P \in SUBSET (0 .. (NX * NY + 1) - 1) /\ NX * NY + 1 \in Nat /\ P \subseteq Int
    BY RowOrderCells
  <1>3. IsFiniteSet(P) /\ c \in Nat /\ \E s : Ascends(s, P)
    BY <1>2, AscentExists
  <1>4. \E s \in [1 .. c -> P] : Good(s)
    BY <1>3 DEF Ascends
  <1>5. order \in [1 .. c -> P] /\ Good(order)
    BY <1>4
  <1> HIDE DEF order
  <1>6. Ascends(order, P)
    BY <1>5 DEF Ascends
  <1>7. \A k \in P : \E n \in 1 .. c : order[n] = k
    <2> HIDE DEF P
    <2> QED BY <1>2, <1>3, <1>6, AscentComplete
  <1>8. \A n \in 1 .. c : order[n] \in P /\ list[n] = RowOrder[order[n]] /\ list[n] \in content
    BY <1>5
  <1>9. DOMAIN list = 1 .. c
    BY <1>5
  <1>10. list \in Seq(content) /\ Len(list) = c
    <2>1. list \in [1 .. c -> content]
      BY <1>8, <1>9
    <2> HIDE DEF list, c
    <2> QED BY <1>3, <2>1, WrittenOut
  <1>11. ToSet(list) = content
    <2>1. ASSUME NEW x \in content PROVE \E n \in 1 .. c : list[n] = x
      <3>1. PICK k \in 1 .. NX * NY : x = RowOrder[k]
        OBVIOUS
      <3>2. k \in P
        BY <3>1, RowOrderCells
      <3>3. PICK n \in 1 .. c : order[n] = k
        BY <1>7, <3>2
      <3> QED BY <1>8, <3>1, <3>3
    <2> HIDE DEF list
    <2> QED BY <1>8, <1>9, <2>1 DEF ToSet
  <1>12. c = Cardinality(content)
    <2> DEFINE f == [k \in P |-> RowOrder[k]]
    <2>1. f \in Bijection(P, content)
      <3>1. f \in [P -> content]
        OBVIOUS
      <3>2. \A k, m \in P : f[k] = f[m] => k = m
        BY RowOrderCells
      <3>3. \A x \in content : \E k \in P : f[k] = x
        BY RowOrderCells
      <3> HIDE DEF f, P
      <3>4. f \in Injection(P, content) /\ f \in Surjection(P, content)
        BY <3>1, <3>2, <3>3 DEF Injection, IsInjective, Surjection
      <3> QED BY <3>4 DEF Bijection
    <2> HIDE DEF f, P
    <2>2. ExistsBijection(P, content)
      BY <2>1 DEF ExistsBijection
    <2> QED BY <1>3, <2>2, FS_Bijection
  <1> QED BY <1>1, <1>10, <1>11, <1>12

-----------------------------------------------------------------------------
(* A number that no cell has.                                              *)
LEMMA GreatestExists ==
    ASSUME NEW N \in Nat, NEW f \in [1 .. N + 1 -> Nat]
    PROVE  \E x \in ToSet(f) : \A y \in ToSet(f) : x >= y
  <1> DEFINE T == {n \in 0 .. N : \E k \in 1 .. n + 1 : \A m \in 1 .. n + 1 : f[k] >= f[m]}
  <1>1. 0 \in T
    <2>1. 0 \in 0 .. N /\ 1 \in 1 .. 0 + 1 /\ \A m \in 1 .. 0 + 1 : m = 1
      OBVIOUS
    <2>2. f[1] >= f[1]
      OBVIOUS
    <2> QED BY <2>1, <2>2
  <1>2. ASSUME NEW n \in 0 .. N - 1, n \in T PROVE n + 1 \in T
    <2>1. PICK k \in 1 .. n + 1 : \A m \in 1 .. n + 1 : f[k] >= f[m]
      BY <1>2
    <2>2. /\ n + 1 \in 0 .. N /\ k \in 1 .. (n + 1) + 1 /\ (n + 1) + 1 \in 1 .. (n + 1) + 1
          /\ \A m \in 1 .. (n + 1) + 1 : m \in 1 .. n + 1 \/ m = (n + 1) + 1
          /\ \A m \in 1 .. (n + 1) + 1 : f[m] \in Nat
      OBVIOUS
    <2>3. CASE f[k] >= f[(n + 1) + 1]
      <3>1. \A m \in 1 .. (n + 1) + 1 : f[k] >= f[m]
        BY <2>1, <2>2, <2>3
      <3> QED BY <2>2, <3>1
    <2>4. CASE ~(f[k] >= f[(n + 1) + 1])
      <3> DEFINE top == f[(n + 1) + 1]
      <3>1. top > f[k] /\ top \in Nat /\ f[k] \in Nat
        BY <2>2, <2>4
      <3>2. \A m \in 1 .. (n + 1) + 1 : top >= f[m]
        BY <2>1, <2>2, <3>1
      <3> QED BY <2>2, <3>2
    <2> QED BY <2>3, <2>4
  <1> HIDE DEF T
  <1>3. N \in T
    <2>1. 0 .. N \subseteq T
      BY <1>1, <1>2, UpToInduction
    <2> QED BY <2>1
  <1>4. PICK k \in 1 .. N + 1 : \A m \in 1 .. N + 1 : f[k] >= f[m]
    BY <1>3 DEF T
  <1> QED BY <1>4 DEF ToSet

LEMMA FreeNumberIsFree ==
    ASSUME NEW kw \in [1 .. NX * NY -> Nat]
    PROVE  /\ FreeNumber(kw) \in Nat /\ FreeNumber(kw) # 0
           /\ \A k \in 1 .. NX * NY : kw[k] # FreeNumber(kw)
  <1> DEFINE S == ToSet(kw)
  <1>1. NX * NY - 1 \in Nat /\ (NX * NY - 1) + 1 = NX * NY
    BY RowOrderCells
  <1>2. \E x \in S : \A y \in S : x >= y
    <2> DEFINE N == NX * NY - 1
    <2>1. N \in Nat /\ kw \in [1 .. N + 1 -> Nat]
      BY <1>1
    <2> HIDE DEF N
    <2> QED BY <2>1, GreatestExists
  <1>3. S \subseteq Nat /\ \A k \in 1 .. NX * NY : kw[k] \in S
    BY DEF ToSet
  <1> HIDE DEF S
  <1>4. Max(S) \in S /\ \A y \in S : Max(S) >= y
    BY <1>2 DEF Max
  <1>5. FreeNumber(kw) = Max(S) + 1
    BY DEF FreeNumber, S
  <1>6. Max(S) \in Nat
    BY <1>3, <1>4
  <1>7. \A y \in S : y \in Nat /\ y # Max(S) + 1
    BY <1>3, <1>4, <1>6
  <1> QED BY <1>3, <1>5, <1>6, <1>7

-----------------------------------------------------------------------------
(* One block of a scan.                                                    *)
LEMMA NumbersTyped ==
    ASSUME NEW kw \in Keywords, NEW every \in BOOLEAN
    PROVE  Numbers(kw, every) \in [1 .. NX * NY -> Nat]
  <1>1. kw \in [1 .. NX * NY -> Nat]
    BY FaultBlocksAssumption
  <1>2. FreeNumber(kw) \in Nat
    BY <1>1, FreeNumberIsFree
  <1>3. ASSUME NEW k \in 1 .. NX * NY
        PROVE  (IF every /\ kw[k] = 0 THEN FreeNumber(kw) ELSE kw[k]) \in Nat
    BY <1>1, <1>2
  <1> QED BY <1>3 DEF Numbers

(* What the cells of a list are, when the list has the cells of a content. *)
LEMMA PositionsOf ==
    ASSUME NEW cells, NEW content, ToSet(cells) = content
    PROVE  Positions(cells) = {k \in 1 .. NX * NY : RowOrder[k] \in content}
  <1> QED BY DEF Positions

(* Of two cells of one number side by side, both are in blocks or none.    *)
LEMMA DoneTogether ==
    ASSUME NEW blocksOf, NEW number, NEW work, Partly(blocksOf, number, work),
           NEW k \in 1 .. NX * NY, NEW m \in 1 .. NX * NY,
           Beside(RowOrder[k], RowOrder[m]), number[k] = number[m], number[m] # 0, work[m] = 0
    PROVE  work[k] = 0
  <1>1. PICK b \in DOMAIN blocksOf : m \in Positions(blocksOf[b])
    BY DEF Partly
  <1>2. BlockFound(blocksOf[b], number, work)
    BY DEF Partly
  <1>3. Beside(RowOrder[m], RowOrder[k])
    BY RowOrderCells, BesideSymmetric
  <1>4. k \in Positions(blocksOf[b])
    BY <1>1, <1>2, <1>3 DEF BlockFound
  <1> QED BY <1>2, <1>4 DEF BlockFound

(* The cells that are as the first, and what is left without a content.    *)
Alike(work, first) == {RowOrder[k] : k \in {m \in 1 .. NX * NY : work[m] = work[first]}}

Left(work, content) ==
    [k \in 1 .. NX * NY |-> IF RowOrder[k] \in content THEN 0 ELSE work[k]]

(* A list of a content that is a block of a scan, once it is erased.       *)
ScannedNext(list, content, number, work) ==
    /\ BlockFound(list, number, Left(work, content))
    /\ Positions(list) = {k \in 1 .. NX * NY : RowOrder[k] \in content}
    /\ list \in Seq(Cells)
    /\ \A k \in 1 .. NX * NY : RowOrder[k] \in content => work[k] # 0

LEMMA PieceFound ==
    ASSUME NEW blocksOf, NEW number, NEW work, work \in [1 .. NX * NY -> Nat],
           Partly(blocksOf, number, work), NEW first, first \in 1 .. NX * NY, work[first] # 0,
           NEW content, content = Piece(RowOrder[first], Alike(work, first))
    PROVE  ScannedNext(InRowOrder(content), content, number, work)
  <1> DEFINE N == NX * NY
             list == InRowOrder(content)
             P == {k \in 1 .. N : RowOrder[k] \in content}
             alike == {m \in 1 .. N : work[m] = work[first]}
             area == Alike(work, first)
             left == Left(work, content)
  <1>1. /\ N \in Nat /\ \A k \in 1 .. N : RowOrder[k] \in Cells
        /\ \A k, m \in 1 .. N : RowOrder[k] = RowOrder[m] => k = m
    BY RowOrderCells
  <1>0. area = {RowOrder[k] : k \in alike}
    BY DEF Alike
  <1> HIDE DEF area
  <1>2. area \in SUBSET Cells /\ RowOrder[first] \in area
    BY <1>0, <1>1
  <1>3. IsFiniteSet(area)
    <2>1. IsFiniteSet(1 .. N)
      BY <1>1, FS_Interval
    <2>2. IsFiniteSet(alike)
      BY <2>1, FS_Subset
    <2> HIDE DEF alike
    <2>3. IsFiniteSet({RowOrder[k] : k \in alike})
      <3> DEFINE f == [k \in alike |-> RowOrder[k]]
                 A == {RowOrder[k] : k \in alike}
      <3>1. f \in Surjection(alike, A)
        BY DEF Surjection
      <3> HIDE DEF f, A
      <3>2. IsFiniteSet(A)
        BY <2>2, <3>1, FS_Surjection
      <3> QED BY <3>2 DEF A
    <2> QED BY <1>0, <2>3 DEF alike
  <1>4. /\ content \subseteq area /\ RowOrder[first] \in content
        /\ \A r \in content, c \in area : Beside(r, c) => c \in content
        /\ InOnePiece(content)
    <2>1. WholePiece(content, RowOrder[first], area)
      BY <1>2, <1>3, PieceIsWhole DEF area
    <2> QED BY <2>1 DEF WholePiece
  <1>5. content \subseteq {RowOrder[k] : k \in 1 .. N}
    BY <1>0, <1>4
  <1>6. list \in Seq(content) /\ ToSet(list) = content /\ Len(list) = Cardinality(content)
    BY <1>5, InRowOrderLists
  <1> HIDE DEF list
  <1>7. Positions(list) = P
    BY <1>6, PositionsOf
  <1>8. ASSUME NEW k \in P PROVE work[k] = work[first] /\ work[k] # 0 /\ number[k] = work[first]
    <2>1. PICK m \in alike : RowOrder[k] = RowOrder[m]
      BY <1>0, <1>4
    <2>2. k = m
      BY <1>1, <2>1
    <2>3. work[k] = work[first]
      BY <2>1, <2>2
    <2> QED BY <2>3 DEF Partly
  <1>9. ASSUME NEW k \in P, NEW m \in 1 .. N, Beside(RowOrder[k], RowOrder[m]), number[k] = number[m]
        PROVE  m \in P
    <2>1. number[m] # 0 /\ number[m] = work[first]
      BY <1>8, <1>9
    <2>2. work[m] # 0
      <3>1. k \in 1 .. N /\ work[k] # 0
        BY <1>8
      <3> QED BY <1>9, <2>1, <3>1, DoneTogether
    <2>3. work[m] = work[first]
      BY <2>1, <2>2 DEF Partly
    <2>4. RowOrder[m] \in area /\ RowOrder[k] \in content
      BY <1>0, <2>3
    <2>5. RowOrder[m] \in content
      BY <1>4, <1>9, <2>4
    <2> QED BY <2>5
  <1>10. BlockFound(list, number, left)
    <2>1. \A k \in P : left[k] = 0 /\ number[k] # 0
      BY <1>8 DEF Left
    <2>2. \A k, m \in P : number[k] = number[m]
      BY <1>8
    <2> HIDE DEF P, left
    <2> QED BY <1>4, <1>5, <1>6, <1>7, <1>9, <2>1, <2>2 DEF BlockFound
  <1>11. list \in Seq(Cells)
    <2>1. content \subseteq Cells
      BY <1>2, <1>4
    <2> QED BY <1>6, <2>1, SeqMonotonic
  <1> QED BY <1>7, <1>8, <1>10, <1>11 DEF list, ScannedNext

(* With one more block a scan is done in part.                             *)
LEMMA PartlyMore ==
    ASSUME NEW blocksOf, NEW number, NEW work, Partly(blocksOf, number, work),
           NEW content, NEW list, ScannedNext(list, content, number, work),
           NEW more, NEW new, new \notin DOMAIN blocksOf,
           DOMAIN more = DOMAIN blocksOf \cup {new}, more[new] = list,
           \A b \in DOMAIN blocksOf : more[b] = blocksOf[b]
    PROVE  Partly(more, number, Left(work, content))
  <1> DEFINE N == NX * NY
             left == Left(work, content)
  <1>0. /\ BlockFound(list, number, left)
        /\ Positions(list) = {k \in 1 .. N : RowOrder[k] \in content}
        /\ \A k \in 1 .. N : RowOrder[k] \in content => work[k] # 0
    BY DEF ScannedNext
  <1>1. /\ \A k \in 1 .. N : work[k] \in {0, number[k]}
        /\ \A b \in DOMAIN blocksOf : BlockFound(blocksOf[b], number, work)
        /\ \A k \in 1 .. N : work[k] = 0 /\ number[k] # 0 =>
               \E b \in DOMAIN blocksOf : k \in Positions(blocksOf[b])
        /\ \A b, d \in DOMAIN blocksOf :
               Positions(blocksOf[b]) \cap Positions(blocksOf[d]) # {} => b = d
    BY DEF Partly
  <1>2. \A k \in 1 .. N : left[k] = IF RowOrder[k] \in content THEN 0 ELSE work[k]
    BY DEF Left
  <1> HIDE DEF left
  <1>3. \A b \in DOMAIN blocksOf : \A k \in Positions(blocksOf[b]) :
            k \in 1 .. N /\ work[k] = 0 /\ k \notin Positions(list)
    BY <1>0, <1>1 DEF BlockFound, Positions
  <1>4. \A k \in 1 .. N : left[k] \in {0, number[k]}
    BY <1>1, <1>2
  <1>5. ASSUME NEW b \in DOMAIN more PROVE BlockFound(more[b], number, left)
    <2>1. CASE b = new
      BY <1>0, <2>1
    <2>2. CASE b \in DOMAIN blocksOf
      <3>1. BlockFound(blocksOf[b], number, work) /\ more[b] = blocksOf[b]
        BY <1>1, <2>2
      <3>2. \A k \in Positions(blocksOf[b]) : left[k] = 0
        BY <1>2, <1>3, <2>2
      <3> QED BY <3>1, <3>2 DEF BlockFound
    <2> QED BY <2>1, <2>2
  <1>6. ASSUME NEW k \in 1 .. N, left[k] = 0, number[k] # 0
        PROVE  \E b \in DOMAIN more : k \in Positions(more[b])
    <2>1. CASE RowOrder[k] \in content
      BY <1>0, <2>1
    <2>2. CASE RowOrder[k] \notin content
      <3>1. PICK b \in DOMAIN blocksOf : k \in Positions(blocksOf[b])
        BY <1>1, <1>2, <1>6, <2>2
      <3> QED BY <3>1
    <2> QED BY <2>1, <2>2
  <1>7. ASSUME NEW b \in DOMAIN more, NEW d \in DOMAIN more,
               NEW k \in Positions(more[b]), k \in Positions(more[d])
        PROVE  b = d
    <2>1. CASE b = new /\ d = new
      BY <2>1
    <2>2. CASE b \in DOMAIN blocksOf /\ d \in DOMAIN blocksOf
      BY <1>1, <1>7, <2>2
    <2>3. CASE (b = new /\ d \in DOMAIN blocksOf) \/ (d = new /\ b \in DOMAIN blocksOf)
      BY <1>3, <1>7, <2>3
    <2> QED BY <2>1, <2>2, <2>3
  <1> QED BY <1>4, <1>5, <1>6, <1>7 DEF Partly, left

-----------------------------------------------------------------------------
(* The steps of a scan.                                                    *)
LEMMA FoundDomain ==
    ASSUME HeapShape, NEW before \in 0 .. Len(heap)
    PROVE  /\ Len(heap) \in Nat /\ DOMAIN heap = 1 .. Len(heap)
           /\ DOMAIN FoundBy(heap, before) = before + 1 .. Len(heap)
           /\ before + 1 .. Len(heap) \subseteq DOMAIN heap
           /\ \A b \in before + 1 .. Len(heap) : FoundBy(heap, before)[b] = heap[b].cells
  <1>1. Len(heap) \in Nat /\ DOMAIN heap = 1 .. Len(heap)
    BY LenProperties DEF HeapShape
  <1>2. before + 1 .. Len(heap) \subseteq DOMAIN heap
    BY <1>1
  <1> QED BY <1>1, <1>2 DEF FoundBy

(* A scan that begins has everything to do.                                *)
LEMMA ScanBegins ==
    ASSUME HeapShape, NEW kw \in Keywords, ScanLayer(kw) \/ ScanKw(kw)
    PROVE  Scanning'
  <1> DEFINE N == NX * NY
  <1>1. kw \in [1 .. N -> Nat]
    BY FaultBlocksAssumption
  <1>2. FreeNumber(kw) \in Nat
    BY <1>1, FreeNumberIsFree
  <1>3. \E every \in BOOLEAN, work \in [1 .. N -> Nat] :
            /\ Start("scan", kw, every, work)
            /\ \A k \in 1 .. N : work[k] = Numbers(kw, every)[k]
    <2>1. CASE ScanLayer(kw)
      <3>1. Start("scan", kw, FALSE, kw)
        BY <2>1 DEF ScanLayer
      <3>2. \A k \in 1 .. N : kw[k] = Numbers(kw, FALSE)[k]
        BY DEF Numbers
      <3> QED BY <1>1, <3>1, <3>2
    <2>2. CASE ScanKw(kw)
      <3> DEFINE work == [k \in DOMAIN kw |-> IF kw[k] > 0 THEN kw[k] ELSE FreeNumber(kw)]
      <3>1. Start("scan", kw, TRUE, work)
        BY <2>2 DEF ScanKw
      <3>2. \A k \in 1 .. N : kw[k] \in Nat /\ (kw[k] = 0 <=> ~(kw[k] > 0))
        BY <1>1
      <3>3. work \in [1 .. N -> Nat]
        BY <1>1, <1>2, <3>2
      <3>4. \A k \in 1 .. N : work[k] = Numbers(kw, TRUE)[k]
        BY <1>1, <3>2 DEF Numbers
      <3> HIDE DEF work
      <3> QED BY <3>1, <3>3, <3>4
    <2> QED BY <2>1, <2>2
  <1>4. PICK every \in BOOLEAN, work \in [1 .. N -> Nat] :
            /\ Start("scan", kw, every, work)
            /\ \A k \in 1 .. N : work[k] = Numbers(kw, every)[k]
    BY <1>3
  <1>5. /\ call' = [op |-> "scan", kw |-> kw, every |-> every, work |-> work, before |-> Len(heap)]
        /\ heap' = heap
    BY <1>4 DEF Start
  <1>6. Len(heap) \in Nat
    BY LenProperties DEF HeapShape
  <1>7. DOMAIN FoundBy(heap, Len(heap)) = {}
    BY <1>6 DEF FoundBy
  <1>8. Partly(FoundBy(heap, Len(heap)), Numbers(kw, every), work)
    BY <1>4, <1>7 DEF Partly
  <1>9. /\ call'.op = "scan" /\ DOMAIN call' = CallFields /\ call'.kw = kw /\ call'.every = every
        /\ call'.work = work /\ call'.before = Len(heap)
    BY <1>5 DEF CallFields
  <1>10. call'.before \in 0 .. Len(heap')
    BY <1>5, <1>6, <1>9
  <1> QED BY <1>4, <1>5, <1>8, <1>9, <1>10 DEF Scanning

(* A new block has the cells of its list, when they are of the layer.      *)
LEMMA CellsListed ==
    ASSUME NEW list \in Seq(Cells), NEW id, NewBlock(id, list)
    PROVE  \E new : new.cells = list /\ heap' = Append(heap, new)
  <1>1. Refused(list) = {}
    BY ElementOfSeq, LenProperties DEF Refused
  <1>2. Listed(list) = list
    BY <1>1 DEF Listed
  <1> DEFINE block == [id |-> id, cells |-> <<>>, globals |-> <<>>,
                       valid_center |-> FALSE, centre |-> <<>>, attached |-> TRUE]
  <1>3. heap' = Append(heap, WithCells(block, list))
    BY DEF NewBlock
  <1>4. WithCells(block, list).cells = <<>> \o list
    BY <1>2 DEF WithCells
  <1>5. <<>> \o list = list
    OBVIOUS
  <1> HIDE DEF block
  <1> QED BY <1>3, <1>4, <1>5

LEMMA BlockScanned ==
    ASSUME HeapShape, Scanning, ScanBlock
    PROVE  Scanning'
  <1> DEFINE N       == NX * NY
             work    == call.work
             number  == Numbers(call.kw, call.every)
             before  == call.before
             first   == First(work)
             content == Piece(RowOrder[first], Alike(work, first))
             list    == InRowOrder(content)
             left    == Left(work, content)
             L       == Len(heap)
  <1>1. DOMAIN RowOrder = 1 .. N
    BY RowOrderCells
  <1>2. /\ DOMAIN call = CallFields /\ call.kw \in Keywords /\ call.every \in BOOLEAN
        /\ work \in [1 .. N -> Nat] /\ before \in 0 .. L
        /\ Partly(FoundBy(heap, before), number, work)
    BY DEF Scanning, ScanBlock
  <1>3. NewBlock(NextId, list)
    BY <1>1 DEF ScanBlock, Alike
  <1>4. call' = [call EXCEPT !.work = left]
    BY <1>1 DEF ScanBlock, Alike, Left
  <1>5. first \in 1 .. N /\ work[first] # 0
    BY <1>2, IdToLoad DEF ScanBlock
  <1>6. \A k \in 1 .. N : work[k] \in Nat
    BY <1>2
  <1> HIDE DEF first, work, number, before
  <1>7. ScannedNext(list, content, number, work) /\ list \in Seq(Cells)
    <2> DEFINE blocksOf == FoundBy(heap, before)
    <2>1. Partly(blocksOf, number, work)
      BY <1>2
    <2> HIDE DEF blocksOf
    <2>2. ScannedNext(list, content, number, work)
      BY <1>2, <1>5, <2>1, PieceFound
    <2> QED BY <2>2 DEF ScannedNext
  <1>8. left \in [1 .. N -> Nat]
    <2> HIDE DEF content
    <2> QED BY <1>6 DEF Left
  <1>9. /\ call'.op = "scan" /\ DOMAIN call' = CallFields
        /\ call'.kw = call.kw /\ call'.every = call.every
        /\ call'.work = left /\ call'.before = before
    <2> HIDE DEF left
    <2>1. call.op = "scan"
      BY DEF ScanBlock
    <2> QED BY <1>2, <1>4, <2>1 DEF CallFields, before
  <1> HIDE DEF list, content, left
  <1>10. PICK new : new.cells = list /\ heap' = Append(heap, new)
    BY <1>3, <1>7, CellsListed
  <1>11. /\ L \in Nat /\ DOMAIN heap = 1 .. L
         /\ DOMAIN FoundBy(heap, before) = before + 1 .. L
         /\ before + 1 .. L \subseteq DOMAIN heap
         /\ \A b \in before + 1 .. L : FoundBy(heap, before)[b] = heap[b].cells
    BY <1>2, FoundDomain
  <1>12. /\ Len(heap') = L + 1 /\ heap'[L + 1] = new
         /\ \A b \in 1 .. L : heap'[b] = heap[b]
    <2>1. heap \in Seq({heap[b] : b \in DOMAIN heap} \cup {new})
      BY SeqMonotonic DEF HeapShape
    <2> QED BY <1>10, <1>11, <2>1, AppendProperties, LenProperties
  <1> DEFINE more == FoundBy(heap', before)
  <1>13. /\ DOMAIN more = (before + 1 .. L) \cup {L + 1} /\ L + 1 \notin before + 1 .. L
         /\ more[L + 1] = list
         /\ \A b \in before + 1 .. L : more[b] = FoundBy(heap, before)[b]
    <2>1. before + 1 .. L + 1 = (before + 1 .. L) \cup {L + 1} /\ L + 1 \notin before + 1 .. L
      BY <1>2, <1>11
    <2>2. DOMAIN more = before + 1 .. L + 1
      BY <1>12 DEF FoundBy
    <2>3. \A b \in before + 1 .. L + 1 : more[b] = heap'[b].cells
      BY <1>12 DEF FoundBy
    <2> QED BY <1>10, <1>11, <1>12, <2>1, <2>2, <2>3
  <1> HIDE DEF more, L
  <1>14. Partly(more, number, left)
    <2> DEFINE blocksOf == FoundBy(heap, before)
    <2>1. /\ DOMAIN more = DOMAIN blocksOf \cup {L + 1} /\ L + 1 \notin DOMAIN blocksOf
          /\ \A b \in DOMAIN blocksOf : more[b] = blocksOf[b]
      BY <1>11, <1>13
    <2> HIDE DEF blocksOf
    <2>2. Partly(blocksOf, number, work)
      BY <1>2 DEF blocksOf
    <2>3. more[L + 1] = list
      BY <1>13
    <2>4. Partly(more, number, Left(work, content))
      BY <1>7, <2>1, <2>2, <2>3, PartlyMore
    <2> QED BY <2>4 DEF left
  <1>15. call'.before \in 0 .. Len(heap')
    BY <1>2, <1>9, <1>11, <1>12
  <1>16. Partly(FoundBy(heap', call'.before), Numbers(call'.kw, call'.every), call'.work)
    BY <1>9, <1>14 DEF more, number
  <1> QED BY <1>2, <1>8, <1>9, <1>15, <1>16 DEF Scanning

(* A client asks for the centroid of a block: the cells stay.              *)
LEMMA CentroidKeepsScan ==
    ASSUME HeapShape, Scanning, NEW b \in DOMAIN heap, GetCentroid(b)
    PROVE  Scanning'
  <1>1. call' = call
    BY DEF GetCentroid
  <1>2. heap' = [heap EXCEPT ![b].valid_center = TRUE, ![b].centre = heap[b].cells]
    BY DEF GetCentroid
  <1>3. DOMAIN heap' = DOMAIN heap /\ \A d \in DOMAIN heap : heap'[d].cells = heap[d].cells
    BY <1>2 DEF HeapShape, Fields
  <1>4. Len(heap) \in Nat /\ DOMAIN heap = 1 .. Len(heap)
    BY LenProperties DEF HeapShape
  <1>5. Len(heap') = Len(heap)
    <2>1. heap' \in [1 .. Len(heap) -> {heap'[d] : d \in 1 .. Len(heap)}]
      BY <1>2, <1>3, <1>4
    <2> QED BY <1>4, <2>1, WrittenOut
  <1>6. \A before \in 0 .. Len(heap) : FoundBy(heap', before) = FoundBy(heap, before)
    <2> SUFFICES ASSUME NEW before \in 0 .. Len(heap)
                 PROVE  FoundBy(heap', before) = FoundBy(heap, before)
      OBVIOUS
    <2>1. \A d \in before + 1 .. Len(heap) : heap'[d].cells = heap[d].cells
      BY <1>3, <1>4
    <2> QED BY <1>5, <2>1 DEF FoundBy
  <1> QED BY <1>1, <1>5, <1>6 DEF Scanning

LEMMA StepKeepsScan ==
    ASSUME HeapShape, CallShape, Scanning, Next
    PROVE  Scanning'
  <1>1. CASE ScanBlock
    BY <1>1, BlockScanned
  <1>2. ASSUME NEW kw \in Keywords, ScanLayer(kw) \/ ScanKw(kw) PROVE Scanning'
    BY <1>2, ScanBegins
  <1>3. ASSUME NEW b \in DOMAIN heap, GetCentroid(b) PROVE Scanning'
    BY <1>3, CentroidKeepsScan
  <1>4. CASE Return
    <2>1. CASE call.op = "scan"
      <3>1. /\ DOMAIN call = CallFields /\ call' = [call EXCEPT !.op = "scanned"]
            /\ Done(call.work) /\ heap' = heap
        BY <1>4, <2>1 DEF Return, Scanning
      <3>2. /\ DOMAIN call' = CallFields /\ call'.kw = call.kw /\ call'.every = call.every
            /\ call'.work = call.work /\ call'.before = call.before
        BY <3>1 DEF CallFields
      <3> QED BY <2>1, <3>1, <3>2 DEF Scanning
    <2>2. CASE call.op # "scan"
      <3>1. call'.op = "loaded"
        BY <1>4, <2>2 DEF Return, CallShape
      <3> QED BY <3>1 DEF Scanning
    <2> QED BY <2>1, <2>2
  <1>5. ASSUME NEW kw \in Keywords, LoadKw(kw) PROVE Scanning'
    <2>1. call'.op = "load"
      BY <1>5 DEF LoadKw, Start
    <2> QED BY <2>1 DEF Scanning
  <1>6. CASE LoadCell
    <2>1. "op" \in DOMAIN call /\ call.op = "load"
      BY <1>6 DEF LoadCell, CallShape
    <2>2. call' = [call EXCEPT !.work[First(call.work)] = 0]
      BY <1>6 DEF LoadCell
    <2>3. call'.op = "load"
      BY <2>1, <2>2
    <2> QED BY <2>3 DEF Scanning
  <1>7. ASSUME call' \in {Idle, [op |-> "freed"]} PROVE Scanning'
    BY <1>7 DEF Scanning, Idle
  <1> QED
    BY <1>1, <1>2, <1>3, <1>4, <1>5, <1>6, <1>7
       DEF Next, Alloc, Free, AddBlock, DelBlock, InsertBlockContent, AddCell, AddBarrier

LEMMA AlwaysScanning == Spec => [](HeapShape /\ Scanning)
  <1>1. Init => Scanning
    BY DEF Init, Scanning, Idle
  <1>2. IInv /\ CallShape /\ Scanning /\ [Next]_vars => Scanning'
    <2> SUFFICES ASSUME IInv, CallShape, Scanning, [Next]_vars
                 PROVE  Scanning'
      OBVIOUS
    <2>1. CASE Next
      BY <2>1, StepKeepsScan DEF IInv
    <2>2. CASE UNCHANGED vars
      BY <2>2 DEF vars, Scanning
    <2> QED BY <2>1, <2>2
  <1>3. IInv => HeapShape
    BY DEF IInv
  <1> QED BY <1>1, <1>2, <1>3, AlwaysIInv, PTL DEF Spec

-----------------------------------------------------------------------------
(* Where a cell has one number of a scan, it has one in the keyword.       *)
LEMMA NumbersAgree ==
    ASSUME NEW kw \in Keywords, NEW every \in BOOLEAN
    PROVE  /\ \A k \in 1 .. NX * NY : Numbers(kw, every)[k] # 0 <=> (every \/ kw[k] # 0)
           /\ \A k, m \in 1 .. NX * NY :
                  Numbers(kw, every)[k] = Numbers(kw, every)[m] <=> kw[k] = kw[m]
  <1> DEFINE N == NX * NY
             free == FreeNumber(kw)
  <1>1. kw \in [1 .. N -> Nat]
    BY FaultBlocksAssumption
  <1>2. free # 0 /\ \A k \in 1 .. N : kw[k] # free
    BY <1>1, FreeNumberIsFree
  <1>3. \A k \in 1 .. N : Numbers(kw, every)[k] = IF every /\ kw[k] = 0 THEN free ELSE kw[k]
    BY DEF Numbers
  <1> HIDE DEF free
  <1> QED BY <1>2, <1>3

(* What a scan has found in the end.                                       *)
LEMMA ScanFinds ==
    ASSUME HeapShape, Scanning
    PROVE  ScanPartitions
  <1> SUFFICES ASSUME call.op = "scanned" PROVE ScanPartitions
    BY DEF ScanPartitions
  <1> DEFINE N == NX * NY
             F == FoundBy(heap, call.before)
             number == Numbers(call.kw, call.every)
             found   == {b \in DOMAIN heap : b > call.before}
             Of(c)   == {b \in found : c \in ToSet(heap[b].cells)}
             scanned == {RowOrder[k] : k \in {m \in DOMAIN RowOrder : call.every \/ call.kw[m] # 0}}
  <1>1. /\ DOMAIN RowOrder = 1 .. N
        /\ \A k, m \in 1 .. N : RowOrder[k] = RowOrder[m] => k = m
    BY RowOrderCells
  <1>2. /\ call.kw \in Keywords /\ call.every \in BOOLEAN /\ call.work \in [1 .. N -> Nat]
        /\ call.before \in 0 .. Len(heap) /\ Partly(F, number, call.work) /\ Done(call.work)
    BY DEF Scanning
  <1>3. /\ \A k \in 1 .. N : number[k] # 0 <=> (call.every \/ call.kw[k] # 0)
        /\ \A k, m \in 1 .. N : number[k] = number[m] <=> call.kw[k] = call.kw[m]
    BY <1>2, NumbersAgree
  <1>4. \A k \in 1 .. N : call.work[k] = 0
    BY <1>2 DEF Done
  <1>5. /\ found = DOMAIN F /\ \A b \in found : heap[b].cells = F[b]
    <2>1. /\ Len(heap) \in Nat /\ DOMAIN heap = 1 .. Len(heap)
          /\ DOMAIN F = call.before + 1 .. Len(heap)
          /\ \A b \in call.before + 1 .. Len(heap) : F[b] = heap[b].cells
      BY <1>2, FoundDomain
    <2>2. found = call.before + 1 .. Len(heap)
      BY <1>2, <2>1
    <2> HIDE DEF F, found
    <2> QED BY <2>1, <2>2
  <1>6. \A k \in 1 .. N : RowOrder[k] \in scanned <=> number[k] # 0
    BY <1>1, <1>3
  <1>7. \A x \in scanned : \E k \in 1 .. N : x = RowOrder[k] /\ number[k] # 0
    BY <1>1, <1>3
  <1> HIDE DEF F, number, found, scanned
  <1>8. /\ \A b \in found : BlockFound(heap[b].cells, number, call.work)
        /\ \A k \in 1 .. N : number[k] # 0 => \E b \in found : k \in Positions(heap[b].cells)
        /\ \A b, d \in found : Positions(heap[b].cells) \cap Positions(heap[d].cells) # {} => b = d
    BY <1>2, <1>4, <1>5 DEF Partly
  <1>9. \A b \in found, k \in 1 .. N :
            k \in Positions(heap[b].cells) <=> RowOrder[k] \in ToSet(heap[b].cells)
    BY DEF Positions
  <1>10. ASSUME NEW b \in found PROVE ToSet(heap[b].cells) \subseteq scanned
    <2>1. ASSUME NEW c \in ToSet(heap[b].cells) PROVE c \in scanned
      <3>1. PICK k \in 1 .. N : c = RowOrder[k]
        BY <1>8 DEF BlockFound
      <3>2. number[k] # 0
        BY <1>8, <1>9, <3>1 DEF BlockFound
      <3> QED BY <1>6, <3>1, <3>2
    <2> QED BY <2>1
  <1>11. ASSUME NEW k \in 1 .. N, number[k] # 0
         PROVE  \E b \in found : Of(RowOrder[k]) = {b} /\ k \in Positions(heap[b].cells)
    <2>1. PICK b \in found : k \in Positions(heap[b].cells)
      BY <1>8, <1>11
    <2>2. ASSUME NEW d \in found, RowOrder[k] \in ToSet(heap[d].cells) PROVE d = b
      BY <1>8, <1>9, <2>1, <2>2
    <2>3. Of(RowOrder[k]) = {b}
      BY <1>9, <2>1, <2>2
    <2> QED BY <2>1, <2>3
  <1>12. ASSUME NEW c \in scanned PROVE Cardinality(Of(c)) = 1
    <2>1. PICK k \in 1 .. N : c = RowOrder[k] /\ number[k] # 0
      BY <1>7
    <2>2. PICK b \in found : Of(c) = {b}
      BY <1>11, <2>1
    <2> HIDE DEF Of
    <2> QED BY <2>2, FS_Singleton
  <1>13. ASSUME NEW k \in 1 .. N, NEW m \in 1 .. N, RowOrder[k] \in scanned, RowOrder[m] \in scanned,
                Beside(RowOrder[k], RowOrder[m])
         PROVE  call.kw[k] = call.kw[m] <=> Of(RowOrder[k]) = Of(RowOrder[m])
    <2>1. number[k] # 0 /\ number[m] # 0
      BY <1>6, <1>13
    <2>2. PICK b \in found : Of(RowOrder[k]) = {b} /\ k \in Positions(heap[b].cells)
      BY <1>11, <2>1
    <2>3. PICK d \in found : Of(RowOrder[m]) = {d} /\ m \in Positions(heap[d].cells)
      BY <1>11, <2>1
    <2>4. CASE number[k] = number[m]
      <3>1. m \in Positions(heap[b].cells)
        BY <1>8, <1>13, <2>2, <2>4 DEF BlockFound
      <3>2. b = d
        BY <1>8, <2>3, <3>1
      <3> QED BY <1>3, <2>2, <2>3, <2>4, <3>2
    <2>5. CASE number[k] # number[m]
      <3>1. b # d
        BY <1>8, <2>2, <2>3, <2>5 DEF BlockFound
      <3>2. Of(RowOrder[k]) # Of(RowOrder[m])
        <4> HIDE DEF Of
        <4> QED BY <2>2, <2>3, <3>1
      <3> QED BY <1>3, <2>5, <3>2
    <2> QED BY <2>4, <2>5
  <1>14. \A b \in found : /\ Len(heap[b].cells) = Cardinality(ToSet(heap[b].cells))
                          /\ InOnePiece(ToSet(heap[b].cells))
    BY <1>8 DEF BlockFound
  <1>15. \A b \in found :
             \A part \in (SUBSET ToSet(heap[b].cells)) \ {{}, ToSet(heap[b].cells)} :
                 \E c \in part, n \in ToSet(heap[b].cells) \ part : Beside(c, n)
    BY <1>14 DEF InOnePiece
  <1> HIDE DEF Of
  <1> QED BY <1>1, <1>10, <1>12, <1>13, <1>14, <1>15 DEF ScanPartitions, found, scanned, Of

(* The blocks found by a scan (fault_block_layer_scan_layer, _scan_kw) are *)
(* the connected pieces of cells of one number: they hold each cell that   *)
(* was not 0 once, cells side by side are in one block exactly when they   *)
(* had one number, and each block is in one piece.                         *)
THEOREM ScanFindsPieces == Spec => []ScanPartitions
  <1>1. HeapShape /\ Scanning => ScanPartitions
    BY ScanFinds
  <1> QED BY <1>1, AlwaysScanning, PTL

-----------------------------------------------------------------------------
(* The layer of a client.                                                  *)

LayerSet ==
    [value : [Cells -> Int], edges : [Cells -> [Dirs -> Int]],
     left_barrier : SUBSET (Int \X Int), bottom_barrier : SUBSET (Int \X Int), cell_sum : Int]

SameBarriers(l, m) ==
    m.left_barrier = l.left_barrier /\ m.bottom_barrier = l.bottom_barrier

(* A cell that is set changes no other value, and no barrier.              *)
LEMMA CellSet ==
    ASSUME NEW l \in LayerSet, NEW c \in Cells, NEW v \in Int
    PROVE  /\ IsetCellValue(l, c, v) \in LayerSet
           /\ SameBarriers(l, IsetCellValue(l, c, v))
           /\ IsetCellValue(l, c, v).value = [l.value EXCEPT ![c] = v]
  <1> DEFINE edges == EdgesWith(l, c, v)
             sum == SumWith(l, c, v)
  <1>1. sum \in Int
    BY DEF LayerSet, SumWith
  <1>2. edges \in [Cells -> [Dirs -> Int]]
    <2>1. \A d \in Dirs : OnEdge(v, d) \in Int
      BY DEF OnEdge
    <2>2. \A n \in Cells, d \in Dirs : l.edges[n][d] \in Int
      BY DEF LayerSet
    <2> QED BY <2>1, <2>2 DEF EdgesWith
  <1>3. IsetCellValue(l, c, v) = [l EXCEPT !.value[c] = v, !.cell_sum = sum, !.edges = edges]
    BY DEF IsetCellValue
  <1> DEFINE values == [l.value EXCEPT ![c] = v]
  <1>4. values \in [Cells -> Int]
    BY DEF LayerSet
  <1> HIDE DEF edges, sum, values
  <1>5. IsetCellValue(l, c, v) = [l EXCEPT !.value = values, !.cell_sum = sum, !.edges = edges]
    BY <1>3 DEF values
  <1>6. IsetCellValue(l, c, v) =
            [value |-> values, edges |-> edges, left_barrier |-> l.left_barrier,
             bottom_barrier |-> l.bottom_barrier, cell_sum |-> sum]
    BY <1>5 DEF LayerSet
  <1>7. l.left_barrier \in SUBSET (Int \X Int) /\ l.bottom_barrier \in SUBSET (Int \X Int)
    BY DEF LayerSet
  <1> QED BY <1>1, <1>2, <1>4, <1>6, <1>7 DEF LayerSet, SameBarriers, values

LEMMA RowsSet ==
    ASSUME NEW l \in LayerSet, NEW places, NEW number,
           \A k \in places \cap (1 .. NX * NY) : number[k] \in Int
    PROVE  AfterRows(l, places, number) \in LayerSet /\ SameBarriers(l, AfterRows(l, places, number))
  <1> DEFINE N == NX * NY
             S == {m \in LayerSet : SameBarriers(l, m)}
             Go(m, k) == IF k \in places THEN IsetCellValue(m, RowOrder[k], number[k]) ELSE m
             step == [k \in 1 .. N |-> [m \in S |-> Go(m, k)]]
             Solves(e) == e = [k \in 0 .. N |-> IF k = 0 THEN l
                                                ELSE LET before == e[k - 1]
                                                     IN  IF k \in places
                                                         THEN IsetCellValue(before, RowOrder[k], number[k])
                                                         ELSE before]
             after == CHOOSE e : Solves(e)
  <1>1. N \in Nat /\ \A k \in 1 .. N : RowOrder[k] \in Cells
    BY RowOrderCells
  <1>2. AfterRows(l, places, number) = after[N]
    BY DEF AfterRows
  <1>3. l \in S
    BY DEF SameBarriers
  <1>4. ASSUME NEW m \in S, NEW k \in 1 .. N PROVE Go(m, k) \in S
    <2>1. CASE k \in places
      <3>1. RowOrder[k] \in Cells /\ number[k] \in Int /\ m \in LayerSet
        BY <1>1, <2>1
      <3>2. /\ IsetCellValue(m, RowOrder[k], number[k]) \in LayerSet
            /\ SameBarriers(m, IsetCellValue(m, RowOrder[k], number[k]))
        BY <3>1, CellSet
      <3> QED BY <2>1, <3>2 DEF SameBarriers
    <2>2. CASE k \notin places
      BY <2>2
    <2> QED BY <2>1, <2>2
  <1> HIDE DEF N, S, Go
  <1>5. step \in [1 .. N -> [S -> S]]
    BY <1>4
  <1>6. PICK u : Recurs(u, N, S, l, step)
    <2> HIDE DEF step
    <2> QED BY <1>1, <1>3, <1>5, RecursionSolved
  <1>7. /\ u \in [0 .. N -> S] /\ u[0] = l
        /\ \A k \in 1 .. N : u[k] = Go(u[k - 1], k)
    <2>1. u \in [0 .. N -> S] /\ u[0] = l /\ \A k \in 1 .. N : u[k] = step[k][u[k - 1]]
      BY <1>6 DEF Recurs
    <2>2. \A k \in 1 .. N : k - 1 \in 0 .. N
      BY <1>1
    <2> QED BY <2>1, <2>2
  <1>8. Solves(u)
    <2>1. ASSUME NEW k \in 0 .. N
          PROVE  u[k] = IF k = 0 THEN l
                        ELSE LET before == u[k - 1]
                             IN  IF k \in places THEN IsetCellValue(before, RowOrder[k], number[k])
                                 ELSE before
      <3>1. k # 0 => k \in 1 .. N
        BY <1>1
      <3> QED BY <1>7, <3>1 DEF Go
    <2>2. u = [k \in 0 .. N |-> u[k]]
      BY <1>7
    <2> QED BY <2>1, <2>2
  <1>9. Solves(after)
    <2> HIDE DEF Solves
    <2> QED BY <1>8
  <1> HIDE DEF after
  <1>10. \A k \in 0 .. N : after[k] = IF k = 0 THEN l ELSE Go(after[k - 1], k)
    BY <1>9, Zenon DEF Go
  <1> HIDE DEF Solves
  <1> DEFINE T == {k \in 0 .. N : after[k] \in S}
  <1>11. 0 \in T
    <2>1. 0 \in 0 .. N
      BY <1>1
    <2>2. after[0] = l
      BY <1>10, <2>1, Zenon
    <2> QED BY <1>3, <2>1, <2>2
  <1>12. ASSUME NEW k \in 0 .. N - 1, k \in T PROVE k + 1 \in T
    <2>1. k + 1 \in 1 .. N /\ k + 1 \in 0 .. N /\ (k + 1) - 1 = k /\ k + 1 # 0
      BY <1>1
    <2>2. after[k + 1] = Go(after[k], k + 1)
      BY <1>10, <2>1
    <2> QED BY <1>4, <1>12, <2>1, <2>2
  <1> HIDE DEF T
  <1>13. N \in T
    <2>1. 0 .. N \subseteq T
      BY <1>1, <1>11, <1>12, UpToInduction
    <2> QED BY <1>1, <2>1
  <1> QED BY <1>2, <1>13 DEF T, S

-----------------------------------------------------------------------------
(* Barriers lie where they were put.                                       *)

LeftSide(c) == {c, <<c[1], c[2] + 1>>}
BottomSide(c) == {c, <<c[1] + 1, c[2]>>}

BarriersAsLaid(l, sides) ==
    \A c \in Cells : /\ c \in l.left_barrier <=> LeftSide(c) \in sides
                     /\ c \in l.bottom_barrier <=> BottomSide(c) \in sides

Straight(side) ==
    /\ side \in (Int \X Int) \X (Int \X Int)
    /\ side[1][1] = side[2][1] \/ side[1][2] = side[2][2]

LEMMA SideBetween ==
    ASSUME NEW p, NEW q, Straight(<<p, q>>), NEW c \in Cells
    PROVE  /\ c \in LeftBarriers(p, q) <=> LeftSide(c) \in SidesBetween(p, q)
           /\ c \in BottomBarriers(p, q) <=> BottomSide(c) \in SidesBetween(p, q)
  <1> DEFINE Between(a, b, x) == (a <= x /\ x <= b) \/ (b <= x /\ x <= a)
             X == {x \in Corners : Between(p[1], q[1], x[1]) /\ Between(p[2], q[2], x[2])}
  <1>1. PICK i \in 0 .. NX - 1, j \in 0 .. NY - 1 : c = <<i, j>>
    BY DEF Cells
  <1>2. /\ c \in Corners /\ <<i, j + 1>> \in Corners /\ <<i + 1, j>> \in Corners
        /\ i \in Int /\ j \in Int
    BY <1>1, LayerAssumption DEF Corners
  <1>3. /\ p[1] \in Int /\ p[2] \in Int /\ q[1] \in Int /\ q[2] \in Int
        /\ p[1] = q[1] \/ p[2] = q[2]
    BY DEF Straight
  <1>4. \A x, y : {x, y} \in SidesBetween(p, q) <=> x \in X /\ y \in X
    BY DEF SidesBetween
  <1>5. LeftSide(c) \in SidesBetween(p, q) <=> c \in X /\ <<i, j + 1>> \in X
    BY <1>1, <1>4 DEF LeftSide
  <1>6. BottomSide(c) \in SidesBetween(p, q) <=> c \in X /\ <<i + 1, j>> \in X
    BY <1>1, <1>4 DEF BottomSide
  <1>7. /\ c \in X <=> Between(p[1], q[1], i) /\ Between(p[2], q[2], j)
        /\ <<i, j + 1>> \in X <=> Between(p[1], q[1], i) /\ Between(p[2], q[2], j + 1)
        /\ <<i + 1, j>> \in X <=> Between(p[1], q[1], i + 1) /\ Between(p[2], q[2], j)
    BY <1>1, <1>2
  <1> HIDE DEF X
  <1>8. /\ j \in Span(p[2], q[2]) <=> Between(p[2], q[2], j) /\ Between(p[2], q[2], j + 1)
        /\ i \in Span(p[1], q[1]) <=> Between(p[1], q[1], i) /\ Between(p[1], q[1], i + 1)
    BY <1>2, <1>3 DEF Span, LeastOf
  <1>9. c \in LeftBarriers(p, q) <=> p[1] = q[1] /\ p[1] = i /\ j \in Span(p[2], q[2])
    BY <1>1 DEF LeftBarriers
  <1>10. c \in BottomBarriers(p, q) <=> p[1] # q[1] /\ p[2] = j /\ i \in Span(p[1], q[1])
    BY <1>1 DEF BottomBarriers
  <1> QED BY <1>2, <1>3, <1>5, <1>6, <1>7, <1>8, <1>9, <1>10

LEMMA BarriersPut ==
    ASSUME NEW l \in LayerSet, NEW sides, BarriersAsLaid(l, sides),
           NEW way, \A side \in way : Straight(side) /\ side = <<side[1], side[2]>>
    PROVE  /\ AddBarriers(l, way) \in LayerSet
           /\ BarriersAsLaid(AddBarriers(l, way),
                             sides \cup UNION {SidesBetween(side[1], side[2]) : side \in way})
  <1> DEFINE left == UNION {LeftBarriers(side[1], side[2]) : side \in way}
             bottom == UNION {BottomBarriers(side[1], side[2]) : side \in way}
             laidNow == UNION {SidesBetween(side[1], side[2]) : side \in way}
  <1>1. left \subseteq Int \X Int /\ bottom \subseteq Int \X Int
    <2>1. ASSUME NEW side \in way
          PROVE  /\ LeftBarriers(side[1], side[2]) \subseteq Int \X Int
                 /\ BottomBarriers(side[1], side[2]) \subseteq Int \X Int
      <3>1. /\ side[1][1] \in Int /\ side[1][2] \in Int
            /\ side[2][1] \in Int /\ side[2][2] \in Int
        BY DEF Straight
      <3>2. Span(side[1][2], side[2][2]) \subseteq Int /\ Span(side[1][1], side[2][1]) \subseteq Int
        BY <3>1 DEF Span, LeastOf
      <3> QED BY <3>1, <3>2 DEF LeftBarriers, BottomBarriers
    <2> QED BY <2>1
  <1>2. ASSUME NEW c \in Cells
        PROVE  /\ c \in left <=> LeftSide(c) \in laidNow
               /\ c \in bottom <=> BottomSide(c) \in laidNow
    <2>1. ASSUME NEW side \in way
          PROVE  /\ c \in LeftBarriers(side[1], side[2]) <=> LeftSide(c) \in SidesBetween(side[1], side[2])
                 /\ c \in BottomBarriers(side[1], side[2]) <=> BottomSide(c) \in SidesBetween(side[1], side[2])
      BY <2>1, SideBetween
    <2> QED BY <2>1
  <1>3. AddBarriers(l, way) = [l EXCEPT !.left_barrier = @ \cup left, !.bottom_barrier = @ \cup bottom]
    BY DEF AddBarriers
  <1> HIDE DEF left, bottom, laidNow
  <1>4. AddBarriers(l, way) \in LayerSet
    BY <1>1, <1>3 DEF LayerSet
  <1>5. /\ AddBarriers(l, way).left_barrier = l.left_barrier \cup left
        /\ AddBarriers(l, way).bottom_barrier = l.bottom_barrier \cup bottom
    BY <1>3 DEF LayerSet
  <1>6. BarriersAsLaid(AddBarriers(l, way), sides \cup laidNow)
    BY <1>2, <1>5 DEF BarriersAsLaid
  <1> QED BY <1>4, <1>6 DEF laidNow

(* A staircase has straight sides, wherever it leads.                      *)
LEMMA StaircaseStraight ==
    ASSUME NEW p \in Corners, NEW q \in Corners, NEW way \in Staircases(p, q)
    PROVE  \A side \in way : Straight(side) /\ side = <<side[1], side[2]>>
  <1> DEFINE N == Distance(p[1], q[1]) + Distance(p[2], q[2])
             Sides == {side \in (Int \X Int) \X (Int \X Int) : Straight(side)}
             W == [at : Int \X Int, sides : SUBSET Sides]
             S == SUBSET W
             Longer(w) == {[at |-> n, sides |-> w.sides \cup {<<w.at, n>>}] : n \in NextCorners(p, q, w.at)}
             Go(X) == UNION {Longer(w) : w \in X}
             base == {[at |-> p, sides |-> {}]}
             step == [k \in 1 .. N |-> [X \in S |-> Go(X)]]
             Solves(e) == e = [k \in 0 .. N |-> IF k = 0 THEN base
                                                ELSE UNION {Longer(w) : w \in e[k - 1]}]
             ways == CHOOSE e : Solves(e)
  <1>1. /\ p \in Int \X Int /\ q \in Int \X Int /\ N \in Nat
        /\ \A side \in (Int \X Int) \X (Int \X Int) : side = <<side[1], side[2]>>
    BY LayerAssumption DEF Corners, Distance
  <1>2. CASE p[1] = q[1] \/ p[2] = q[2]
    <2>1. way = {<<p, q>>}
      BY <1>2 DEF Staircases
    <2> QED BY <1>1, <1>2, <2>1 DEF Straight
  <1>3. CASE ~(p[1] = q[1] \/ p[2] = q[2])
    <2>1. way \in {w.sides : w \in ways[N]}
      BY <1>3, Zenon DEF Staircases
    <2>2. base \in S
      BY <1>1
    <2>3. ASSUME NEW w \in W PROVE Longer(w) \in S
      <3>1. w.at \in Int \X Int /\ w.sides \in SUBSET Sides
        OBVIOUS
      <3>2. ASSUME NEW n \in NextCorners(p, q, w.at)
            PROVE  n \in Int \X Int /\ (w.at[1] = n[1] \/ w.at[2] = n[2])
        <4>1. w.at[1] \in Int /\ w.at[2] \in Int
          BY <3>1
        <4>2. n = <<w.at[1] + Towards(p[1], q[1]), w.at[2]>> \/ n = <<w.at[1], w.at[2] + Towards(p[2], q[2])>>
          BY DEF NextCorners
        <4>3. Towards(p[1], q[1]) \in Int /\ Towards(p[2], q[2]) \in Int
          BY DEF Towards
        <4> QED BY <4>1, <4>2, <4>3
      <3>3. ASSUME NEW n \in NextCorners(p, q, w.at)
            PROVE  [at |-> n, sides |-> w.sides \cup {<<w.at, n>>}] \in W
        <4>1. <<w.at, n>> \in Sides
          BY <3>1, <3>2 DEF Straight
        <4> HIDE DEF Sides
        <4> QED BY <3>1, <3>2, <4>1
      <3> HIDE DEF W
      <3> QED BY <3>3
    <2> HIDE DEF W, Longer, base
    <2>4. \A X \in S : Go(X) \in S
      BY <2>3
    <2> HIDE DEF S, Go, N
    <2>5. step \in [1 .. N -> [S -> S]]
      BY <2>4
    <2>6. PICK u : Recurs(u, N, S, base, step)
      <3> HIDE DEF step
      <3> QED BY <1>1, <2>2, <2>5, RecursionSolved
    <2>7. /\ u \in [0 .. N -> S] /\ u[0] = base
          /\ \A k \in 1 .. N : u[k] = Go(u[k - 1])
      <3>1. u \in [0 .. N -> S] /\ u[0] = base /\ \A k \in 1 .. N : u[k] = step[k][u[k - 1]]
        BY <2>6 DEF Recurs
      <3>2. \A k \in 1 .. N : k - 1 \in 0 .. N
        BY <1>1
      <3> QED BY <3>1, <3>2
    <2>8. Solves(u)
      <3>1. ASSUME NEW k \in 0 .. N
            PROVE  u[k] = IF k = 0 THEN base ELSE UNION {Longer(w) : w \in u[k - 1]}
        <4>1. k # 0 => k \in 1 .. N
          BY <1>1
        <4> QED BY <2>7, <4>1 DEF Go
      <3>2. u = [k \in 0 .. N |-> u[k]]
        BY <2>7
      <3> QED BY <3>1, <3>2
    <2>9. Solves(ways)
      <3> HIDE DEF Solves
      <3> QED BY <2>8
    <2> HIDE DEF ways
    <2>10. \A k \in 0 .. N : ways[k] = IF k = 0 THEN base ELSE Go(ways[k - 1])
      BY <2>9, Zenon DEF Go
    <2> HIDE DEF Solves
    <2> DEFINE T == {k \in 0 .. N : ways[k] \in S}
    <2>11. 0 \in T
      <3>1. 0 \in 0 .. N
        BY <1>1
      <3>2. ways[0] = base
        BY <2>10, <3>1, Zenon
      <3> QED BY <2>2, <3>1, <3>2
    <2>12. ASSUME NEW k \in 0 .. N - 1, k \in T PROVE k + 1 \in T
      <3>1. k + 1 \in 1 .. N /\ k + 1 \in 0 .. N /\ (k + 1) - 1 = k /\ k + 1 # 0
        BY <1>1
      <3>2. ways[k + 1] = Go(ways[k])
        BY <2>10, <3>1
      <3> QED BY <2>4, <2>12, <3>1, <3>2
    <2> HIDE DEF T
    <2>13. N \in T
      <3>1. 0 .. N \subseteq T
        BY <1>1, <2>11, <2>12, UpToInduction
      <3> QED BY <1>1, <3>1
    <2>14. way \in SUBSET Sides
      BY <2>1, <2>13 DEF T, S, W
    <2> QED BY <1>1, <2>14
  <1> QED BY <1>2, <1>3

-----------------------------------------------------------------------------
(* Contact is what the barriers that were put leave open.                  *)

LEMMA ContactIsOpen ==
    ASSUME BarriersAsLaid(client_layer, laid), NEW c \in Cells, NEW d \in Dirs, Neighbour(c, d) \in Cells
    PROVE  CellContact(client_layer, c, Neighbour(c, d)) <=> Open(c, Neighbour(c, d))
  <1> DEFINE n == Neighbour(c, d)
             X == {x \in Corners : x \in {<<c[1] + i, c[2] + j>> : i, j \in {0, 1}}
                                   /\ x \in {<<n[1] + i, n[2] + j>> : i, j \in {0, 1}}}
  <1> SUFFICES CellContact(client_layer, c, n) <=> Open(c, n)
    OBVIOUS
  <1>1. PICK i \in 0 .. NX - 1, j \in 0 .. NY - 1 : c = <<i, j>>
    BY DEF Cells
  <1>2. /\ i \in Int /\ j \in Int /\ i + 1 \in 0 .. NX /\ j + 1 \in 0 .. NY
        /\ i \in 0 .. NX /\ j \in 0 .. NY
    BY LayerAssumption
  <1>3. Open(c, n) <=> X \notin laid
    BY DEF Open, Beside, Side
  <1>4. /\ n \in client_layer.left_barrier <=> LeftSide(n) \in laid
        /\ n \in client_layer.bottom_barrier <=> BottomSide(n) \in laid
        /\ c \in client_layer.left_barrier <=> LeftSide(c) \in laid
        /\ c \in client_layer.bottom_barrier <=> BottomSide(c) \in laid
    BY DEF BarriersAsLaid
  <1>5. CASE d = "RIGHT"
    <2>1. n = <<i + 1, j>>
      BY <1>1, <1>5 DEF Neighbour, Shift
    <2>2. X = {<<i + 1, j>>, <<i + 1, j + 1>>}
      BY <1>1, <1>2, <2>1 DEF Corners
    <2>3. CellContact(client_layer, c, n) <=> n \notin client_layer.left_barrier
      BY <1>1, <1>2, <2>1 DEF CellContact
    <2>4. LeftSide(n) = X
      BY <2>1, <2>2 DEF LeftSide
    <2> HIDE DEF n, X
    <2> QED BY <1>3, <1>4, <2>3, <2>4
  <1>6. CASE d = "LEFT"
    <2>1. n = <<i - 1, j>>
      BY <1>1, <1>2, <1>6 DEF Neighbour, Shift
    <2>2. X = {<<i, j>>, <<i, j + 1>>}
      BY <1>1, <1>2, <2>1 DEF Corners
    <2>3. CellContact(client_layer, c, n) <=> c \notin client_layer.left_barrier
      BY <1>1, <1>2, <2>1 DEF CellContact
    <2>4. LeftSide(c) = X
      BY <1>1, <2>2 DEF LeftSide
    <2> HIDE DEF n, X
    <2> QED BY <1>3, <1>4, <2>3, <2>4
  <1>7. CASE d = "TOP"
    <2>1. n = <<i, j + 1>>
      BY <1>1, <1>7 DEF Neighbour, Shift
    <2>2. X = {<<i, j + 1>>, <<i + 1, j + 1>>}
      BY <1>1, <1>2, <2>1 DEF Corners
    <2>3. CellContact(client_layer, c, n) <=> n \notin client_layer.bottom_barrier
      BY <1>1, <1>2, <2>1 DEF CellContact
    <2>4. BottomSide(n) = X
      BY <2>1, <2>2 DEF BottomSide
    <2> HIDE DEF n, X
    <2> QED BY <1>3, <1>4, <2>3, <2>4
  <1>8. CASE d = "BOTTOM"
    <2>1. n = <<i, j - 1>>
      BY <1>1, <1>2, <1>8 DEF Neighbour, Shift
    <2>2. X = {<<i, j>>, <<i + 1, j>>}
      BY <1>1, <1>2, <2>1 DEF Corners
    <2>3. CellContact(client_layer, c, n) <=> c \notin client_layer.bottom_barrier
      BY <1>1, <1>2, <2>1 DEF CellContact
    <2>4. BottomSide(c) = X
      BY <1>1, <2>2 DEF BottomSide
    <2> HIDE DEF n, X
    <2> QED BY <1>3, <1>4, <2>3, <2>4
  <1> QED BY <1>5, <1>6, <1>7, <1>8 DEF Dirs

LEMMA CellsFinite == IsFiniteSet(Cells)
  <1>1. Cells = (0 .. NX - 1) \X (0 .. NY - 1)
    BY DEF Cells
  <1>2. 0 \in Int /\ NX - 1 \in Int /\ NY - 1 \in Int
    BY LayerAssumption
  <1>3. IsFiniteSet(0 .. NX - 1) /\ IsFiniteSet(0 .. NY - 1)
    BY <1>2, FS_Interval
  <1> QED BY <1>1, <1>3, FS_Product

(* What can be reached: it leaves out no cell that is open to it, and no   *)
(* smaller part of the area with its beginning does so.                    *)
LEMMA InContactCloses ==
    ASSUME NEW area \in SUBSET Cells, NEW start \in area
    PROVE  /\ start \in InContact(start, area) /\ InContact(start, area) \subseteq area
           /\ \A r \in InContact(start, area), n \in area : Open(r, n) => n \in InContact(start, area)
           /\ \A part \in SUBSET area :
                  start \in part /\ (\A r \in part, n \in area : Open(r, n) => n \in part)
                  => InContact(start, area) \subseteq part
  <1> DEFINE N == Cardinality(area)
             near == [c \in area |-> {n \in area : Open(c, n)}]
             content == InContact(start, area)
  <1>1. IsFiniteSet(area) /\ N \in Nat
    BY CellsFinite, FS_Subset, FS_CardinalityType
  <1>2. near \in [area -> SUBSET area] /\ {start} \in SUBSET area
    OBVIOUS
  <1>3. content = Reached({start}, area, near)
    BY DEF InContact
  <1>4. \A r \in area, n \in area : n \in near[r] <=> Open(r, n)
    OBVIOUS
  <1> HIDE DEF near, content
  <1>5. PICK u : Spreads(u, {start}, area, near) /\ Reached({start}, area, near) = u[N]
    BY <1>1, <1>2, ReachedSpreads
  <1>6. content = u[N]
    BY <1>3, <1>5
  <1>7. /\ u \in [0 .. N -> SUBSET area] /\ u[0] = {start}
        /\ \A k \in 1 .. N : u[k - 1] \subseteq u[k]
    BY <1>5 DEF Spreads
  <1>8. content \subseteq area
    BY <1>1, <1>6, <1>7
  <1>9. \A r \in content : near[r] \subseteq content
    BY <1>1, <1>2, <1>5, <1>6, SpreadCloses
  <1>10. start \in content
    <2> DEFINE T == {k \in 0 .. N : start \in u[k]}
    <2> HIDE DEF N
    <2>1. 0 \in T
      BY <1>1, <1>7
    <2>2. ASSUME NEW k \in 0 .. N - 1, k \in T PROVE k + 1 \in T
      <3>1. k + 1 \in 1 .. N /\ k + 1 \in 0 .. N /\ (k + 1) - 1 = k
        BY <1>1
      <3> QED BY <1>7, <2>2, <3>1
    <2> HIDE DEF T
    <2>3. 0 .. N \subseteq T
      BY <1>1, <2>1, <2>2, UpToInduction
    <2> QED BY <1>1, <1>6, <2>3 DEF T
  <1>11. ASSUME NEW part \in SUBSET area, start \in part,
                \A r \in part, n \in area : Open(r, n) => n \in part
         PROVE  content \subseteq part
    <2> DEFINE met == part \cap content
    <2> SUFFICES ASSUME met # content PROVE FALSE
      OBVIOUS
    <2>1. met \subseteq content /\ {start} \subseteq met
      BY <1>10, <1>11
    <2>2. LeadsOut(met, content, near)
      <3> HIDE DEF met
      <3> QED BY <1>1, <1>2, <1>5, <1>6, <2>1, SpreadConnects
    <2>3. PICK r \in met, n \in content \ met : n \in near[r]
      BY <2>2 DEF LeadsOut
    <2> QED BY <1>4, <1>8, <1>11, <2>3
  <1> QED BY <1>4, <1>8, <1>9, <1>10, <1>11 DEF content

-----------------------------------------------------------------------------
(* The recursive calls.                                                    *)

WalkFields == {"op", "start", "old", "new", "before", "list", "stack"}
FrameSet == [cell : Cells, todo : Seq(Dirs)]

WalkShape ==
    /\ client_layer \in LayerSet /\ BarriersAsLaid(client_layer, laid)
    /\ "op" \in DOMAIN walk
    /\ walk.op \in {"update", "content"} =>
           /\ DOMAIN walk = WalkFields
           /\ walk.new \in SUBSET Int
           /\ walk.list \in Seq(Cells) /\ walk.stack \in Seq(FrameSet)

Met == ToSet(walk.list)
NewValue == CHOOSE v \in walk.new : TRUE
Old == Area(walk.before, walk.start)
Flood == InContact(walk.start, Old)

Pending(stack, c, d) == \E k \in DOMAIN stack : stack[k].cell = c /\ d \in ToSet(stack[k].todo)

(* While a value spreads: the cells that were entered have it and no       *)
(* other cell has changed; all of them are connected with the first; and   *)
(* what is open to one of them was entered, or is still to be tried.       *)
Flooding ==
    walk.op = "update" =>
        /\ walk.new = {NewValue} /\ NewValue \in Int /\ NewValue # walk.old
        /\ walk.start \in Cells /\ walk.before \in [Cells -> Int]
        /\ walk.old = walk.before[walk.start]
        /\ walk.start \in Met /\ Met \subseteq Flood
        /\ \A c \in Cells : client_layer.value[c] = IF c \in Met THEN NewValue ELSE walk.before[c]
        /\ \A k \in DOMAIN walk.stack : walk.stack[k].cell \in Met
        /\ \A c \in Met, d \in Dirs :
               Neighbour(c, d) \in Old /\ Open(c, Neighbour(c, d)) =>
                   Neighbour(c, d) \in Met \/ Pending(walk.stack, c, d)

LInv == WalkShape /\ Flooding /\ UpdatesConnected

LEMMA OrderHasAll ==
    ASSUME NEW op
    PROVE  Order(op) \in Seq(Dirs) /\ ToSet(Order(op)) = Dirs
  <1> DEFINE u == UpdateOrder
             t == TraceOrder
  <1>1. u \in Seq(Dirs) /\ DOMAIN u = 1 .. 4 /\ t \in Seq(Dirs) /\ DOMAIN t = 1 .. 4
    BY DEF UpdateOrder, TraceOrder, Dirs
  <1>2. /\ u[1] = "RIGHT" /\ u[2] = "LEFT" /\ u[3] = "TOP" /\ u[4] = "BOTTOM"
        /\ t[1] = "LEFT" /\ t[2] = "RIGHT" /\ t[3] = "BOTTOM" /\ t[4] = "TOP"
    BY DEF UpdateOrder, TraceOrder
  <1> HIDE DEF u, t
  <1>3. ToSet(u) = {u[1], u[2], u[3], u[4]} /\ ToSet(t) = {t[1], t[2], t[3], t[4]}
    <2>1. \A k : k \in 1 .. 4 <=> k = 1 \/ k = 2 \/ k = 3 \/ k = 4
      OBVIOUS
    <2> QED BY <1>1, <2>1 DEF ToSet
  <1>4. ToSet(u) = Dirs /\ ToSet(t) = Dirs
    BY <1>2, <1>3 DEF Dirs
  <1> QED BY <1>1, <1>4 DEF Order, u, t

LEMMA NextPlace ==
    \A n \in Nat : /\ \A k \in 1 .. n : k \in 1 .. n + 1
                   /\ n + 1 \in 1 .. n + 1
                   /\ \A k \in 1 .. n + 1 : k \in 1 .. n \/ k = n + 1
  <1> QED OBVIOUS

(* A list with one more element.                                           *)
LEMMA ListWithOneMore ==
    ASSUME NEW S, NEW s \in Seq(S), NEW x \in S
    PROVE  Append(s, x) \in Seq(S) /\ ToSet(Append(s, x)) = ToSet(s) \cup {x} /\ ToSet(s) \subseteq S
  <1>1. /\ Append(s, x) \in Seq(S) /\ Len(Append(s, x)) = Len(s) + 1 /\ Len(s) \in Nat
        /\ DOMAIN s = 1 .. Len(s) /\ DOMAIN Append(s, x) = 1 .. Len(s) + 1
        /\ \A k \in 1 .. Len(s) : Append(s, x)[k] = s[k] /\ s[k] \in S
        /\ Append(s, x)[Len(s) + 1] = x
    OBVIOUS
  <1>2. /\ \A k \in 1 .. Len(s) : k \in 1 .. Len(s) + 1
        /\ Len(s) + 1 \in 1 .. Len(s) + 1
        /\ \A k \in 1 .. Len(s) + 1 : k \in 1 .. Len(s) \/ k = Len(s) + 1
    <2>1. Len(s) \in Nat
      BY LenProperties
    <2> QED BY <2>1, NextPlace
  <1> HIDE DEF Append
  <1> QED BY <1>1, <1>2 DEF ToSet

(* The top of a stack, and the stack with another top.                     *)
LEMMA TopOfStack ==
    ASSUME NEW S, NEW s \in Seq(S), s # <<>>
    PROVE  /\ Len(s) \in Nat \ {0} /\ DOMAIN s = 1 .. Len(s) /\ Last(s) = s[Len(s)] /\ Last(s) \in S
           /\ Front(s) \in Seq(S) /\ Len(Front(s)) = Len(s) - 1
           /\ \A k \in 1 .. Len(s) - 1 : Front(s)[k] = s[k]
           /\ \A f \in S : /\ Append(Front(s), f) \in Seq(S) /\ DOMAIN Append(Front(s), f) = 1 .. Len(s)
                           /\ Append(Front(s), f)[Len(s)] = f
                           /\ \A k \in 1 .. Len(s) - 1 : Append(Front(s), f)[k] = s[k]
  <1>1. Len(s) \in Nat \ {0} /\ DOMAIN s = 1 .. Len(s) /\ Last(s) = s[Len(s)] /\ Last(s) \in S
    BY DEF Last
  <1>2. /\ Front(s) \in Seq(S) /\ Len(Front(s)) = Len(s) - 1
        /\ \A k \in 1 .. Len(s) - 1 : Front(s)[k] = s[k]
    <2>1. Front(s) = SubSeq(s, 1, Len(s) - 1)
      BY DEF Front
    <2> QED BY <1>1, <2>1
  <1>3. ASSUME NEW f \in S
        PROVE  /\ Append(Front(s), f) \in Seq(S) /\ DOMAIN Append(Front(s), f) = 1 .. Len(s)
               /\ Append(Front(s), f)[Len(s)] = f
               /\ \A k \in 1 .. Len(s) - 1 : Append(Front(s), f)[k] = s[k]
    <2> DEFINE g == Front(s)
    <2>1. g \in Seq(S) /\ Len(g) = Len(s) - 1 /\ \A k \in 1 .. Len(s) - 1 : g[k] = s[k]
      BY <1>2
    <2> HIDE DEF g
    <2>2. /\ Append(g, f) \in Seq(S) /\ DOMAIN Append(g, f) = 1 .. Len(g) + 1
          /\ Append(g, f)[Len(g) + 1] = f /\ \A k \in 1 .. Len(g) : Append(g, f)[k] = g[k]
      BY <2>1
    <2>3. Len(g) + 1 = Len(s)
      BY <1>1, <2>1
    <2> QED BY <2>1, <2>2, <2>3 DEF g
  <1> QED BY <1>1, <1>2, <1>3

(* A walk that takes the next direction of its top leaves pending what was,*)
(* but for that direction.                                                 *)
LEMMA TriedPending ==
    ASSUME NEW s \in Seq(FrameSet), s # <<>>, Last(s).todo # <<>>,
           NEW t, t = [Last(s) EXCEPT !.todo = Tail(@)]
    PROVE  /\ t \in FrameSet /\ t.cell = Last(s).cell
           /\ Last(s).cell \in Cells /\ Head(Last(s).todo) \in Dirs
           /\ \A c, d : Pending(s, c, d) =>
                  \/ Pending(Append(Front(s), t), c, d)
                  \/ c = Last(s).cell /\ d = Head(Last(s).todo)
  <1> DEFINE top == Last(s)
             n == Len(s)
             new == Append(Front(s), t)
  <1>1. n \in Nat \ {0} /\ DOMAIN s = 1 .. n /\ top = s[n] /\ top \in FrameSet
    BY TopOfStack
  <1>2. top.cell \in Cells /\ top.todo \in Seq(Dirs)
    BY <1>1 DEF FrameSet
  <1>3. /\ Head(top.todo) \in Dirs /\ Tail(top.todo) \in Seq(Dirs)
        /\ \A d \in ToSet(top.todo) : d = Head(top.todo) \/ d \in ToSet(Tail(top.todo))
    <2> DEFINE q == top.todo
    <2>1. q \in Seq(Dirs) /\ q # <<>>
      BY <1>2
    <2> HIDE DEF q
    <2>2. /\ Head(q) = q[1] /\ Head(q) \in Dirs /\ Tail(q) \in Seq(Dirs)
          /\ Len(q) \in Nat /\ DOMAIN q = 1 .. Len(q) /\ DOMAIN Tail(q) = 1 .. Len(q) - 1
          /\ \A k \in 1 .. Len(q) - 1 : Tail(q)[k] = q[k + 1]
      BY <2>1
    <2>3. ASSUME NEW k \in 1 .. Len(q), k # 1 PROVE q[k] \in ToSet(Tail(q))
      <3>1. k - 1 \in 1 .. Len(q) - 1 /\ (k - 1) + 1 = k
        BY <2>2, <2>3
      <3>2. Tail(q)[k - 1] = q[k]
        BY <2>2, <3>1
      <3> QED BY <2>2, <3>1, <3>2 DEF ToSet
    <2>4. \A d \in ToSet(q) : d = Head(q) \/ d \in ToSet(Tail(q))
      BY <2>2, <2>3 DEF ToSet
    <2> QED BY <2>2, <2>4 DEF q
  <1>4. t \in FrameSet /\ t.cell = top.cell /\ t.todo = Tail(top.todo)
    BY <1>1, <1>2, <1>3 DEF FrameSet
  <1>5. DOMAIN new = 1 .. n /\ new[n] = t /\ \A k \in 1 .. n - 1 : new[k] = s[k]
    BY <1>4, TopOfStack
  <1>6. ASSUME NEW c, NEW d, Pending(s, c, d), ~(c = top.cell /\ d = Head(top.todo))
        PROVE  Pending(new, c, d)
    <2>1. PICK k \in 1 .. n : s[k].cell = c /\ d \in ToSet(s[k].todo)
      BY <1>1, <1>6 DEF Pending
    <2> HIDE DEF new, n
    <2>2. CASE k = n
      <3>1. t.cell = c /\ d \in ToSet(t.todo)
        BY <1>1, <1>3, <1>4, <1>6, <2>1, <2>2
      <3>2. n \in DOMAIN new /\ new[n] = t
        <4>1. n \in 1 .. n
          BY <1>1
        <4> QED BY <1>5, <4>1
      <3> QED BY <3>1, <3>2 DEF Pending
    <2>3. CASE k # n
      <3>1. k \in 1 .. n - 1
        BY <1>1, <2>3
      <3>2. new[k] = s[k] /\ k \in DOMAIN new
        BY <1>5, <3>1
      <3> QED BY <2>1, <3>2 DEF Pending
    <2> QED BY <2>2, <2>3
  <1> QED BY <1>2, <1>3, <1>4, <1>6

(* The calls that end at once.                                             *)
LEMMA NewLayer ==
    /\ LayerAlloc \in LayerSet /\ BarriersAsLaid(LayerAlloc, {})
    /\ \A l \in LayerSet : l.left_barrier = {} /\ l.bottom_barrier = {} => BarriersAsLaid(l, {})
  <1>1. [c \in Cells |-> [d \in Dirs |-> 0]] \in [Cells -> [Dirs -> Int]] /\ [c \in Cells |-> 0] \in [Cells -> Int]
    OBVIOUS
  <1> QED BY <1>1 DEF LayerAlloc, LayerSet, BarriersAsLaid

LEMMA AtOnce ==
    ASSUME WalkShape, walk' = NoWalk, client_layer' \in LayerSet, BarriersAsLaid(client_layer', laid')
    PROVE  LInv'
  <1>1. "op" \in DOMAIN walk' /\ walk'.op = "none"
    BY DEF NoWalk
  <1> QED BY <1>1 DEF LInv, WalkShape, Flooding, UpdatesConnected

LEMMA LoadKeeps ==
    ASSUME WalkShape, NEW layout \in Layouts, Load(layout)
    PROVE  LInv'
  <1> DEFINE places == {k \in DOMAIN layout : layout[k] > 0}
  <1>1. \A k \in places \cap (1 .. NX * NY) : layout[k] \in Int
    BY LayerCallsAssumption
  <1>2. /\ Loaded(layout) \in LayerSet
        /\ SameBarriers(LayerAlloc, Loaded(layout))
    <2> HIDE DEF places
    <2>1. /\ AfterRows(LayerAlloc, places, layout) \in LayerSet
          /\ SameBarriers(LayerAlloc, AfterRows(LayerAlloc, places, layout))
      BY <1>1, NewLayer, RowsSet
    <2> QED BY <2>1 DEF Loaded, places
  <1>3. Loaded(layout).left_barrier = {} /\ Loaded(layout).bottom_barrier = {}
    BY <1>2 DEF SameBarriers, LayerAlloc
  <1>4. BarriersAsLaid(Loaded(layout), {})
    BY <1>2, <1>3, NewLayer
  <1> QED BY <1>2, <1>4, AtOnce DEF Load, Ready

LEMMA SameAsLaid ==
    ASSUME NEW l, NEW m, NEW sides, BarriersAsLaid(l, sides), SameBarriers(l, m)
    PROVE  BarriersAsLaid(m, sides)
  <1> QED BY DEF BarriersAsLaid, SameBarriers

LEMMA CellsKeep ==
    ASSUME WalkShape,
           \/ \E c \in Cells, v \in Values : Set(c, v)
           \/ \E old, new \in Values : Replace(old, new)
           \/ \E v \in Values : Assign(v)
    PROVE  LInv'
  <1>1. walk' = NoWalk /\ laid' = laid
    BY DEF Set, Replace, Assign, ChangingCells, Ready
  <1>2. client_layer' \in LayerSet /\ SameBarriers(client_layer, client_layer')
    <2>1. CASE \E c \in Cells, v \in Values : Set(c, v)
      <3>1. PICK c \in Cells, v \in Values : Set(c, v)
        BY <2>1
      <3>2. v \in Int /\ client_layer \in LayerSet /\ client_layer' = IsetCellValue(client_layer, c, v)
        BY <3>1, LayerCallsAssumption DEF Set, WalkShape
      <3> QED BY <3>2, CellSet
    <2>2. CASE \E old, new \in Values : Replace(old, new)
      <3>1. PICK old \in Values, new \in Values : Replace(old, new)
        BY <2>2
      <3> DEFINE places == {k \in DOMAIN RowOrder : client_layer.value[RowOrder[k]] = old}
                 number == [k \in DOMAIN RowOrder |-> new]
      <3>2. \A k \in places \cap (1 .. NX * NY) : number[k] \in Int
        BY LayerCallsAssumption
      <3>3. client_layer' = AfterRows(client_layer, places, number) /\ client_layer \in LayerSet
        BY <3>1 DEF Replace, ReplaceCellValues, WalkShape
      <3> HIDE DEF places, number
      <3> QED BY <3>2, <3>3, RowsSet
    <2>3. CASE \E v \in Values : Assign(v)
      <3>1. PICK v \in Values : Assign(v)
        BY <2>3
      <3> DEFINE values == [c \in Cells |-> v]
                 sum == v * NX * NY
      <3>2. v \in Int /\ values \in [Cells -> Int] /\ sum \in Int /\ LayerAlloc.edges \in [Cells -> [Dirs -> Int]]
        BY LayerCallsAssumption, LayerAssumption, NewLayer DEF LayerSet
      <3>3. client_layer' = [client_layer EXCEPT !.value = values, !.edges = LayerAlloc.edges, !.cell_sum = sum]
        BY <3>1 DEF Assign, AssignValue
      <3>4. client_layer \in LayerSet
        BY DEF WalkShape
      <3> HIDE DEF values, sum
      <3> QED BY <3>2, <3>3, <3>4 DEF LayerSet, SameBarriers
    <2> QED BY <2>1, <2>2, <2>3
  <1>3. BarriersAsLaid(client_layer', laid')
    BY <1>1, <1>2, SameAsLaid DEF WalkShape
  <1> QED BY <1>1, <1>2, <1>3, AtOnce

LEMMA BarrierKeeps ==
    ASSUME WalkShape, NEW line \in BarrierLines, AddInterpBarrier(line[1], line[2])
    PROVE  LInv'
  <1>1. line[1] \in Corners /\ line[2] \in Corners
    BY LayerCallsAssumption
  <1>2. PICK way \in Staircases(line[1], line[2]) :
            /\ client_layer' = AddBarriers(client_layer, way)
            /\ laid' = laid \cup UNION {SidesBetween(side[1], side[2]) : side \in way}
    BY DEF AddInterpBarrier
  <1>3. \A side \in way : Straight(side) /\ side = <<side[1], side[2]>>
    BY <1>1, StaircaseStraight
  <1>4. client_layer' \in LayerSet /\ BarriersAsLaid(client_layer', laid')
    BY <1>2, <1>3, BarriersPut DEF WalkShape
  <1>5. walk' = NoWalk
    BY DEF AddInterpBarrier, ChangingCells, Ready
  <1> QED BY <1>4, <1>5, AtOnce

(* A walk begins: its cell is entered, and all directions are to be tried. *)
LEMMA WalkBegins ==
    ASSUME WalkShape, NEW c \in Cells, NEW op \in {"update", "content"}, NEW new \in SUBSET Int,
           StartWalk(op, c, new), op = "update" => \E v \in new : new = {v} /\ v # client_layer.value[c]
    PROVE  LInv'
  <1> DEFINE frame == [cell |-> c, todo |-> Order(op)]
             first == CHOOSE v \in new : TRUE
  <1>1. client_layer \in LayerSet /\ BarriersAsLaid(client_layer, laid) /\ laid' = laid
    BY DEF WalkShape, StartWalk
  <1>2. /\ frame \in FrameSet /\ frame.cell = c /\ ToSet(frame.todo) = Dirs
        /\ <<frame>> \in Seq(FrameSet) /\ <<c>> \in Seq(Cells) /\ ToSet(<<c>>) = {c}
        /\ DOMAIN <<frame>> = {1} /\ <<frame>>[1] = frame
    BY OrderHasAll DEF FrameSet, ToSet
  <1> HIDE DEF frame
  <1>3. walk' = [op |-> op, start |-> c, old |-> client_layer.value[c], new |-> new,
                 before |-> client_layer.value, list |-> <<c>>, stack |-> <<frame>>]
    BY DEF StartWalk, frame
  <1>4. /\ client_layer' = Entered(client_layer, new, c)
        /\ new # {} => first \in Int
    BY DEF StartWalk
  <1>5. client_layer' \in LayerSet /\ SameBarriers(client_layer, client_layer')
    <2>1. CASE new = {}
      BY <1>1, <1>4, <2>1 DEF Entered, SameBarriers
    <2>2. CASE new # {}
      <3>1. client_layer' = IsetCellValue(client_layer, c, first) /\ first \in Int
        BY <1>4, <2>2 DEF Entered
      <3> HIDE DEF first
      <3> QED BY <1>1, <3>1, CellSet
    <2> QED BY <2>1, <2>2
  <1>6. WalkShape'
    <2>1. BarriersAsLaid(client_layer', laid')
      BY <1>1, <1>5, SameAsLaid
    <2> QED BY <1>2, <1>3, <1>5, <2>1 DEF WalkShape, WalkFields
  <1>7. UpdatesConnected'
    BY <1>3 DEF UpdatesConnected
  <1>8. CASE op = "update"
    <2>1. PICK v \in new : new = {v} /\ v # client_layer.value[c]
      BY <1>8
    <2> DEFINE values == client_layer.value
    <2>2. v \in Int /\ values \in [Cells -> Int]
      BY <1>1, <2>1 DEF LayerSet
    <2>3. client_layer' = IsetCellValue(client_layer, c, v)
      BY <1>4, <2>1 DEF Entered
    <2>4. client_layer'.value = [values EXCEPT ![c] = v]
      BY <1>1, <2>2, <2>3, CellSet
    <2> HIDE DEF values
    <2>5. /\ walk'.op = "update" /\ walk'.start = c /\ walk'.old = values[c] /\ walk'.new = {v}
          /\ walk'.before = values /\ walk'.list = <<c>> /\ walk'.stack = <<frame>>
      BY <1>3, <1>8, <2>1 DEF values
    <2>6. NewValue' = v /\ Met' = {c}
      BY <1>2, <2>5 DEF NewValue, Met
    <2>7. c \in Flood'
      <3>1. Flood' = InContact(c, Area(values, c))
        BY <1>1, <2>5 DEF Flood, Old, InContact, Open
      <3>2. Area(values, c) \in SUBSET Cells /\ c \in Area(values, c)
        BY DEF Area
      <3>3. c \in InContact(c, Area(values, c))
        BY <3>2, InContactCloses
      <3> QED BY <3>1, <3>3
    <2>8. \A n \in Cells : client_layer'.value[n] = IF n \in Met' THEN NewValue' ELSE walk'.before[n]
      BY <2>2, <2>4, <2>5, <2>6
    <2>9. \A n \in Met', d \in Dirs : Pending(walk'.stack, n, d)
      BY <1>2, <2>5, <2>6 DEF Pending
    <2>10. \A k \in DOMAIN walk'.stack : walk'.stack[k].cell \in Met'
      BY <1>2, <2>5, <2>6
    <2>11. v # values[c]
      BY <2>1 DEF values
    <2> QED BY <1>6, <1>7, <2>2, <2>5, <2>6, <2>7, <2>8, <2>9, <2>10, <2>11 DEF LInv, Flooding
  <1>9. CASE op # "update"
    <2>1. walk'.op # "update"
      BY <1>3, <1>9
    <2> QED BY <1>6, <1>7, <2>1 DEF LInv, Flooding
  <1> QED BY <1>8, <1>9

(* One direction of a walk is tried.                                       *)
LEMMA VisitKeeps ==
    ASSUME LInv, Visit
    PROVE  LInv'
  <1> DEFINE s == walk.stack
             tried == Tried
             d == Head(Top.todo)
             n == Neighbour(Top.cell, d)
             frame == [cell |-> n, todo |-> Order(walk.op)]
             kept == Append(Front(s), tried)
             first == CHOOSE v \in walk.new : TRUE
  <1>1. /\ walk.op \in {"update", "content"} /\ s # <<>> /\ Top.todo # <<>>
        /\ client_layer \in LayerSet /\ BarriersAsLaid(client_layer, laid) /\ laid' = laid
        /\ DOMAIN walk = WalkFields /\ walk.new \in SUBSET Int /\ walk.list \in Seq(Cells)
        /\ s \in Seq(FrameSet) /\ Top = Last(s)
    BY DEF Visit, LInv, WalkShape, Top
  <1>2. /\ tried \in FrameSet /\ tried.cell = Top.cell /\ Top.cell \in Cells /\ d \in Dirs
        /\ \A c, e : Pending(s, c, e) => Pending(kept, c, e) \/ (c = Top.cell /\ e = d)
    <2>1. /\ tried = [Last(s) EXCEPT !.todo = Tail(@)] /\ Top = Last(s)
          /\ s \in Seq(FrameSet) /\ s # <<>> /\ Last(s).todo # <<>>
      BY <1>1 DEF Tried
    <2> HIDE DEF s, tried
    <2>2. /\ tried \in FrameSet /\ tried.cell = Last(s).cell
          /\ Last(s).cell \in Cells /\ Head(Last(s).todo) \in Dirs
          /\ \A c, e : Pending(s, c, e) =>
                 \/ Pending(Append(Front(s), tried), c, e)
                 \/ c = Last(s).cell /\ e = Head(Last(s).todo)
      BY <2>1, TriedPending
    <2> QED BY <2>1, <2>2
  <1>3. /\ kept \in Seq(FrameSet) /\ DOMAIN kept = 1 .. Len(s) /\ DOMAIN s = 1 .. Len(s)
        /\ Len(s) \in Nat \ {0} /\ Top = s[Len(s)]
        /\ kept[Len(s)] = tried /\ \A k \in 1 .. Len(s) - 1 : kept[k] = s[k]
    <2>1. s \in Seq(FrameSet) /\ s # <<>> /\ Top = Last(s) /\ tried \in FrameSet
      BY <1>1, <1>2
    <2> HIDE DEF s, tried, kept
    <2>2. /\ Len(s) \in Nat \ {0} /\ DOMAIN s = 1 .. Len(s) /\ Last(s) = s[Len(s)]
          /\ \A f \in FrameSet : /\ Append(Front(s), f) \in Seq(FrameSet)
                                 /\ DOMAIN Append(Front(s), f) = 1 .. Len(s)
                                 /\ Append(Front(s), f)[Len(s)] = f
                                 /\ \A k \in 1 .. Len(s) - 1 : Append(Front(s), f)[k] = s[k]
      BY <2>1, TopOfStack
    <2> QED BY <2>1, <2>2 DEF kept
  <1>4. ASSUME walk.op = "update"
        PROVE  \A k \in DOMAIN kept : kept[k].cell \in Met
    <2>1. \A k \in 1 .. Len(s) : s[k].cell \in Met
      BY <1>1, <1>3, <1>4 DEF LInv, Flooding
    <2> HIDE DEF s, kept, tried
    <2>2. ASSUME NEW k \in 1 .. Len(s) PROVE kept[k].cell \in Met
      <3>0. Len(s) \in Nat \ {0}
        BY <1>3
      <3>1. k = Len(s) \/ k \in 1 .. Len(s) - 1
        BY <3>0
      <3> QED BY <1>2, <1>3, <2>1, <3>1
    <2> QED BY <1>3, <2>2
  <1>5. Visit => IF GoesOn(Top.cell, n)
                 THEN /\ client_layer' = Entered(client_layer, walk.new, n)
                      /\ walk' = [walk EXCEPT !.list = Append(@, n), !.stack = Append(kept, frame)]
                 ELSE /\ walk' = [walk EXCEPT !.stack = kept]
                      /\ client_layer' = client_layer
    BY DEF Visit
  <1>6. CASE ~GoesOn(Top.cell, n)
    <2>1. walk' = [walk EXCEPT !.stack = kept] /\ client_layer' = client_layer
      BY <1>5, <1>6
    <2> HIDE DEF kept, s, n
    <2>2. /\ DOMAIN walk' = DOMAIN walk /\ walk'.op = walk.op /\ walk'.start = walk.start
          /\ walk'.old = walk.old /\ walk'.new = walk.new /\ walk'.before = walk.before
          /\ walk'.list = walk.list /\ walk'.stack = kept
      BY <1>1, <2>1 DEF WalkFields
    <2>3. WalkShape' /\ UpdatesConnected'
      BY <1>1, <1>3, <2>1, <2>2 DEF WalkShape, UpdatesConnected, WalkFields
    <2>4. ASSUME walk.op = "update" PROVE Flooding'
      <3>1. Met' = Met /\ NewValue' = NewValue /\ Old' = Old
        BY <2>2 DEF Met, NewValue, Old
      <3>2. Flood' = Flood /\ \A c, m : Open(c, m)' <=> Open(c, m)
        BY <1>1, <2>2, <3>1 DEF Flood, InContact, Open
      <3>3. Flooding!2
        BY <2>4 DEF LInv, Flooding
      <3>4. n \in Old /\ Open(Top.cell, n) => n \in Met
        <4>1. SUFFICES ASSUME n \in Old, Open(Top.cell, n) PROVE n \in Met
          OBVIOUS
        <4>2. n \in Cells /\ walk.before[n] = walk.old
          BY <3>3, <4>1 DEF Old, Area
        <4>3. CellContact(client_layer, Top.cell, n)
          BY <1>1, <1>2, <4>1, <4>2, ContactIsOpen DEF n
        <4>4. client_layer.value[n] # walk.old
          BY <1>6, <2>4, <4>2, <4>3 DEF GoesOn
        <4> QED BY <3>3, <4>2, <4>4
      <3>5. ASSUME NEW c \in Met, NEW e \in Dirs, Neighbour(c, e) \in Old, Open(c, Neighbour(c, e))
            PROVE  Neighbour(c, e) \in Met \/ Pending(kept, c, e)
        <4>1. Neighbour(c, e) \in Met \/ Pending(s, c, e)
          BY <3>3, <3>5 DEF s
        <4>2. CASE Pending(s, c, e)
          BY <1>2, <3>4, <3>5, <4>2 DEF n
        <4> QED BY <4>1, <4>2
      <3>6. \A k \in DOMAIN kept : kept[k].cell \in Met
        BY <1>4, <2>4
      <3> QED BY <2>1, <2>2, <3>1, <3>2, <3>3, <3>5, <3>6 DEF Flooding
    <2> QED BY <2>2, <2>3, <2>4 DEF LInv, Flooding
  <1>7. CASE GoesOn(Top.cell, n)
    <2> DEFINE now == Append(kept, frame)
    <2>0. n \in Cells
      BY <1>7 DEF GoesOn
    <2>1. /\ walk' = [walk EXCEPT !.list = Append(@, n), !.stack = now]
          /\ client_layer' = Entered(client_layer, walk.new, n)
      BY <1>5, <1>7
    <2>2. frame \in FrameSet /\ frame.cell = n /\ ToSet(frame.todo) = Dirs
      BY <2>0, OrderHasAll DEF FrameSet
    <2> HIDE DEF kept, s, n, frame
    <2>3. /\ now \in Seq(FrameSet) /\ DOMAIN now = 1 .. Len(s) + 1 /\ now[Len(s) + 1] = frame
          /\ \A k \in 1 .. Len(s) : now[k] = kept[k]
      <3>1. Len(kept) = Len(s)
        BY <1>3
      <3> QED BY <1>3, <2>2, <3>1
    <2> HIDE DEF now
    <2>4. /\ DOMAIN walk' = DOMAIN walk /\ walk'.op = walk.op /\ walk'.start = walk.start
          /\ walk'.old = walk.old /\ walk'.new = walk.new /\ walk'.before = walk.before
          /\ walk'.list = Append(walk.list, n) /\ walk'.stack = now
      BY <1>1, <2>1 DEF WalkFields
    <2>5. walk'.list \in Seq(Cells) /\ Met' = Met \cup {n}
      BY <1>1, <2>0, <2>4, ListWithOneMore DEF Met
    <2>6. /\ client_layer' \in LayerSet /\ SameBarriers(client_layer, client_layer')
          /\ walk.new # {} => client_layer'.value = [client_layer.value EXCEPT ![n] = first]
      <3>1. CASE walk.new = {}
        BY <1>1, <2>1, <3>1 DEF Entered, SameBarriers
      <3>2. CASE walk.new # {}
        <4>1. client_layer' = IsetCellValue(client_layer, n, first) /\ first \in Int
          BY <1>1, <2>1, <3>2 DEF Entered
        <4> HIDE DEF first
        <4> QED BY <1>1, <2>0, <4>1, CellSet
      <3> QED BY <3>1, <3>2
    <2>7. WalkShape' /\ UpdatesConnected'
      <3>1. BarriersAsLaid(client_layer', laid')
        BY <1>1, <2>6, SameAsLaid
      <3> QED BY <1>1, <2>3, <2>4, <2>5, <2>6, <3>1 DEF WalkShape, UpdatesConnected, WalkFields
    <2>8. ASSUME walk.op = "update" PROVE Flooding'
      <3>1. NewValue' = NewValue /\ Old' = Old
        BY <2>4 DEF NewValue, Old
      <3>2. Flood' = Flood /\ \A c, m : Open(c, m)' <=> Open(c, m)
        BY <1>1, <2>4, <3>1 DEF Flood, InContact, Open
      <3>3. Flooding!2
        BY <2>8 DEF LInv, Flooding
      <3>4. client_layer.value[n] = walk.old /\ CellContact(client_layer, Top.cell, n)
        BY <1>7, <2>8 DEF GoesOn
      <3>5. n \notin Met /\ walk.before[n] = walk.old /\ n \in Old
        BY <2>0, <3>3, <3>4 DEF Old, Area
      <3>6. Top.cell \in Met
        <4>1. Len(s) \in DOMAIN s /\ s[Len(s)] = Top
          BY <1>3
        <4> QED BY <3>3, <4>1 DEF s
      <3>7. Open(Top.cell, n)
        BY <1>1, <1>2, <2>0, <3>4, ContactIsOpen DEF n
      <3>8. n \in Flood
        <4>1. Old \in SUBSET Cells /\ walk.start \in Old
          BY <3>3 DEF Old, Area
        <4>2. \A r \in Flood, m \in Old : Open(r, m) => m \in Flood
          BY <4>1, InContactCloses DEF Flood
        <4> QED BY <3>3, <3>5, <3>6, <3>7, <4>2
      <3>9. \A c \in Cells : client_layer'.value[c] = IF c \in Met' THEN NewValue ELSE walk.before[c]
        <4>1. client_layer'.value = [client_layer.value EXCEPT ![n] = NewValue]
          BY <2>6, <3>3 DEF NewValue
        <4>2. client_layer.value \in [Cells -> Int]
          BY <1>1 DEF LayerSet
        <4> QED BY <2>5, <3>3, <4>1, <4>2
      <3>10. \A k \in DOMAIN now : now[k].cell \in Met'
        <4>1. \A k \in 1 .. Len(s) : now[k].cell \in Met
          BY <1>3, <1>4, <2>3, <2>8
        <4>2. \A k \in 1 .. Len(s) + 1 : k = Len(s) + 1 \/ k \in 1 .. Len(s)
          BY <1>3
        <4> QED BY <2>2, <2>3, <2>5, <4>1, <4>2
      <3>11. \A c, e : Pending(kept, c, e) \/ (c = n /\ e \in Dirs) => Pending(now, c, e)
        <4>1. \A k \in 1 .. Len(s) : k \in 1 .. Len(s) + 1
          BY <1>3
        <4>2. Len(s) + 1 \in 1 .. Len(s) + 1
          BY <1>3
        <4> QED BY <1>3, <2>2, <2>3, <4>1, <4>2 DEF Pending
      <3>12. ASSUME NEW c \in Met', NEW e \in Dirs, Neighbour(c, e) \in Old, Open(c, Neighbour(c, e))
             PROVE  Neighbour(c, e) \in Met' \/ Pending(now, c, e)
        <4>1. CASE c = n
          BY <3>11, <4>1
        <4>2. CASE c # n
          <5>1. c \in Met
            BY <2>5, <4>2
          <5>2. Neighbour(c, e) \in Met \/ Pending(s, c, e)
            BY <3>3, <3>12, <5>1 DEF s
          <5>3. CASE Pending(s, c, e)
            <6>1. Pending(kept, c, e) \/ Neighbour(c, e) = n
              BY <1>2, <5>3 DEF n
            <6> QED BY <2>5, <3>11, <6>1
          <5> QED BY <2>5, <5>2, <5>3
        <4> QED BY <4>1, <4>2
      <3>13. walk.start \in Met' /\ Met' \subseteq Flood
        BY <2>5, <3>3, <3>8
      <3> HIDE DEF now, frame, tried, d
      <3> QED BY <2>4, <3>1, <3>2, <3>3, <3>9, <3>10, <3>12, <3>13 DEF Flooding
    <2> QED BY <2>4, <2>7, <2>8 DEF LInv, Flooding
  <1> QED BY <1>6, <1>7

(* A cell is done, or the whole walk: nothing is to be tried any more then,*)
(* and what was entered is all that is connected.                          *)
LEMMA LeaveKeeps ==
    ASSUME LInv, Leave
    PROVE  LInv'
  <1> DEFINE s == walk.stack
             shorter == Front(s)
  <1>1. /\ walk.op \in {"update", "content"} /\ s # <<>> /\ Top.todo = <<>>
        /\ client_layer \in LayerSet /\ BarriersAsLaid(client_layer, laid)
        /\ laid' = laid /\ client_layer' = client_layer
        /\ DOMAIN walk = WalkFields /\ walk.new \in SUBSET Int /\ walk.list \in Seq(Cells)
        /\ s \in Seq(FrameSet) /\ Top = Last(s)
    BY DEF Leave, LInv, WalkShape, Top
  <1>2. /\ walk' = IF Len(s) > 1 THEN [walk EXCEPT !.stack = shorter]
                   ELSE [walk EXCEPT !.stack = <<>>, !.op = IF @ = "update" THEN "updated" ELSE "contents"]
    BY DEF Leave
  <1> HIDE DEF s
  <1>3. /\ Len(s) \in Nat \ {0} /\ DOMAIN s = 1 .. Len(s) /\ Top = s[Len(s)]
        /\ shorter \in Seq(FrameSet) /\ DOMAIN shorter = 1 .. Len(s) - 1
        /\ \A k \in 1 .. Len(s) - 1 : shorter[k] = s[k]
    <2>0. s \in Seq(FrameSet) /\ s # <<>>
      BY <1>1
    <2>1. /\ Len(s) \in Nat \ {0} /\ DOMAIN s = 1 .. Len(s) /\ Last(s) = s[Len(s)]
          /\ shorter \in Seq(FrameSet) /\ Len(shorter) = Len(s) - 1
          /\ \A k \in 1 .. Len(s) - 1 : shorter[k] = s[k]
      BY <2>0, TopOfStack
    <2> HIDE DEF shorter
    <2> QED BY <1>1, <2>1
  <1> HIDE DEF shorter
  <1>4. ASSUME NEW c, NEW d, Pending(s, c, d) PROVE Len(s) > 1 /\ Pending(shorter, c, d)
    <2>0. DOMAIN s = 1 .. Len(s)
      BY <1>3
    <2>1. PICK k \in 1 .. Len(s) : s[k].cell = c /\ d \in ToSet(s[k].todo)
      <3> DEFINE D == 1 .. Len(s)
      <3>1. DOMAIN s = D
        BY <2>0
      <3> HIDE DEF D
      <3>2. \E k \in D : s[k].cell = c /\ d \in ToSet(s[k].todo)
        BY <1>4, <3>1, Zenon DEF Pending
      <3> QED BY <3>2 DEF D
    <2>2. k # Len(s)
      <3>1. ToSet(<<>>) = {}
        BY DEF ToSet
      <3> QED BY <1>1, <1>3, <2>1, <3>1
    <2>3. Len(s) \in Nat
      BY <1>3
    <2>4. k \in 1 .. Len(s) - 1 /\ Len(s) > 1
      BY <2>2, <2>3
    <2> QED BY <1>3, <2>1, <2>4 DEF Pending
  <1>5. CASE Len(s) > 1
    <2>1. walk' = [walk EXCEPT !.stack = shorter]
      BY <1>2, <1>5
    <2>2. /\ DOMAIN walk' = DOMAIN walk /\ walk'.op = walk.op /\ walk'.start = walk.start
          /\ walk'.old = walk.old /\ walk'.new = walk.new /\ walk'.before = walk.before
          /\ walk'.list = walk.list /\ walk'.stack = shorter
      BY <1>1, <2>1 DEF WalkFields
    <2>3. WalkShape' /\ UpdatesConnected'
      BY <1>1, <1>3, <2>2 DEF WalkShape, UpdatesConnected, WalkFields
    <2>4. ASSUME walk.op = "update" PROVE Flooding'
      <3>1. Met' = Met /\ NewValue' = NewValue /\ Old' = Old
        BY <2>2 DEF Met, NewValue, Old
      <3>2. Flood' = Flood /\ \A c, m : Open(c, m)' <=> Open(c, m)
        BY <1>1, <2>2, <3>1 DEF Flood, InContact, Open
      <3>3. Flooding!2
        BY <2>4 DEF LInv, Flooding
      <3>4. \A k \in DOMAIN shorter : shorter[k].cell \in Met
        <4>1. \A k \in 1 .. Len(s) - 1 : k \in DOMAIN s
          BY <1>3
        <4> QED BY <1>3, <3>3, <4>1 DEF s
      <3>5. \A c, d : Pending(s, c, d) => Pending(shorter, c, d)
        BY <1>4
      <3> QED BY <1>1, <2>2, <3>1, <3>2, <3>3, <3>4, <3>5 DEF Flooding, s
    <2> QED BY <2>2, <2>3, <2>4 DEF LInv, Flooding
  <1>6. CASE ~(Len(s) > 1)
    <2>1. walk' = [walk EXCEPT !.stack = <<>>, !.op = IF @ = "update" THEN "updated" ELSE "contents"]
      BY <1>2, <1>6
    <2>2. /\ DOMAIN walk' = DOMAIN walk /\ walk'.start = walk.start
          /\ walk'.new = walk.new /\ walk'.before = walk.before
          /\ walk'.op = IF walk.op = "update" THEN "updated" ELSE "contents"
      BY <1>1, <2>1 DEF WalkFields
    <2>3. WalkShape' /\ Flooding'
      BY <1>1, <2>2 DEF WalkShape, Flooding, WalkFields
    <2>4. ASSUME walk.op = "update" PROVE UpdatesConnected'
      <3>1. Flooding!2
        BY <2>4 DEF LInv, Flooding
      <3>2. Old \in SUBSET Cells /\ walk.start \in Old
        BY <3>1 DEF Old, Area
      <3>3. Flood \subseteq Old
        BY <3>2, InContactCloses DEF Flood
      <3>4. ASSUME NEW r \in Met, NEW m \in Old, Open(r, m) PROVE m \in Met
        <4>1. PICK d \in Dirs : m = Neighbour(r, d)
          BY <3>4 DEF Open, Beside
        <4>2. ~Pending(s, r, d)
          BY <1>4, <1>6
        <4> QED BY <3>1, <3>4, <4>1, <4>2 DEF s
      <3>5. Flood \subseteq Met
        <4>1. Met \in SUBSET Old
          BY <3>1, <3>3
        <4> QED BY <3>1, <3>2, <3>4, <4>1, InContactCloses DEF Flood
      <3>6. Met = Flood
        BY <3>1, <3>5
      <3>7. (InContact(walk.start, Area(walk.before, walk.start)))' = Flood
        BY <1>1, <2>2 DEF Flood, Old, InContact, Open
      <3> QED BY <1>1, <2>2, <3>1, <3>6, <3>7 DEF UpdatesConnected
    <2>5. ASSUME walk.op # "update" PROVE UpdatesConnected'
      BY <2>2, <2>5 DEF UpdatesConnected
    <2> QED BY <2>3, <2>4, <2>5 DEF LInv
  <1> QED BY <1>5, <1>6

(* Going round a block changes no cell.                                    *)
LEMMA OutlineKeeps ==
    ASSUME LInv, Follow \/ \E c \in Cells : TraceBlockEdge(c)
    PROVE  LInv'
  <1>1. client_layer' = client_layer /\ laid' = laid
    BY DEF Follow, TraceBlockEdge
  <1>2. "op" \in DOMAIN walk' /\ walk'.op \in {"outline", "outlined"}
    <2>1. CASE Follow
      <3>1. "op" \in DOMAIN walk /\ walk.op = "outline"
        BY <2>1 DEF LInv, WalkShape, Follow
      <3>2. \/ walk' = [walk EXCEPT !.op = "outlined"]
            \/ walk' = [walk EXCEPT !.op = "outlined", !.throws = TRUE]
            \/ \E next : walk' = [walk EXCEPT !.at = next, !.walked = @ \cup {next}]
        BY <2>1 DEF Follow
      <3> QED BY <3>1, <3>2
    <2>2. CASE \E c \in Cells : TraceBlockEdge(c)
      BY <2>2 DEF TraceBlockEdge
    <2> QED BY <2>1, <2>2
  <1> QED BY <1>1, <1>2 DEF LInv, WalkShape, Flooding, UpdatesConnected

LEMMA LayerStepKeeps ==
    ASSUME LInv, [LayerNext]_layerVars
    PROVE  LInv'
  <1>1. ASSUME NEW layout \in Layouts, Load(layout) PROVE LInv'
    BY <1>1, LoadKeeps DEF LInv
  <1>2. ASSUME NEW c \in Cells, NEW v \in Values, Set(c, v) PROVE LInv'
    BY <1>2, CellsKeep DEF LInv
  <1>3. ASSUME NEW c \in Cells, NEW v \in Values, UpdateConnected(c, v) PROVE LInv'
    <2>1. StartWalk("update", c, {v}) /\ v # client_layer.value[c] /\ {v} \in SUBSET Int
      BY <1>3, LayerCallsAssumption DEF UpdateConnected
    <2> QED BY <2>1, WalkBegins DEF LInv
  <1>4. ASSUME NEW old \in Values, NEW new \in Values, Replace(old, new) PROVE LInv'
    BY <1>4, CellsKeep DEF LInv
  <1>5. ASSUME NEW v \in Values, Assign(v) PROVE LInv'
    BY <1>5, CellsKeep DEF LInv
  <1>6. ASSUME NEW line \in BarrierLines, AddInterpBarrier(line[1], line[2]) PROVE LInv'
    BY <1>6, BarrierKeeps DEF LInv
  <1>7. ASSUME NEW c \in Cells, NEW erase \in BOOLEAN, TraceBlockContent(c, erase) PROVE LInv'
    <2> DEFINE new == IF erase THEN {0} ELSE {}
    <2>1. StartWalk("content", c, new) /\ new \in SUBSET Int
      BY <1>7 DEF TraceBlockContent
    <2> HIDE DEF new
    <2> QED BY <2>1, WalkBegins DEF LInv
  <1>8. ASSUME NEW c \in Cells, TraceBlockEdge(c) PROVE LInv'
    BY <1>8, OutlineKeeps
  <1>9. ASSUME Loop PROVE LInv'
    BY <1>9, VisitKeeps, LeaveKeeps, OutlineKeeps DEF Loop
  <1>10. CASE UNCHANGED layerVars
    <2>1. walk' = walk /\ client_layer' = client_layer /\ laid' = laid
      BY <1>10 DEF layerVars
    <2>2. WalkShape'
      BY <2>1 DEF LInv, WalkShape
    <2>3. Met' = Met /\ NewValue' = NewValue /\ Old' = Old
      BY <2>1 DEF Met, NewValue, Old
    <2>4. Flood' = Flood /\ \A c, n : Open(c, n)' <=> Open(c, n)
      BY <2>1, <2>3 DEF Flood, InContact, Open
    <2>5. Flooding'
      BY <2>1, <2>3, <2>4 DEF LInv, Flooding
    <2>6. UpdatesConnected'
      BY <2>1, <2>4 DEF LInv, UpdatesConnected, Flood, Old
    <2> QED BY <2>2, <2>5, <2>6 DEF LInv
  <1> QED BY <1>1, <1>2, <1>3, <1>4, <1>5, <1>6, <1>7, <1>8, <1>9, <1>10 DEF LayerNext

LEMMA LayerBegins == LayerInit => LInv
  <1> SUFFICES ASSUME LayerInit PROVE LInv
    OBVIOUS
  <1>1. walk = NoWalk /\ client_layer = LayerAlloc /\ laid = {}
    BY DEF LayerInit
  <1>2. "op" \in DOMAIN walk /\ walk.op = "none"
    BY <1>1 DEF NoWalk
  <1> QED BY <1>1, <1>2, NewLayer DEF LInv, WalkShape, Flooding, UpdatesConnected

(* The flood fill of layer.cpp gives the new value to all cells that are   *)
(* in contact with the first and to no other, on every layer, however it   *)
(* was loaded, changed, and crossed by barriers before.                    *)
THEOREM FillsWhatIsConnected == LayerSpec => []UpdatesConnected
  <1>1. LInv => UpdatesConnected
    BY DEF LInv
  <1> QED BY <1>1, LayerBegins, LayerStepKeeps, PTL DEF LayerSpec
=============================================================================
