------------------------------- MODULE Layer -------------------------------
(***************************************************************************)
(* layer.cpp: one layer of a grid, with a value in each cell and barriers  *)
(* on the lines between cells, and what the operations on a layer compute. *)
(*                                                                         *)
(* Each cell also keeps what lies on each of its four edges: its value,    *)
(* with a sign, where another block begins, and 0 inside its block.        *)
(***************************************************************************)
EXTENDS Integers, Sequences, FiniteSets, SequencesExt

CONSTANTS NX, NY

ASSUME LayerAssumption == NX \in Nat \ {0} /\ NY \in Nat \ {0}

Cells   == {<<i, j>> : i \in 0 .. NX - 1, j \in 0 .. NY - 1}
Corners == {<<i, j>> : i \in 0 .. NX, j \in 0 .. NY}
Dirs    == {"RIGHT", "LEFT", "TOP", "BOTTOM"}

Shift     == [RIGHT |-> <<1, 0>>, LEFT |-> <<-1, 0>>, TOP |-> <<0, 1>>, BOTTOM |-> <<0, -1>>]
Opposite  == [RIGHT |-> "LEFT", LEFT |-> "RIGHT", TOP |-> "BOTTOM", BOTTOM |-> "TOP"]

Neighbour(c, d) == <<c[1] + Shift[d][1], c[2] + Shift[d][2]>>

(* The value of a cell as it stands on its edge d.                         *)
OnEdge(v, d) == IF d \in {"RIGHT", "BOTTOM"} THEN v ELSE -v

LayerAlloc ==
    [value |-> [c \in Cells |-> 0],
     edges |-> [c \in Cells |-> [d \in Dirs |-> 0]],
     left_barrier |-> {}, bottom_barrier |-> {}, cell_sum |-> 0]

(* layer_iset_cell_value: an edge towards a neighbour of the same value is *)
(* cancelled on both sides.  The edge of a neighbour of another value is   *)
(* left as it was.                                                         *)

EdgesWith(l, c, v) ==
    LET same == {d \in Dirs : Neighbour(c, d) \in Cells /\ l.value[Neighbour(c, d)] = v}
        Edge(n, d) ==
            IF n = c THEN IF d \in same THEN 0 ELSE OnEdge(v, d)
            ELSE IF Neighbour(n, d) = c /\ Opposite[d] \in same THEN 0
            ELSE l.edges[n][d]
    IN  [n \in Cells |-> [d \in Dirs |-> Edge(n, d)]]

SumWith(l, c, v) == l.cell_sum + (v - l.value[c])

IsetCellValue(l, c, v) ==
    [l EXCEPT !.value[c] = v, !.cell_sum = SumWith(l, c, v), !.edges = EdgesWith(l, c, v)]

Beside(c, n) == \E d \in Dirs : n = Neighbour(c, d)

(* The cells of an area beside each of its cells.                          *)
Around(area) == [r \in area |-> {c \in area : Beside(r, c)}]

(* What is reached from some cells of an area by steps inside it; near has *)
(* the cells that a step from each leads to.                               *)
Reached(from, area, near) ==
    LET reached[k \in 0 .. Cardinality(area)] ==
            IF k = 0 THEN from
            ELSE LET before == reached[k - 1]
                 IN  before \cup {c \in area : \E r \in before : c \in near[r]}
    IN  reached[Cardinality(area)]

(* The order of the loops over a layer.                                    *)
RowOrder == [k \in 1 .. NX * NY |-> <<(k - 1) % NX, (k - 1) \div NX>>]

(* Some cells in that order.                                               *)
InRowOrder(cells) ==
    LET places == {k \in DOMAIN RowOrder : RowOrder[k] \in cells}
        order  == CHOOSE s \in [1 .. Cardinality(places) -> places] :
                      \A m, n \in DOMAIN s : m < n => s[m] < s[n]
    IN  [n \in DOMAIN order |-> RowOrder[order[n]]]

(* A layer after the cells at some places of that order have been set, one *)
(* by one.                                                                 *)
AfterRows(l, places, number) ==
    LET after[k \in 0 .. NX * NY] ==
            IF k = 0 THEN l
            ELSE LET before == after[k - 1]
                 IN  IF k \in places THEN IsetCellValue(before, RowOrder[k], number[k]) ELSE before
    IN  after[NX * NY]

(* fault_block_layer.cpp: a new layer, with a value where a keyword is     *)
(* positive.                                                               *)
Loaded(kw) == AfterRows(LayerAlloc, {k \in DOMAIN kw : kw[k] > 0}, kw)

(* layer_replace_cell_values                                               *)
ReplaceCellValues(l, old, new) ==
    AfterRows(l, {k \in DOMAIN RowOrder : l.value[RowOrder[k]] = old}, [k \in DOMAIN RowOrder |-> new])

(* layer_assign and layer_clear_cells                                      *)
AssignValue(l, v) ==
    [l EXCEPT !.value = [c \in Cells |-> v],
              !.edges = LayerAlloc.edges,
              !.cell_sum = v * NX * NY]

-----------------------------------------------------------------------------
(* Barriers.                                                               *)

(* layer_add_ijbarrier, for corners in one row or one column: a barrier    *)
(* lies on the left or the bottom of a cell.                               *)
LeastOf(a, b) == IF a < b THEN a ELSE b

Span(a, b) == LeastOf(a, b) .. a + b - LeastOf(a, b) - 1

LeftBarriers(p, q) ==
    IF p[1] = q[1] THEN {<<p[1], j>> : j \in Span(p[2], q[2])} ELSE {}
BottomBarriers(p, q) ==
    IF p[1] = q[1] THEN {} ELSE {<<i, p[2]>> : i \in Span(p[1], q[1])}

AddBarriers(l, sides) ==
    [l EXCEPT !.left_barrier = @ \cup UNION {LeftBarriers(side[1], side[2]) : side \in sides},
              !.bottom_barrier = @ \cup UNION {BottomBarriers(side[1], side[2]) : side \in sides}]

AddIjBarrier(l, p, q) == AddBarriers(l, {<<p, q>>})

(* layer_add_interp_barrier goes from corner to corner, along the side     *)
(* that ends nearer to the line from p to q.  Off is that distance, but    *)
(* for a factor; where both sides end equally near rounding decides.       *)
Off(p, q, c) ==
    LET cross == (q[2] - p[2]) * (c[1] - p[1]) - (q[1] - p[1]) * (c[2] - p[2])
    IN  IF cross < 0 THEN -cross ELSE cross

Towards(a, b) == IF b < a THEN -1 ELSE 1

NextCorners(p, q, c) ==
    LET along  == <<c[1] + Towards(p[1], q[1]), c[2]>>
        upward == <<c[1], c[2] + Towards(p[2], q[2])>>
    IN  {n \in {along, upward} : \A m \in {along, upward} : Off(p, q, n) <= Off(p, q, m)}

(* The sides that lie on a way from p to q, for each way there is: steps   *)
(* of one along the rows and the columns, as many as it takes.             *)
Distance(a, b) == IF a < b THEN b - a ELSE a - b

Staircases(p, q) ==
    LET steps == Distance(p[1], q[1]) + Distance(p[2], q[2])
        Longer(way) == {[at |-> n, sides |-> way.sides \cup {<<way.at, n>>}] : n \in NextCorners(p, q, way.at)}
        ways[k \in 0 .. steps] ==
            IF k = 0 THEN {[at |-> p, sides |-> {}]}
            ELSE UNION {Longer(way) : way \in ways[k - 1]}
    IN  IF p[1] = q[1] \/ p[2] = q[2] THEN {{<<p, q>>}} ELSE {way.sides : way \in ways[steps]}

(* layer_cell_contact                                                      *)

(* Mutant: the barrier of the first cell counts, wherever the second is.   *)
ContactOfFirst(l, c, n) ==
    \/ c[2] = n[2] /\ (c[1] - n[1]) \in {1, -1} /\ c \notin l.left_barrier
    \/ c[1] = n[1] /\ (c[2] - n[2]) \in {1, -1} /\ c \notin l.bottom_barrier

CellContact(l, c, n) ==
    \/ /\ c[2] = n[2] /\ (c[1] - n[1]) \in {1, -1}
       /\ (IF c[1] > n[1] THEN c ELSE n) \notin l.left_barrier
    \/ /\ c[1] = n[1] /\ (c[2] - n[2]) \in {1, -1}
       /\ (IF c[2] > n[2] THEN c ELSE n) \notin l.bottom_barrier

-----------------------------------------------------------------------------
(* The way round a block: a pair of a cell and the edge of it that is      *)
(* followed, with the block to the left.                                   *)

(* The direction in which an edge is followed, and its two ends.           *)
Ahead == [BOTTOM |-> "RIGHT", RIGHT |-> "TOP", TOP |-> "LEFT", LEFT |-> "BOTTOM"]

StartOf(c, d) ==
    LET corner == [BOTTOM |-> <<0, 0>>, RIGHT |-> <<1, 0>>, TOP |-> <<1, 1>>, LEFT |-> <<0, 1>>]
    IN  <<c[1] + corner[d][1], c[2] + corner[d][2]>>
EndOf(c, d) == StartOf(c, Ahead[d])

(* layer_get_global_edge_index refuses an index outside the layer; the     *)
(* edges of cells beyond the last row and column are there and stay 0.     *)
EdgeIndexValid(c, d) ==
    /\ c \in Corners /\ c # <<NX, NY>>
    /\ c[1] = NX => d = "LEFT"
    /\ c[2] = NY => d = "BOTTOM"

EdgeValue(l, c, d) == IF c \in Cells THEN l.edges[c][d] ELSE 0

(* The edges that may come next: of the same cell, of the cell ahead, of   *)
(* the cell diagonally ahead.  The first that carries the value is taken.  *)

(* Mutant: the cell on the diagonal comes first.                           *)
TurnsDiagonalFirst(c, d) ==
    LET ahead == Neighbour(c, Ahead[d])
    IN  << <<Neighbour(ahead, d), Opposite[Ahead[d]]>>, <<c, Ahead[d]>>, <<ahead, d>> >>

Turns(c, d) ==
    LET ahead == Neighbour(c, Ahead[d])
    IN  << <<c, Ahead[d]>>, <<ahead, d>>, <<Neighbour(ahead, d), Opposite[Ahead[d]]>> >>

Throws == <<>>

FollowEdge(l, v, c, d) ==
    LET turns == Turns(c, d)
        Valid(k)   == EdgeIndexValid(turns[k][1], turns[k][2])
        Carries(k) == EdgeValue(l, turns[k][1], turns[k][2]) = OnEdge(v, turns[k][2])
        Taken(k)   == /\ \A m \in 1 .. k : Valid(m)
                      /\ Carries(k) /\ \A m \in 1 .. k - 1 : ~Carries(m)
    IN  IF \E k \in 1 .. 3 : Taken(k) THEN turns[CHOOSE k \in 1 .. 3 : Taken(k)] ELSE Throws

(* layer_find_edge goes to the right until an edge carries the value, and  *)
(* layer_trace_block_edge takes the first such edge in a fixed order.      *)
CellOnEdge(l, c) == \E d \in Dirs : l.edges[c][d] = l.value[c]

FindEdge(l, c) ==
    LET found == {i \in c[1] .. NX - 1 : CellOnEdge(l, <<i, c[2]>>)}
        at    == <<CHOOSE i \in found : \A k \in found : i <= k, c[2]>>
        first == SelectInSeq(<<"BOTTOM", "RIGHT", "TOP", "LEFT">>,
                             LAMBDA d : l.edges[at][d] = OnEdge(l.value[c], d))
    IN  IF found = {} \/ first = 0 THEN Throws
        ELSE <<at, <<"BOTTOM", "RIGHT", "TOP", "LEFT">>[first]>>
=============================================================================
