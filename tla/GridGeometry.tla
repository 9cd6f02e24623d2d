---------------------------- MODULE GridGeometry ----------------------------
(***************************************************************************)
(* Where the cells of a grid are (rd_grid.cpp).  A grid is made from       *)
(* pillars and depths (COORD and ZCORN of an EGRID file or of a client),   *)
(* from corners (a GRID file) or from three vectors, moved by map axes,    *)
(* copied, renumbered, written and loaded again; a client asks which cell  *)
(* a point is in.                                                          *)
(*                                                                         *)
(* Coordinates are small integers, and pillars cross the depths that occur *)
(* at integers.  Numbers of active cells, units, local grids and           *)
(* connections are those of GridIndex and GridFile.                        *)
(***************************************************************************)
EXTENDS CellGeometry

CONSTANTS
    Sources,        \* what grids are made from: the content of files, or vectors
    Removed,        \* sets of cells that a client makes inactive
    Places,         \* points that a client searches for
    Starts,         \* where it says that a search should start; -1 is anywhere
    MaxChanges      \* bound: calls that make, change or save a grid

VARIABLES
    grid,       \* the grid: [dims, cells, coord, mapaxes, use_mapaxes], or None
    file,       \* the file that was written last, or None
    saved,      \* ghost: the grid that it was written from, or None
    changes,    \* how many calls made, changed or saved a grid
    call        \* the call made last: [op, args, result]

vars == <<grid, file, saved, changes, call>>

Called(op, args, result) == call' = [op |-> op, args |-> args, result |-> result]

-----------------------------------------------------------------------------
(* Making a grid.                                                          *)

(* Where a pillar, given by its ends, has depth z.                         *)
pillar_cross_planes(pillar, z) ==
    LET p0 == pillar[1]
        e  == Sub(pillar[2], p0)
        At(n) == IF e[3] = 0 THEN p0[n] ELSE p0[n] + (((z - p0[3]) * e[n]) \div e[3])
    IN  <<At(1), At(2), z>>

(* Cells that have a corner at the origin of the map, as those of aquifers *)
(* have, and inactive ones without any height, are left out of searches.   *)
taint_cell(cell) ==
    [cell EXCEPT !.tainted =
        \/ \E n \in 0 .. 7 : cell.corners[n][1] = 0 /\ cell.corners[n][2] = 0
        \/ cell.active = 0 /\ \A n \in 0 .. 7 : cell.corners[n][3] = cell.corners[0][3]]

Cell(corners, active, valid) ==
    [corners |-> corners, active |-> active, valid |-> valid, tainted |-> FALSE]

AllActive(actnum, g) == IF actnum = None THEN 1 ELSE actnum[g]

CellsOfPillars(s, axes) ==
    [g \in Cells(s.dims) |->
        LET c == get_ijk1(s.dims, g)
            Corner(n) == pillar_cross_planes(
                             s.coord[PillarIndex(s.dims, c.i + Far(n, "i"), c.j + Far(n, "j"))],
                             s.zcorn[zcorn_index(s.dims, c, n)])
        IN  taint_cell(Cell([n \in 0 .. 7 |-> Transform(axes, Corner(n))],
                            AllActive(s.actnum, g), TRUE))]

(* A file of corners need not have every cell.                             *)
CellsOfCorners(s, axes) ==
    [g \in Cells(s.dims) |->
        taint_cell(IF g \in DOMAIN s.cells
                   THEN Cell([n \in 0 .. 7 |-> Transform(axes, s.cells[g].corners[n])],
                             s.cells[g].active, TRUE)
                   ELSE Cell([n \in 0 .. 7 |-> Origin], 0, FALSE))]

init_regular(offset, s, active) ==
    LET Corner(n) == Add(Scale(Far(n, "i"), s.ivec),
                         Add(Scale(Far(n, "j"), s.jvec), Scale(Far(n, "k"), s.kvec)))
    IN  Cell([n \in 0 .. 7 |-> Add(offset, Corner(n))], active, TRUE)

CellsOfVectors(s) ==
    [g \in Cells(s.dims) |->
        LET c == get_ijk1(s.dims, g)
            offset == Add(Scale(c.i, s.ivec), Add(Scale(c.j, s.jvec), Scale(c.k, s.kvec)))
        IN  init_regular(offset, s, AllActive(s.actnum, g))]

Made(s, apply_mapaxes) ==
    LET axes == IF apply_mapaxes THEN s.mapaxes ELSE None
    IN  [dims |-> s.dims,
         cells |-> IF s.kind = "EGRID" THEN CellsOfPillars(s, axes)
                   ELSE IF s.kind = "GRID" THEN CellsOfCorners(s, axes)
                   ELSE CellsOfVectors(s),
         coord |-> IF s.kind = "EGRID" THEN s.coord ELSE None,
         mapaxes |-> s.mapaxes,
         use_mapaxes |-> axes # None]

AxesOf(g) == IF g.use_mapaxes THEN g.mapaxes ELSE None

-----------------------------------------------------------------------------
(* Writing a grid.                                                         *)

(* The column that a pillar is read from, and the corner of its cells.     *)
ColumnOf(dims, p) ==
    LET i == p % (dims[1] + 1)
        j == p \div (dims[1] + 1)
        Before(n, size) == IF n = size THEN n - 1 ELSE n
        ci == Before(i, dims[1])
        cj == Before(j, dims[2])
    IN  [i |-> ci, j |-> cj, corner |-> (i - ci) + 2 * (j - cj)]

ValidIn(g, i, j) ==
    {k \in 0 .. g.dims[3] - 1 : g.cells[get_global_index(g.dims, i, j, k)].valid}

(* Mutant: the pillars stay where the map axes moved them.                 *)
PillarsOnMap(g) ==
    IF g.coord # None THEN g.coord
    ELSE [p \in Pillars(g.dims) |->
            LET c  == ColumnOf(g.dims, p)
                ks == ValidIn(g, c.i, c.j)
                Corner(k, n) == g.cells[get_global_index(g.dims, c.i, c.j, k)].corners[n]
            IN  <<Corner(Min(ks), c.corner), Corner(Max(ks), c.corner + 4)>>]

(* Pillars are kept from the file, or led through the corners of the first *)
(* and the last valid cell of one column.                                  *)
coord_kw(g) ==
    IF g.coord # None THEN g.coord
    ELSE [p \in Pillars(g.dims) |->
            LET c  == ColumnOf(g.dims, p)
                ks == ValidIn(g, c.i, c.j)
                Corner(k, n) == g.cells[get_global_index(g.dims, c.i, c.j, k)].corners[n]
            IN  << Invtransform(AxesOf(g), Corner(Min(ks), c.corner)),
                   Invtransform(AxesOf(g), Corner(Max(ks), c.corner + 4)) >>]

zcorn_kw(g) ==
    [z \in 0 .. 8 * Cardinality(Cells(g.dims)) - 1 |->
        LET at == CHOOSE at \in Cells(g.dims) \X (0 .. 7) :
                      z = zcorn_index(g.dims, get_ijk1(g.dims, at[1]), at[2])
        IN  g.cells[at[1]].corners[at[2]][3]]

EGRIDOf(g) ==
    [kind |-> "EGRID", dims |-> g.dims, coord |-> coord_kw(g), zcorn |-> zcorn_kw(g),
     actnum |-> [c \in Cells(g.dims) |-> g.cells[c].active], mapaxes |-> g.mapaxes]

(* Map axes that were not used are not written.                            *)
GRIDOf(g) ==
    [kind |-> "GRID", dims |-> g.dims, mapaxes |-> AxesOf(g),
     cells |-> [c \in Cells(g.dims) |->
                   [active |-> g.cells[c].active,
                    corners |-> [n \in 0 .. 7 |-> Invtransform(AxesOf(g), g.cells[c].corners[n])]]]]

-----------------------------------------------------------------------------
(* Searching.                                                              *)

(* Mutant: all cells are split in the same way.                            *)
OneMethod(c) == 1

Method(c) == 1 + ((c.i + c.j + c.k) % 2)

cell_contains(g, index, p) ==
    LET c == get_ijk1(g.dims, index)
    IN  /\ ~g.cells[index].tainted
        /\ cell_contains_xyz(g.cells[index].corners, Method(c),
                             [i |-> c.i = g.dims[1] - 1, j |-> c.j = g.dims[2] - 1,
                              k |-> c.k = g.dims[3] - 1], p)

(* The cells of [i - bx, i + bx), and the same in j and k.                 *)
Box(dims, start, bx) ==
    LET s == get_ijk1(dims, start)
        Near(n, m) == m - bx <= n /\ n < m + bx
    IN  {g \in Cells(dims) : LET c == get_ijk1(dims, g)
                             IN  Near(c.i, s.i) /\ Near(c.j, s.j) /\ Near(c.k, s.k)}

First(S) == IF S = {} THEN -1 ELSE Min(S)

(* The start, boxes around it without the cells that an earlier one had,   *)
(* and in the end all cells from the first.                                *)
get_global_index_from_xyz(g, p, start) ==
    LET With(S) == {index \in S : cell_contains(g, index, p)}
        Visit(s, bx) ==
            LET box == Box(g.dims, start, bx)
                found == First(With(box \ s.visited))
            IN  IF s.found >= 0 THEN s
                ELSE [found |-> found,
                      visited |-> s.visited \cup {index \in box : found = -1 \/ index <= found}]
        boxes == FoldLeft(Visit, [found |-> -1, visited |-> {}], <<2, 4, 8, 16, 32, 64>>)
    IN  IF start >= 0 /\ cell_contains(g, start, p) THEN start
        ELSE IF start >= 0 /\ boxes.found >= 0 THEN boxes.found
        ELSE First(With(Cells(g.dims)))

(* Mutant: the far end in i is taken for that in j.                        *)
EndsSwapped(g, i, j, k) ==
    LET Cut(n, size) == IF n = size THEN <<n - 1, 1>> ELSE <<n, 0>>
        ci == Cut(i, g.dims[1])
        cj == Cut(j, g.dims[2])
        ck == Cut(k, g.dims[3])
    IN  g.cells[get_global_index(g.dims, ci[1], cj[1], ck[1])].corners[2 * ci[2] + cj[2] + 4 * ck[2]]

(* A corner of layer k of the grid: that of the cell behind it, but at the *)
(* far ends.                                                               *)
get_corner_xyz(g, i, j, k) ==
    LET Cut(n, size) == IF n = size THEN <<n - 1, 1>> ELSE <<n, 0>>
        ci == Cut(i, g.dims[1])
        cj == Cut(j, g.dims[2])
        ck == Cut(k, g.dims[3])
    IN  g.cells[get_global_index(g.dims, ci[1], cj[1], ck[1])].corners[ci[2] + 2 * cj[2] + 4 * ck[2]]

(* Whether the outline of the columns [i1, i2) by [j1, j2) contains <<x, y>>. *)
sublayer_contains_xy(g, xy, k, i1, i2, j1, j2) ==
    LET Plan(i, j) == LET c == get_corner_xyz(g, i, j, k) IN <<c[1], c[2]>>
    IN  polygon_contains_point([n \in 1 .. i2 - i1 |-> Plan(i1 + n - 1, j1)]
                                 \o [n \in 1 .. j2 - j1 |-> Plan(i2, j1 + n - 1)]
                                 \o [n \in 1 .. i2 - i1 |-> Plan(i2 - n + 1, j2)]
                                 \o [n \in 1 .. j2 - j1 |-> Plan(i1, j2 - n + 1)], xy)

Outside == <<"outside">>
Nowhere == <<"nowhere">>

(* Halves the columns in i, then in j, until one is left.                  *)
get_ij_from_xy(g, xy, k) ==
    LET Has(b) == sublayer_contains_xy(g, xy, k, b.i1, b.i2, b.j1, b.j2)
        Halves(b, from, to) ==
            IF b[to] - b[from] <= 1 THEN <<b>>
            ELSE LET c == (b[from] + b[to]) \div 2
                 IN  SelectSeq(<<[b EXCEPT ![to] = c], [b EXCEPT ![from] = c]>>, Has)
        locate[b \in [i1 : 0 .. g.dims[1], i2 : 0 .. g.dims[1], j1 : 0 .. g.dims[2], j2 : 0 .. g.dims[2]]] ==
            IF b.i2 - b.i1 = 1 /\ b.j2 - b.j1 = 1 THEN <<b.i1, b.j1>>
            ELSE LET bi == Halves(b, "i1", "i2")
                     bj == IF bi = <<>> THEN <<>> ELSE Halves(bi[1], "j1", "j2")
                 IN  IF bj = <<>> THEN Nowhere ELSE locate[bj[1]]
        all == [i1 |-> 0, i2 |-> g.dims[1], j1 |-> 0, j2 |-> g.dims[2]]
    IN  IF Has(all) THEN locate[all] ELSE Outside

(* Four times the mean depth of the top, and of the bottom, of a cell.     *)
Top4(g, index) == MapThenSumSet(LAMBDA n : g.cells[index].corners[n][3], 0 .. 3)
Bottom4(g, index) == MapThenSumSet(LAMBDA n : g.cells[index].corners[n][3], 4 .. 7)

(* A layer reaches from the bottom of the one above to its own.            *)
locate_depth(g, depth, i, j) ==
    LET nz == g.dims[3]
        Depth4(k) == IF k = -1 THEN Top4(g, get_global_index(g.dims, i, j, 0))
                   ELSE Bottom4(g, get_global_index(g.dims, i, j, k))
    IN  IF 4 * depth < Depth4(-1) THEN -1
        ELSE IF 4 * depth >= Depth4(nz - 1) THEN -nz
        ELSE Min({k \in 0 .. nz - 1 : Depth4(k - 1) <= 4 * depth /\ 4 * depth < Depth4(k)})

-----------------------------------------------------------------------------
(* The calls.                                                              *)

Changed(op, args) ==
    /\ changes' = changes + 1
    /\ Called(op, args, None)

Init ==
    /\ grid = None
    /\ file = None
    /\ saved = None
    /\ changes = 0
    /\ call = [op |-> "none", args |-> None, result |-> None]

(* Keywords of a client are always moved by their map axes.                *)
Load(s, apply_mapaxes) ==
    /\ grid = None
    /\ ~apply_mapaxes => s.mapaxes # None
    /\ grid' = Made(s, apply_mapaxes)
    /\ Changed("load", None)
    /\ UNCHANGED <<file, saved>>

LoadSaved(apply_mapaxes) ==
    /\ file # None
    /\ ~apply_mapaxes => file.mapaxes # None
    /\ grid' = Made(file, apply_mapaxes)
    /\ Changed("load_saved", apply_mapaxes)
    /\ UNCHANGED <<file, saved>>

(* The copy goes on, without the pillars of the file.                      *)
Copy ==
    /\ grid # None
    /\ grid' = [grid EXCEPT !.coord = None]
    /\ Changed("copy", None)
    /\ UNCHANGED <<file, saved>>

(* Which cells are left out of searches is not decided again.              *)
SetActnum(inactive) ==
    /\ grid # None
    /\ grid' = [grid EXCEPT !.cells = [c \in DOMAIN @ |->
                   [@[c] EXCEPT !.active = IF c \in inactive THEN 0 ELSE 1]]]
    /\ Changed("reset_actnum", None)
    /\ UNCHANGED <<file, saved>>

ColumnsValid ==
    \A p \in Pillars(grid.dims) :
        LET c == ColumnOf(grid.dims, p) IN ValidIn(grid, c.i, c.j) # {}

(* The grid keeps the pillars it was written with.                         *)
WriteEGRID ==
    /\ grid # None
    /\ grid.coord # None \/ ColumnsValid
    /\ file' = EGRIDOf(grid)
    /\ saved' = grid
    /\ grid' = [grid EXCEPT !.coord = coord_kw(grid)]
    /\ Changed("fwrite_EGRID", None)

(* A column without any cell of the file: the program exits, and leaves a  *)
(* file that has headers only.                                             *)
WriteEGRIDExits ==
    /\ grid # None
    /\ grid.coord = None /\ ~ColumnsValid
    /\ grid' = None
    /\ file' = None
    /\ saved' = None
    /\ changes' = MaxChanges
    /\ Called("exit", None, None)

WriteGRID ==
    /\ grid # None
    /\ file' = GRIDOf(grid)
    /\ saved' = grid
    /\ Changed("fwrite_GRID", None)
    /\ UNCHANGED grid

(* Searches change nothing: one is made after a call that changed the      *)
(* grid, and never two of them.                                            *)
MayAsk == call.op \in {"load", "load_saved", "copy"}
Asked(op, args, result) == Called(op, args, result) /\ UNCHANGED <<grid, file, saved, changes>>

FindXYZ(p, start) == Asked("xyz", p, get_global_index_from_xyz(grid, p, start))
FindXY(xy, k) == Asked("xy", Append(xy, k), get_ij_from_xy(grid, xy, k))
FindDepth(depth, i, j) == Asked("depth", <<i, j, depth>>, locate_depth(grid, depth, i, j))

Ask ==
    \/ \E p \in Places, start \in Starts \cap ({-1} \cup Cells(grid.dims)) : FindXYZ(p, start)
    \/ \E xy \in {<<p[1], p[2]>> : p \in Places}, k \in 0 .. grid.dims[3] : FindXY(xy, k)
    \/ \E depth \in {p[3] : p \in Places} :
           \E i \in 0 .. grid.dims[1] - 1, j \in 0 .. grid.dims[2] - 1 : FindDepth(depth, i, j)

Change ==
    \/ grid = None /\ \E s \in Sources, apply_mapaxes \in BOOLEAN : Load(s, apply_mapaxes)
    \/ \E apply_mapaxes \in BOOLEAN : LoadSaved(apply_mapaxes)
    \/ Copy
    \/ \E inactive \in Removed : SetActnum(inactive)
    \/ WriteEGRID
    \/ WriteEGRIDExits
    \/ WriteGRID

Next ==
    \/ changes < MaxChanges /\ Change
    \/ MayAsk /\ Ask

Spec == Init /\ [][Next]_vars

-----------------------------------------------------------------------------
(* Grids whose cells fill a box, as the grids do that the tests of the     *)
(* repository search in.                                                   *)

OnMinus(a) == {n \in 0 .. 7 : Far(n, a) = 0}

Neighbours(dims, a) ==
    {pair \in Cells(dims) \X Cells(dims) :
        LET c == get_ijk1(dims, pair[1]) IN get_ijk1(dims, pair[2]) = [c EXCEPT ![a] = @ + 1]}

(* Neighbours have the corners between them in common.                     *)
Conforming(g) ==
    \A a \in Axes : \A pair \in Neighbours(g.dims, a) : \A n \in OnMinus(a) :
        g.cells[pair[1]].corners[n + Step[a]] = g.cells[pair[2]].corners[n]

(* The three edges at each corner turn the same way, and the top is above. *)
Unfolded(corners) ==
    LET Turn(n) == LET To(a) == Sub(corners[IF n \in OnMinus(a) THEN n + Step[a] ELSE n - Step[a]],
                                    corners[n])
                       odd == Cardinality({a \in Axes : n \notin OnMinus(a)}) % 2
                   IN  (IF odd = 1 THEN -1 ELSE 1) * Dot(To("i"), Cross(To("j"), To("k")))
    IN  /\ \/ \A n \in 0 .. 7 : Turn(n) > 0
           \/ \A n \in 0 .. 7 : Turn(n) < 0
        /\ \A n \in 0 .. 3 : corners[n][3] < corners[n + 4][3]

(* The least box round all corners: its ends in each direction.            *)
BoxOf(g) ==
    LET Coordinates(n) == {g.cells[c].corners[m][n] : c \in Cells(g.dims), m \in 0 .. 7}
    IN  [n \in 1 .. 3 |-> <<Min(Coordinates(n)), Max(Coordinates(n))>>]

InBox(box, p) == \A n \in 1 .. 3 : box[n][1] <= p[n] /\ p[n] <= box[n][2]

(* Each side of the grid lies in a side of the box.                        *)
Boxed(g) ==
    LET box == BoxOf(g)
        size == [i |-> g.dims[1], j |-> g.dims[2], k |-> g.dims[3]]
        OnSide(a) == {<<c, m>> \in Cells(g.dims) \X (0 .. 7) :
                         get_ijk1(g.dims, c)[a] = IF m \in OnMinus(a) THEN 0 ELSE size[a] - 1}
    IN  \A a \in Axes : \E n \in 1 .. 3 : \A at \in OnSide(a) :
            g.cells[at[1]].corners[at[2]][n] \in {box[n][1], box[n][2]}

Fills(g) ==
    /\ \A c \in Cells(g.dims) : ~g.cells[c].tainted /\ Unfolded(g.cells[c].corners)
    /\ Conforming(g)
    /\ Boxed(g)

(* Six times the volume of a cell that is split in one of the two ways.    *)
SplitVolume(corners, method) == MapThenSumSet(Volume6, Tetrahedrons(corners, method))

(* In a grid whose cells fill a box every point of the box is in one cell, *)
(* on faces, edges and corners too, and the search finds it, wherever it   *)
(* starts; no other point is in any cell.                                  *)
PointsInOneCell ==
    (call.op = "xyz" /\ Fills(grid)) =>
        /\ {c \in Cells(grid.dims) : cell_contains(grid, c, call.args)}
               = IF InBox(BoxOf(grid), call.args) THEN {call.result} ELSE {}
        /\ ~InBox(BoxOf(grid), call.args) => call.result = -1

(* The volume of a cell is the mean of those of its two decompositions,    *)
(* and the volumes of the cells add up to that of the box.                 *)
VolumesFillBox ==
    (call.op \in {"load", "load_saved"} /\ Fills(grid)) =>
        LET Volume(c) == cell_volume(grid.cells[c].corners)
            side == [n \in 1 .. 3 |-> BoxOf(grid)[n][2] - BoxOf(grid)[n][1]]
        IN  /\ \A c \in Cells(grid.dims) :
                  LET corners == grid.cells[c].corners
                  IN  Volume(c) = 18 * (SplitVolume(corners, 1) + SplitVolume(corners, 2))
            /\ MapThenSumSet(Volume, Cells(grid.dims)) = 216 * side[1] * side[2] * side[3]

(* The cells of a grid share out the space it fills: points and volumes    *)
(* (rd_grid_cell_contains_xyz3, rd_grid_get_global_index_from_xyz,         *)
(* rd_cell_get_volume), after any loads, saves and copies.                 *)
CellsTile == PointsInOneCell /\ VolumesFillBox

-----------------------------------------------------------------------------
(* The outline of the top of layer k of a column, from its own corners.    *)
OwnOutline(g, c, k) ==
    LET below == IF k = g.dims[3] THEN 4 ELSE 0
        at == g.cells[get_global_index(g.dims, c.i, c.j, IF below = 4 THEN k - 1 ELSE k)].corners
    IN  [n \in 1 .. 4 |-> LET p == at[below + <<0, 1, 3, 2>>[n]] IN <<p[1], p[2]>>]

ColumnsWith(g, xy, k) ==
    {c \in [i : 0 .. g.dims[1] - 1, j : 0 .. g.dims[2] - 1] :
        polygon_contains_point(OwnOutline(g, c, k), xy)}

(* Where the columns of a layer meet, the search for the column of <<x, y>> *)
(* never loses the point between two halves, and ends in a column that has *)
(* it if there is one (rd_grid_get_ij_from_xy).                            *)
ColumnOfPoint ==
    (call.op = "xy" /\ \A a \in {"i", "j"} : \A pair \in Neighbours(grid.dims, a) :
        \A n \in OnMinus(a) : \A m \in 1 .. 2 :
            grid.cells[pair[1]].corners[n + Step[a]][m] = grid.cells[pair[2]].corners[n][m]) =>
        LET columns == ColumnsWith(grid, <<call.args[1], call.args[2]>>, call.args[3])
        IN  IF columns = {} THEN call.result = Outside
            ELSE \E c \in columns : call.result = <<c.i, c.j>>

(* A depth between top and bottom of a column is in the cell that is found *)
(* (rd_grid_locate_depth), unless there is a gap above that cell.          *)
LayerOfDepth ==
    (call.op = "depth") =>
        LET i == call.args[1]
            j == call.args[2]
            At(k) == get_global_index(grid.dims, i, j, k)
        IN  call.result >= 0 =>
                \/ /\ Top4(grid, At(call.result)) <= 4 * call.args[3]
                   /\ 4 * call.args[3] < Bottom4(grid, At(call.result))
                \/ /\ call.result > 0
                   /\ Top4(grid, At(call.result)) # Bottom4(grid, At(call.result - 1))

PlacesFound == ColumnOfPoint /\ LayerOfDepth

-----------------------------------------------------------------------------
(* The valid corners that a pillar has, in coordinates of the file; only   *)
(* those of the cells in columns.                                          *)
CornersOf(g, p, columns) ==
    {Invtransform(AxesOf(g), g.cells[at[1]].corners[at[2]]) :
        at \in {at \in Cells(g.dims) \X (0 .. 7) :
                    LET c == get_ijk1(g.dims, at[1])
                    IN  /\ g.cells[at[1]].valid
                        /\ p = PillarIndex(g.dims, c.i + Far(at[2], "i"), c.j + Far(at[2], "j"))
                        /\ <<c.i, c.j>> \in columns}}

(* The corners at each pillar are on a line, which can be seen from those  *)
(* of the one column that a pillar is read from; or the grid has pillars.  *)
Straight(g) ==
    \A p \in Pillars(g.dims) :
        LET around == CornersOf(g, p, (0 .. g.dims[1] - 1) \X (0 .. g.dims[2] - 1))
            own == CornersOf(g, p, {<<ColumnOf(g.dims, p).i, ColumnOf(g.dims, p).j>>})
        IN  \/ g.coord # None /\ \A q \in around : pillar_cross_planes(g.coord[p], q[3]) = q
            \/ \A q \in around : \A n \in {1, 2} : q[n] = (CHOOSE r \in around : TRUE)[n]
            \/ /\ \A q, r, s \in around : Cross(Sub(q, r), Sub(s, r)) = Origin
               /\ \E q, r \in own : q[3] # r[3]

rd_grid_compare(g1, g2) ==
    /\ \A c \in Cells(g1.dims) : /\ g1.cells[c].active = g2.cells[c].active
                                 /\ g1.cells[c].corners = g2.cells[c].corners
    /\ g1.use_mapaxes = g2.use_mapaxes
    /\ g1.mapaxes = g2.mapaxes

(* A grid that was written and is loaded with its map axes used as before  *)
(* has the corners and the active cells it had, of all cells that had any, *)
(* and compares equal to itself (rd_grid_fwrite_EGRID__,                   *)
(* rd_grid_fwrite_GRID__, rd_grid_alloc_GRDECL_kw__, rd_grid_alloc_GRID__). *)
GeometryComesBack ==
    (call.op = "load_saved" /\ (saved.mapaxes # None => call.args = saved.use_mapaxes)) =>
        LET whole == \A c \in Cells(saved.dims) : saved.cells[c].valid
            axes_written == file.mapaxes = saved.mapaxes
        IN  (file.kind = "EGRID" => Straight(saved)) =>
                /\ \A c \in Cells(saved.dims) : saved.cells[c].valid =>
                       /\ grid.cells[c].corners = saved.cells[c].corners
                       /\ grid.cells[c].active = saved.cells[c].active
                /\ whole /\ axes_written => rd_grid_compare(saved, grid)
=============================================================================
