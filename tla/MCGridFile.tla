---------------------------- MODULE MCGridFile -----------------------------
(* Four cells with dual porosity: a coarse group of two that are not next  *)
(* to one another, one of a single cell, and a cell that is refined twice. *)
(* The simulator's files: a metric EGRID file with connections, one of     *)
(* them from matrix to fracture; one in feet with local grids whose        *)
(* numbers have a gap, connected with each other; a GRID file that does    *)
(* not say which cells are active; that file beside an EGRID file with     *)
(* connections to a local grid it does not have.                           *)
(*                                                                         *)
(* And the geometry of grids of up to eight cells.  The two share no state *)
(* here: a behaviour is of one of them, named by part, while the other     *)
(* rests where it began.                                                   *)
EXTENDS GridFile, TLC

CONSTANTS
    c1, c2,
    Sources, Removed, Places, Starts, MaxChanges    \* those of GridGeometry

VARIABLES
    part,                                   \* "files" or "geometry"
    grid, file, origin, changes, call       \* those of GridGeometry

Numbers == INSTANCE CellGeometry
Geometry == INSTANCE GridGeometry WITH saved <- origin

geometry_vars == <<grid, file, origin, changes, call>>

TwoGroups == 0 :> c1 @@ 1 :> c2 @@ 2 :> NoGroup @@ 3 :> c1

M == {"matrix"}
F == {"matrix", "fracture"}
Act(a, b, c, d) == 0 :> a @@ 1 :> b @@ 2 :> c @@ 3 :> d
Both == 0 :> F @@ 1 :> M

Main(actnum) == Section("", "", 0, actnum, <<>>, <<0, 0>>)
Local(name, parent, nr, host) == Section(name, parent, nr, Both, host, <<0, 0>>)
Links(from, to, pairs) == [from |-> from, to |-> to, pairs |-> pairs]
File(kind, u, mapaxes, sections, links) ==
    [kind |-> kind, unit |-> u, axes |-> mapaxes, sections |-> sections, links |-> links]

Plain ==
    File("EGRID", "METRIC", TRUE, <<Main(Act(F, M, M, F))>>,
         <<Links(0, 0, <<<<0, 1>>, <<2, 3>>, <<0, 4>>, <<1, 2>>>>)>>)
Host == 0 :> 2 @@ 1 :> 2
Nested == 0 :> 1 @@ 1 :> 1
Refined ==
    File("EGRID", "FIELD", FALSE,
         <<Main(Act(M, F, M, {})), Local("A", "", 2, Host), Local("B", "A", 3, Nested)>>,
         <<Links(2, 2, <<<<0, 1>>>>), Links(0, 2, <<<<1, 0>>>>), Links(2, 3, <<<<0, 1>>>>)>>)
Corners ==
    File("GRID", "METRIC", TRUE, <<Main(NoActnum)>>, <<>>)

Unknown == [Plain EXCEPT !.links = <<Links(0, 5, <<<<0, 1>>>>)>>]

Only(name, f) == [n \in FileNames |-> IF n = name THEN f ELSE NoFile]
MCCases == {Only("EGRID", Plain), Only("FEGRID", Refined), Only("GRID", Corners),
            [Only("EGRID", Unknown) EXCEPT !["GRID"] = Corners]}
MCActnums == {Act(F, M, F, {}), Act({}, {}, M, F)}

-----------------------------------------------------------------------------
(* Grids with places.                                                      *)

Turned   == [origo |-> <<6, 0>>, unit_x |-> <<0, 1>>, unit_y |-> <<-1, 0>>]
Mirrored == [origo |-> <<0, 0>>, unit_x |-> <<0, 1>>, unit_y |-> <<1, 0>>]
Ijk(dims, g) == Numbers!get_ijk1(dims, g)
Far(n, a) == Numbers!Far(n, a)

Nodes(dims) == (0 .. dims[1]) \X (0 .. dims[2])
CellCorners(dims) == Numbers!Cells(dims) \X (0 .. 7)

(* Pillars by their ends, and the depth of each corner of each cell.       *)
FromPillars(dims, pillar, depth, actnum, mapaxes) ==
    [kind |-> "EGRID", dims |-> dims, actnum |-> actnum, mapaxes |-> mapaxes,
     coord |-> [p \in Numbers!Pillars(dims) |-> pillar[<<p % (dims[1] + 1), p \div (dims[1] + 1)>>]],
     zcorn |-> [z \in 0 .. 8 * Cardinality(Numbers!Cells(dims)) - 1 |->
                    depth[CHOOSE at \in CellCorners(dims) :
                              z = Numbers!zcorn_index(dims, Ijk(dims, at[1]), at[2])]]]

(* Corners of the cells that are in the file.                              *)
FromCorners(dims, corners, actives, mapaxes) ==
    [kind |-> "GRID", dims |-> dims, mapaxes |-> mapaxes,
     cells |-> [g \in DOMAIN corners |-> [active |-> IF g \in actives THEN 1 ELSE 0,
                                          corners |-> corners[g]]]]

(* Eight cells in a box, with a surface between them that is nowhere flat, *)
(* round a pillar that leans.                                              *)
Tilted(mapaxes) ==
    LET dims == <<2, 2, 2>>
        pillar == [at \in Nodes(dims) |->
            IF at = <<1, 1>> THEN <<<<2, 3, 0>>, <<4, 3, 4>>>>
            ELSE <<<<1 + 2 * at[1], 1 + 2 * at[2], 0>>, <<1 + 2 * at[1], 1 + 2 * at[2], 4>>>>]
        Middle(i, j) == IF <<i, j>> = <<1, 1>> THEN 2 ELSE 1 + ((i + 2 * j) % 3)
        depth == [at \in CellCorners(dims) |->
            LET c == Ijk(dims, at[1])
            IN  <<0, Middle(c.i + Far(at[2], "i"), c.j + Far(at[2], "j")), 4>>[1 + c.k + Far(at[2], "k")]]
    IN  FromPillars(dims, pillar, depth, <<>>, mapaxes)

(* The pillars between two columns lean.                                   *)
Leaning ==
    [at \in Nodes(<<2, 1>>) |->
        LET y == 1 + 4 * at[2]
        IN  IF at[1] = 1 THEN <<<<2, y, 0>>, <<4, y, 4>>>>
            ELSE <<<<1 + 2 * at[1], y, 0>>, <<1 + 2 * at[1], y, 4>>>>]

(* The second column is further down, with a gap above its lower cell and  *)
(* an upper one without height; cell 0 is twisted.                         *)
Faulted ==
    FromPillars(<<2, 1, 2>>, Leaning,
                [at \in CellCorners(<<2, 1, 2>>) |->
                    CASE at[1] = 0 -> <<0, 0, 0, 2, 2, 2, 2, 0>>[at[2] + 1]
                      [] at[1] = 1 -> 2
                      [] at[1] = 2 -> IF at[2] < 4 THEN 2 ELSE 4
                      [] at[1] = 3 -> IF at[2] < 4 THEN 4 ELSE 6],
                0 :> 1 @@ 1 :> 0 @@ 2 :> 1 @@ 3 :> 1, <<>>)

(* The second column has no height at the pillars that lean.               *)
Wedge ==
    FromPillars(<<2, 1, 1>>, Leaning,
                [at \in CellCorners(<<2, 1, 1>>) |->
                    IF at[2] < 4 \/ (at[1] = 1 /\ Far(at[2], "i") = 0) THEN 0 ELSE 4], <<>>, <<>>)

(* Four columns of one cell, of which some may be missing; the sides       *)
(* between two of them are not flat.                                       *)
Row(present, actives, mapaxes) ==
    LET X(i, j, k) == 1 + 2 * i + (IF i = 2 /\ j + k = 1 THEN 1 ELSE 0)
        Corner(c, n) == <<X(c.i + Far(n, "i"), Far(n, "j"), Far(n, "k")),
                          1 + 4 * Far(n, "j"), 4 * Far(n, "k")>>
    IN  FromCorners(<<4, 1, 1>>, [g \in present |-> [n \in 0 .. 7 |-> Corner(Ijk(<<4, 1, 1>>, g), n)]],
                    actives, mapaxes)

(* A column whose lower cell is not in the file, beside one of two.        *)
Capped ==
    LET Corner(c, n) == <<1 + 4 * Far(n, "i"), 1 + 2 * (c.j + Far(n, "j")), 2 * (c.k + Far(n, "k"))>>
    IN  FromCorners(<<1, 2, 2>>, [g \in {0, 1, 3} |-> [n \in 0 .. 7 |-> Corner(Ijk(<<1, 2, 2>>, g), n)]],
                    {0, 1, 3}, Turned)

Skewed ==
    [kind |-> "REGULAR", dims |-> <<2, 2, 2>>, ivec |-> <<2, 1, 0>>, jvec |-> <<-1, 2, 0>>,
     kvec |-> <<1, 0, 2>>, actnum |-> <<>>, mapaxes |-> <<>>]

MCSources ==
    {Tilted(axes_used) : axes_used \in {<<>>, Turned, Mirrored}}
        \cup {Row(0 .. 3, 0 .. 3, <<>>), Row(0 .. 3, {0, 2}, Turned), Row({0, 1, 3}, 0 .. 3, <<>>)}
        \cup {Faulted, Wedge, Capped, Skewed}
MCRemoved == {{0}}
MCPlaces == ({1, 3, 4} \X {1, 3, 5} \X (0 .. 2)) \cup {<<0, 3, 2>>, <<3, 3, 6>>}
MCStarts == {-1, 3}

-----------------------------------------------------------------------------
MCInit ==
    /\ GridInit
    /\ Geometry!Init
    /\ part \in {"files", "geometry"}
    /\ part = "geometry" => dir = Only("GRID", Corners)

MCNext ==
    \/ part = "files" /\ GridNext /\ UNCHANGED <<part, geometry_vars>>
    \/ part = "geometry" /\ Geometry!Next /\ UNCHANGED <<part, allVars>>

MCSpec == MCInit /\ [][MCNext]_<<part, allVars, geometry_vars>>

(* The cells of a grid that fills a box share out its points and its       *)
(* volume (GridGeometry, rd_grid_get_global_index_from_xyz).               *)
CellsTile == Geometry!CellsTile

(* The searches for the column of a point and for the layer of a depth end *)
(* where the point is (GridGeometry, rd_grid_get_ij_from_xy).              *)
PlacesFound == Geometry!PlacesFound

(* Corners and active cells come back from the files they were written to  *)
(* (GridGeometry, rd_grid_fwrite_EGRID2, rd_grid_fwrite_GRID2).            *)
GeometryComesBack == Geometry!GeometryComesBack
=============================================================================
