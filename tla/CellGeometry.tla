---------------------------- MODULE CellGeometry ----------------------------
(***************************************************************************)
(* The geometry of a cell (rd_grid.cpp) and of polygons (geo_polygon.cpp): *)
(* which points are in it, to which cell the points of a face belong, and  *)
(* the volume.  A cell has eight corners,                                  *)
(*                                                                         *)
(*        2---3           6---7                                            *)
(*        |   |           |   |                                            *)
(*        0---1           4---5                                            *)
(*                                                                         *)
(* and faces that are split into triangles, in one of two ways.            *)
(*                                                                         *)
(* The numbers of cells, pillars and depths of a grid are here too.        *)
(*                                                                         *)
(* Coordinates are integers, so the tests that the code makes with a       *)
(* tolerance are exact, and so are those of doubles for equality.          *)
(***************************************************************************)
EXTENDS Integers, Sequences, FiniteSets, FiniteSetsExt, SequencesExt

Axes == {"i", "j", "k"}
None == <<>>       \* nothing of the kind is there

-----------------------------------------------------------------------------
(* Points.                                                                 *)

Add(p, q) == [n \in 1 .. 3 |-> p[n] + q[n]]
Sub(p, q) == [n \in 1 .. 3 |-> p[n] - q[n]]
Scale(s, p) == [n \in 1 .. 3 |-> s * p[n]]
Cross(b, c) == <<b[2] * c[3] - b[3] * c[2], b[3] * c[1] - b[1] * c[3], b[1] * c[2] - b[2] * c[1]>>
Dot(a, b) == a[1] * b[1] + a[2] * b[2] + a[3] * b[3]
Origin == <<0, 0, 0>>
Absolute(n) == IF n < 0 THEN -n ELSE n

Lowest(f, S, n) == Min({f[s][n] : s \in S})
Highest(f, S, n) == Max({f[s][n] : s \in S})

(* Coordinates of a map: mapaxes is [origo, unit_x, unit_y], or None, with *)
(* axes at right angles, whose determinant is its own inverse.             *)
Transform(m, p) ==
    IF m = None THEN p
    ELSE << m.origo[1] + p[1] * m.unit_x[1] + p[2] * m.unit_y[1],
            m.origo[2] + p[1] * m.unit_x[2] + p[2] * m.unit_y[2], p[3] >>
Invtransform(m, p) ==
    IF m = None THEN p
    ELSE LET norm == m.unit_x[1] * m.unit_y[2] - m.unit_x[2] * m.unit_y[1]
             dx == p[1] - m.origo[1]
             dy == p[2] - m.origo[2]
         IN  << (dx * m.unit_y[2] - dy * m.unit_y[1]) * norm,
                (dy * m.unit_x[1] - dx * m.unit_x[2]) * norm, p[3] >>

-----------------------------------------------------------------------------
(* Numbers of cells, pillars and depths; dims is <<nx, ny, nz>>.           *)

Cells(dims) == 0 .. dims[1] * dims[2] * dims[3] - 1
get_ijk1(dims, g) == [i |-> g % dims[1], j |-> (g \div dims[1]) % dims[2],
                      k |-> g \div (dims[1] * dims[2])]
get_global_index(dims, i, j, k) == i + j * dims[1] + k * dims[1] * dims[2]

Pillars(dims) == 0 .. (dims[1] + 1) * (dims[2] + 1) - 1
PillarIndex(dims, i, j) == j * (dims[1] + 1) + i

(* Corner n of a cell is at its far end in a, 1, or at the near one, 0.    *)
Step == [i |-> 1, j |-> 2, k |-> 4]
Far(n, a) == (n \div Step[a]) % 2

zcorn_index(dims, c, n) ==
    8 * c.k * dims[1] * dims[2] + 4 * c.j * dims[1] + 2 * c.i
        + Far(n, "i") + 2 * dims[1] * Far(n, "j") + 4 * dims[1] * dims[2] * Far(n, "k")

-----------------------------------------------------------------------------
(* Faces.                                                                  *)

(* The two triangles of each face, in the two ways to split faces.         *)
tetrahedron_permutations == <<
    [k_minus |-> <<<<0, 1, 2>>, <<3, 2, 1>>>>, j_pluss |-> <<<<6, 2, 7>>, <<3, 7, 2>>>>,
     i_minus |-> <<<<0, 2, 4>>, <<6, 4, 2>>>>, i_pluss |-> <<<<3, 1, 7>>, <<5, 7, 1>>>>,
     j_minus |-> <<<<0, 4, 1>>, <<5, 1, 4>>>>, k_pluss |-> <<<<5, 4, 7>>, <<6, 7, 4>>>>],
    [k_minus |-> <<<<1, 3, 0>>, <<2, 0, 3>>>>, j_pluss |-> <<<<2, 3, 6>>, <<7, 6, 3>>>>,
     i_minus |-> <<<<2, 6, 0>>, <<4, 0, 6>>>>, i_pluss |-> <<<<7, 3, 5>>, <<1, 5, 3>>>>,
     j_minus |-> <<<<1, 0, 5>>, <<4, 5, 0>>>>, k_pluss |-> <<<<7, 5, 6>>, <<4, 6, 5>>>>] >>

Minus == [i |-> "i_minus", j |-> "j_minus", k |-> "k_minus"]
Pluss == [i |-> "i_pluss", j |-> "j_pluss", k |-> "k_pluss"]
Faces == {Minus[a] : a \in Axes} \cup {Pluss[a] : a \in Axes}

(* Lengths of vectors add up to that of their sum if, and only if, they    *)
(* point the same way.                                                     *)
Along(a, b) == Cross(a, b) = Origin /\ Dot(a, b) >= 0

(* The areas of the triangles that p makes with the sides add up to that   *)
(* of the triangle; a triangle that is a line contains the points between  *)
(* its ends.                                                               *)
triangle_contains3d(p0, p1, p2, p) ==
    LET area == Cross(Sub(p1, p0), Sub(p2, p0))
        v1 == Cross(Sub(p1, p0), Sub(p, p0))
        v2 == Cross(Sub(p, p0), Sub(p2, p0))
        v3 == Cross(Sub(p2, p1), Sub(p, p1))
        ends == <<p0, p1, p2>>
    IN  IF area = Origin
        THEN /\ v1 = Origin /\ v2 = Origin /\ v3 = Origin
             /\ \A n \in 1 .. 3 : Lowest(ends, 1 .. 3, n) <= p[n] /\ p[n] <= Highest(ends, 1 .. 3, n)
        ELSE Along(v1, v2) /\ Along(v2, v3) /\ Along(v1, v3)

on_plane(corners, triangle, p) ==
    triangle_contains3d(corners[triangle[1]], corners[triangle[2]], corners[triangle[3]], p)

(* A cell has its minus faces, and passes its plus faces on to the next    *)
(* cell unless it is the last one; where it has no thickness, the last one *)
(* has both.                                                               *)
on_cell_face(corners, method, p, last_cell) ==
    LET touched == {f \in Faces : \E n \in 1 .. 2 :
                        on_plane(corners, tetrahedron_permutations[method][f][n], p)}
        collapsed == {a \in Axes : Minus[a] \in touched /\ Pluss[a] \in touched}
        kept  == IF \A a \in collapsed : last_cell[a] THEN touched ELSE {}
        on    == kept \ {Minus[a] : a \in {b \in Axes : Pluss[b] \in kept}}
    IN  IF touched = {} THEN "NOT_ON_FACE"
        ELSE IF on # {} /\ \A a \in Axes : Pluss[a] \in on => last_cell[a] THEN "BELONGS_TO_CELL"
        ELSE "BELONGS_TO_OTHER"

-----------------------------------------------------------------------------
(* The inside of a cell: a core with two diagonals of opposite faces, and  *)
(* four tetrahedrons around it.                                            *)

tetrahedron_volume6(t) == Dot(Sub(t[1], t[4]), Cross(Sub(t[2], t[4]), Sub(t[3], t[4])))
Volume6(t) == Absolute(tetrahedron_volume6(t))

tetrahedron_contains(t, p) ==
    /\ Volume6(t) # 0
    /\ Volume6(t) = Volume6([t EXCEPT ![1] = p]) + Volume6([t EXCEPT ![2] = p])
                  + Volume6([t EXCEPT ![3] = p]) + Volume6([t EXCEPT ![4] = p])

Tetrahedrons(corners, method) ==
    LET faces == tetrahedron_permutations[method]
        dia   == << <<faces.k_minus[1][2], faces.k_minus[1][3]>>,
                    <<faces.k_pluss[1][2], faces.k_pluss[1][3]>> >>
        extra == << <<faces.k_minus[1][1], faces.k_minus[2][1]>>,
                    <<faces.k_pluss[1][1], faces.k_pluss[2][1]>> >>
        nrs == {<<dia[1][1], dia[2][1], dia[1][2], dia[2][2]>>}
                   \cup UNION {{<<dia[n][1], dia[n][2], dia[3 - n][1], extra[n][1]>>,
                                <<dia[n][1], dia[3 - n][2], dia[n][2], extra[n][2]>>} : n \in 1 .. 2}
    IN  {[m \in 1 .. 4 |-> corners[t[m]]] : t \in nrs}

concave_cell_contains(corners, method, p) ==
    \E t \in Tetrahedrons(corners, method) : tetrahedron_contains(t, p)

cube_contains(corners, p) ==
    /\ Lowest(corners, 0 .. 3, 3) <= p[3] /\ p[3] <= Highest(corners, 4 .. 7, 3)
    /\ \A n \in 1 .. 2 : Lowest(corners, 0 .. 7, n) <= p[n] /\ p[n] <= Highest(corners, 0 .. 7, n)

get_twist(corners) == Cardinality({c \in 0 .. 3 : corners[c + 4][3] < corners[c][3]})

cell_contains_xyz(corners, method, last_cell, p) ==
    /\ cube_contains(corners, p)
    /\ LET status == on_cell_face(corners, method, p, last_cell)
       IN  \/ status = "BELONGS_TO_CELL"
           \/ /\ status = "NOT_ON_FACE"
              /\ get_twist(corners) = 0
              /\ concave_cell_contains(corners, method, p)

-----------------------------------------------------------------------------
(* The volume, 216 times: the sum of the determinants of the coefficients  *)
(* of the trilinear map from the unit cube to the cell.                    *)

Bits == {0, 1}

(* The coefficient of x^f1 y^f2 z^f3.                                      *)
C(r, f1, f2, f3) ==
    LET below == {<<b1, b2, b3>> \in Bits \X Bits \X Bits : b1 <= f1 /\ b2 <= f2 /\ b3 <= f3}
        Sign(b) == IF (f1 + f2 + f3 - b[1] - b[2] - b[3]) % 2 = 0 THEN 1 ELSE -1
    IN  FoldSet(LAMBDA b, sum : Add(sum, Scale(Sign(b), r[b[1] + 2 * b[2] + 4 * b[3]])), Origin, below)

cell_volume(corners) ==
    LET c == [f \in Bits \X Bits \X Bits |-> C(corners, f[1], f[2], f[3])]
        Term(p, q, r) ==
            (216 \div ((q[1] + r[1] + 1) * (p[1] + r[2] + 1) * (p[2] + q[2] + 1)))
                * Dot(c[<<1, p[1], p[2]>>], Cross(c[<<q[1], 1, q[2]>>], c[<<r[1], r[2], 1>>]))
    IN  Absolute(MapThenSumSet(LAMBDA t : Term(t[1], t[2], t[3]),
                               (Bits \X Bits) \X (Bits \X Bits) \X (Bits \X Bits)))

-----------------------------------------------------------------------------
(* Polygons in the plane, as sequences of <<x, y>>.                        *)

Side(polygon, n) == <<polygon[n], polygon[(n % Len(polygon)) + 1]>>

on_edge(a, b, p) ==
    /\ (p[1] - a[1]) * (b[2] - a[2]) = (p[2] - a[2]) * (b[1] - a[1])
    /\ \A n \in 1 .. 2 : Min({a[n], b[n]}) <= p[n] /\ p[n] <= Max({a[n], b[n]})

(* The side crosses the line that leads from p to the right.               *)
Crossed(a, b, p) ==
    /\ Min({a[2], b[2]}) < p[2] /\ p[2] <= Max({a[2], b[2]})
    /\ p[1] <= Max({a[1], b[1]})
    /\ (p[1] - a[1]) * Absolute(b[2] - a[2])
           <= (p[2] - a[2]) * (b[1] - a[1]) * (IF b[2] > a[2] THEN 1 ELSE -1)

polygon_contains_point(polygon, p) ==
    LET sides == {n \in DOMAIN polygon : Crossed(Side(polygon, n)[1], Side(polygon, n)[2], p)}
    IN  \/ \E n \in DOMAIN polygon : on_edge(Side(polygon, n)[1], Side(polygon, n)[2], p)
        \/ Cardinality(sides) % 2 = 1
=============================================================================
