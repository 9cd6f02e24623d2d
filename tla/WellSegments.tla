---------------------------- MODULE WellSegments ----------------------------
(***************************************************************************)
(* Connections and segments of a well at one time (well_conn.cpp,          *)
(* well_segment.cpp, well_segment_collection.cpp,                          *)
(* well_branch_collection.cpp), from the arrays of a restart file.         *)
(*                                                                         *)
(* An entry of ICON is [ic, k, dir, open, seg], one of ISEG is             *)
(* [outlet, branch]; segments are numbered from 1, and the outlet 0 is the *)
(* wellhead.                                                               *)
(***************************************************************************)
EXTENDS Integers, Sequences, SequencesExt

NormalWell == -999        \* WELL_CONN_NORMAL_WELL_SEGMENT_ID
FracX == 4
FracY == 5
NoOutlet == 0

-----------------------------------------------------------------------------
(* Layers of the fractures are numbered behind those of the matrix.        *)

Fracture(k, nz, dualp) == dualp /\ k >= nz \div 2
GeometricLayer(k, nz, dualp) == IF Fracture(k, nz, dualp) THEN k - (nz \div 2) ELSE k

(* InvalidConnection and InvalidDirection: such a connection is left out.  *)
Valid(icon, nz, dualp) ==
    /\ icon.ic > 0
    /\ icon.dir \in 0 .. FracY
    /\ icon.dir \in {FracX, FracY} => Fracture(icon.k, nz, dualp)

Connection(icon, factor, rate, nz, dualp) ==
    [k |-> GeometricLayer(icon.k, nz, dualp), matrix |-> ~Fracture(icon.k, nz, dualp),
     dir |-> IF icon.dir = 0 THEN 3 ELSE icon.dir, open |-> icon.open,
     segment_id |-> IF icon.seg = 0 THEN NormalWell ELSE icon.seg,
     factor |-> factor, rate |-> rate]

IsMSW(conn) == conn.segment_id # NormalWell

-----------------------------------------------------------------------------
(* Segments: a sequence of [id, outlet, branch, link_count, connections].  *)

(* Those that are in use, in the order of their numbers.                   *)
ActiveSegments(iseg) ==
    LET all == [n \in DOMAIN iseg |->
                   [id |-> n, outlet |-> iseg[n].outlet, branch |-> iseg[n].branch]]
    IN  SelectSeq(all, LAMBDA s : s.branch # 0)

Ids(segments) == {segments[n].id : n \in DOMAIN segments}

(* link: a segment is counted by its outlet when both are of one branch.   *)
(* Mutant: laterals are counted by the segment they leave from.            *)
LinkedByAll(segments, s) == {t \in DOMAIN segments : segments[t].outlet = s.id}

LinkedBy(segments, s) ==
    {t \in DOMAIN segments : segments[t].outlet = s.id /\ segments[t].branch = s.branch}

(* A segment takes the connections that name it, grid by grid.             *)
ConnectionsOf(conns, id) == SelectSeq(conns, LAMBDA c : c.segment_id = id)

Segments(iseg, connections) ==
    LET active == ActiveSegments(iseg)
    IN  [n \in DOMAIN active |->
            [id |-> active[n].id, outlet |-> active[n].outlet, branch |-> active[n].branch,
             link_count |-> Cardinality(LinkedBy(active, active[n])),
             connections |-> [grid \in DOMAIN connections |->
                                 ConnectionsOf(connections[grid], active[n].id)]]]

(* well_segment_collection_get gives nullptr for a segment that is not in  *)
(* use, and the caller goes on with it.                                    *)
NullSegment(iseg, connections) ==
    LET active == ActiveSegments(iseg)
    IN  \/ \E n \in DOMAIN active :
               active[n].outlet # NoOutlet /\ active[n].outlet \notin Ids(active)
        \/ active # <<>> /\ \E grid \in DOMAIN connections :
               \E c \in Range(connections[grid]) : IsMSW(c) /\ c.segment_id \notin Ids(active)

(* The segment that a branch starts with, the one no other of the branch   *)
(* flows into; of several the last one.  The segment at the wellhead       *)
(* starts nothing.                                                         *)
Starts(segments) ==
    LET ends == {n \in DOMAIN segments :
                     segments[n].link_count = 0 /\ segments[n].outlet # NoOutlet}
    IN  [b \in {segments[n].branch : n \in ends} |->
            segments[Max({n \in ends : segments[n].branch = b})].id]
=============================================================================
