------------------------------ MODULE GridFile ------------------------------
(***************************************************************************)
(* Grids and their files (rd_grid.cpp, nnc_info.cpp, nnc_vector.cpp): the  *)
(* main grid, whose numbering is that of GridIndex, its local grids        *)
(* (LGRs), which may be nested, and the connections between cells that are *)
(* no neighbours (NNCs), written to and loaded from the EGRID and GRID     *)
(* files of one case.                                                      *)
(*                                                                         *)
(* Coordinates stand for the unit they are in, as the factors of feet and  *)
(* of centimetres they have been multiplied with.                          *)
(***************************************************************************)
EXTENDS GridIndex, SequencesExt

CONSTANTS
    Cases,          \* files of a simulator: [FileNames -> file or NoFile]
    Actnums,        \* active values that clients set, [Cells -> ActiveValues]
    Units,          \* units that clients write files in
    Targets,        \* names that clients write to
    Inputs,         \* names that clients load a case by
    MaxWrites,      \* bound: files that are written
    MaxNncs         \* bound: connections of a grid that clients add to; they
                    \* connect a cell with the next one

VARIABLES
    unit, axes,     \* main grid: unit_system, mapaxes: "none", "applied", "kept"
    lgrs,           \* LGR_list: sequence of [name, parent, nr, host, active, unit]
    scale,          \* per grid, 0 for the main one: factors of its coordinates
    cell_lgr,       \* per grid and cell: its LGR, <<which load or copy, which LGR>>
    nnc,            \* per grid: sequence of [at, own, lgr, to, idx]
    gen,            \* which load or copy the grid is
    dir,            \* the files
    saved,          \* ghost: the grid as it was when each file was written
    writes,
    last            \* the last call: [op, name, result]

gridVars == <<unit, axes, lgrs, scale, cell_lgr, nnc, gen>>
fileVars == <<dir, saved, writes>>
allVars == <<vars, gridVars, fileVars, last>>

FileNames == {"EGRID", "GRID", "FEGRID", "FGRID"}
NoFile  == [kind |-> "none"]
NoLgr   == <<0, 0>>
NoActnum == <<>>
Done(op, name, result) == last' = [op |-> op, name |-> name, result |-> result]

-----------------------------------------------------------------------------
(* The LGRs gs of a main grid.                                             *)

CellsOf(gs, h) == IF h = 0 THEN Cells ELSE DOMAIN gs[h].host
Nr(gs, h) == IF h = 0 THEN 0 ELSE gs[h].nr

(* Where LGR i is installed: the main grid, or the LGR that has the name   *)
(* of its parent by then; -1 when there is none.                           *)
HostOf(gs, i) ==
    IF gs[i].parent = "" THEN 0
    ELSE LET named == {j \in 1 .. i : gs[j].name = gs[i].parent}
         IN  IF named = {} THEN -1 ELSE Max(named)

Installs(gs, i) ==
    HostOf(gs, i) # -1 /\ Range(gs[i].host) \subseteq CellsOf(gs, HostOf(gs, i))

(* The cells that LGRs refine point to them.                               *)
Refining(gs, h, c) == {i \in DOMAIN gs : HostOf(gs, i) = h /\ c \in Range(gs[i].host)}
install_lgr(gs, g, old) ==
    [h \in 0 .. Len(gs) |-> [c \in CellsOf(gs, h) |->
        IF Refining(gs, h, c) = {} THEN old[h][c] ELSE <<g, Max(Refining(gs, h, c))>>]]
Bare(gs) == [h \in 0 .. Len(gs) |-> [c \in CellsOf(gs, h) |-> NoLgr]]

(* lgr_index_map: numbers that no LGR has lead to the first one.           *)
lgr_index_map(gs) ==
    [nr \in {n \in 0 .. Max({0} \cup {gs[i].nr : i \in DOMAIN gs}) : gs # <<>>} |->
        LET numbered == {i \in DOMAIN gs : gs[i].nr = nr}
        IN  IF numbered = {} THEN 1 ELSE Max(numbered)]
GridNumbered(gs, nr) ==
    IF nr = 0 THEN 0
    ELSE IF nr \in DOMAIN lgr_index_map(gs) THEN lgr_index_map(gs)[nr] ELSE -1

-----------------------------------------------------------------------------
(* Connections.  A cell's nnc_info keeps the number its grid had when it   *)
(* was made.                                                               *)

Own(list, c, nr) ==
    LET same == {n \in DOMAIN list : list[n].at = c}
    IN  IF same = {} THEN nr ELSE list[Min(same)].own

Entry(list, at, nr, to, toNr, idx) ==
    [at |-> at, own |-> Own(list, at, nr), lgr |-> toNr, to |-> to, idx |-> idx]

(* The pairs of a file, in dual porosity up to the first one that has a    *)
(* fracture cell, which are numbered behind the matrix cells.              *)
Beyond(gs, from, to, pairs) ==
    {n \in DOMAIN pairs : ~ (pairs[n][1] \in CellsOf(gs, from) /\ pairs[n][2] \in CellsOf(gs, to))}
Taken(gs, from, to, pairs) ==
    IF ~DualPorosity \/ Beyond(gs, from, to, pairs) = {} THEN pairs
    ELSE SubSeq(pairs, 1, Min(Beyond(gs, from, to, pairs)) - 1)

init_nnc_cells(list, gs, from, to, pairs) ==
    list \o [n \in DOMAIN pairs |->
        Entry(list, pairs[n][1], Nr(gs, from), pairs[n][2], Nr(gs, to), n - 1)]

Link(lists, gs, from, to, pairs) ==
    [lists EXCEPT ![from] = init_nnc_cells(@, gs, from, to, Taken(gs, from, to, pairs))]

init_nnc(gs, links) ==
    LET lists[n \in 0 .. Len(links)] ==
            IF n = 0 THEN [h \in 0 .. Len(gs) |-> <<>>]
            ELSE Link(lists[n - 1], gs, GridNumbered(gs, links[n].from),
                      GridNumbered(gs, links[n].to), links[n].pairs)
    IN  lists[Len(links)]

LinkFails(gs, l) ==
    LET from == GridNumbered(gs, l.from)
        to == GridNumbered(gs, l.to)
    IN  \/ from = -1 \/ to = -1
        \/ from # -1 /\ to # -1 /\ ~DualPorosity
               /\ \E n \in DOMAIN l.pairs : l.pairs[n][1] \notin CellsOf(gs, from)

(* What rd_grid_fwrite_self_nnc writes: the connections within the grid,   *)
(* by nnc_index; the last cell that has an index takes it, and an index    *)
(* that no cell has connects the first cell with itself.                   *)
SelfEntries(list) == {n \in DOMAIN list : list[n].lgr = list[n].own}
Later(list, m, n) == list[m].at < list[n].at \/ (list[m].at = list[n].at /\ m <= n)
PairOf(list, idx) ==
    LET of == {n \in SelfEntries(list) : list[n].idx = idx}
    IN  IF of = {} THEN <<0, 0>>
        ELSE LET n == CHOOSE n \in of : \A m \in of : Later(list, m, n)
             IN  <<list[n].at, list[n].to>>

(* Mutant: connections are written in the order of the cells.              *)
InCellOrder(list) ==
    [k \in 1 .. Cardinality(SelfEntries(list)) |->
        LET n == CHOOSE n \in SelfEntries(list) :
                     Cardinality({m \in SelfEntries(list) : Later(list, m, n)}) = k
        IN  <<list[n].at, list[n].to>>]

self_nnc(list) ==
    [k \in 1 .. Max({0} \cup {list[n].idx + 1 : n \in SelfEntries(list)}) |-> PairOf(list, k - 1)]

-----------------------------------------------------------------------------
(* Units.                                                                  *)

UnitNames == {"METRIC", "FIELD", "LAB"}
Factors(u) == CASE u = "METRIC" -> <<0, 0>> [] u = "FIELD" -> <<1, 0>> [] u = "LAB" -> <<0, 1>>
output_scaling(s, from, to) ==
    [n \in 1 .. 2 |-> s[n] - Factors(from)[n] + Factors(to)[n]]

-----------------------------------------------------------------------------
(* Files: [kind, unit, axes, sections, links], a section for each grid:    *)
(* [name, parent, nr, actnum, host, scale].                                *)

(* In EGRID files the i-th grid takes the i-th ACTNUM of the file; in GRID *)
(* files every cell says whether it is active, or none does.               *)
ActnumOf(f, i) ==
    LET given == {n \in DOMAIN f.sections : f.kind = "GRID" \/ f.sections[n].actnum # NoActnum}
        ith == {n \in given : /\ Cardinality({m \in given : m <= n}) = i
                              /\ f.sections[n].actnum # NoActnum}
    IN  IF ith # {} THEN f.sections[CHOOSE n \in ith : TRUE].actnum
        ELSE [c \in (IF i = 1 THEN Cells ELSE DOMAIN f.sections[i].host) |->
                 IF f.kind = "GRID" THEN Kinds ELSE {"matrix"}]

(* LGRs are metric whatever the main grid is; in GRID files they are       *)
(* numbered as they come.                                                  *)
LgrsOf(f) ==
    [i \in 1 .. Len(f.sections) - 1 |->
        LET s == f.sections[i + 1]
        IN  [name |-> s.name, parent |-> s.parent,
             nr |-> IF f.kind = "EGRID" THEN s.nr ELSE i,
             host |-> s.host, active |-> ActnumOf(f, i + 1), unit |-> "METRIC"]]

(* A file has a section for the main grid at least, whose active values    *)
(* are those of its cells; local grids have cells, and all cells that are  *)
(* linked are numbered from 0.                                             *)
ArePairs(pairs) == pairs \in Seq(Range(pairs)) /\ \A n \in DOMAIN pairs : pairs[n][2] \in Nat

IsFile(f) ==
    /\ f.unit \in UnitNames /\ f.axes \in BOOLEAN
    /\ f.sections \in Seq(Range(f.sections)) /\ f.sections # <<>>
    /\ ActnumOf(f, 1) \in [Cells -> ActiveValues]
    /\ \A n \in DOMAIN f.sections : f.sections[n].scale \in [1 .. 2 -> Int]
    /\ \A n \in 2 .. Len(f.sections) :
           /\ f.sections[n].nr \in Nat
           /\ 0 \in DOMAIN f.sections[n].host /\ DOMAIN f.sections[n].host \subseteq Nat
    /\ f.links \in Seq(Range(f.links))
    /\ \A l \in Range(f.links) : ArePairs(l.pairs)

ASSUME GridFileAssumption ==
    /\ \A files \in Cases :
           /\ DOMAIN files = FileNames
           /\ \A name \in FileNames : files[name] = NoFile \/ IsFile(files[name])
    /\ Actnums \subseteq [Cells -> ActiveValues]
    /\ Units \subseteq UnitNames
    /\ Inputs \subseteq FileNames \cup {"OTHER", "UNRST", "FUNRST"}

LoadFails(f, gs) ==
    (\E i \in DOMAIN gs : ~Installs(gs, i)) \/ (\E l \in Range(f.links) : LinkFails(gs, l))

GridOf(f, gs, apply) ==
    /\ UpdateIndex(ActnumOf(f, 1), NoRecord, NoRecord, NoInverse)
    /\ unit' = f.unit
    /\ axes' = CASE ~f.axes -> "none" [] f.axes /\ apply -> "applied" [] OTHER -> "kept"
    /\ lgrs' = gs
    /\ scale' = [h \in 0 .. Len(gs) |-> f.sections[h + 1].scale]
    /\ cell_lgr' = install_lgr(gs, gen + 1, Bare(gs))
    /\ nnc' = init_nnc(gs, f.links)
    /\ gen' = gen + 1

Loaded(name, f, gs, apply) ==
    IF LoadFails(f, gs)
    THEN UNCHANGED <<vars, gridVars>> /\ Done("load", name, "raises")
    ELSE GridOf(f, gs, apply) /\ Done("load", name, "fine")

LoadFile(name, apply) ==
    /\ dir[name] # NoFile
    /\ Loaded(name, dir[name], LgrsOf(dir[name]), apply)
    /\ UNCHANGED fileVars

(* rd_grid_load_case: the files that are looked for, by what is known of   *)
(* the input's format.                                                     *)
Candidates(input) ==
    CASE input \in FileNames -> <<input>>
      [] input = "OTHER"  -> <<"EGRID", "GRID", "FEGRID", "FGRID">>
      [] input = "UNRST"  -> <<"EGRID", "GRID">>
      [] input = "FUNRST" -> <<"FEGRID", "FGRID">>

LoadCase(input) ==
    LET found == {n \in DOMAIN Candidates(input) : dir[Candidates(input)[n]] # NoFile}
    IN  IF found = {}
        THEN UNCHANGED <<vars, gridVars, fileVars>> /\ Done("load_case", input, "none")
        ELSE LoadFile(Candidates(input)[Min(found)], TRUE)

(* rd_grid_init_actnum_data: for the cells of a coarse group what is on    *)
(* record.                                                                 *)
ActnumData(act, cells, values) ==
    [c \in Cells |->
        IF CoarseGroup[c] = NoGroup THEN act[c]
        ELSE LET group == CoarseGroup[c]
                 on == {n \in DOMAIN cells[group] : cells[group][n] = c}
             IN  IF on = {} THEN Inactive ELSE values[group][Max(on)]]

(* The grid as it is.                                                      *)
Now ==
    [active |-> active, index_map |-> index_map, inv_index_map |-> inv_index_map,
     total_active |-> total_active, group_index |-> group_index,
     active_cells |-> active_cells, active_values |-> active_values,
     unit |-> unit, axes |-> axes, lgrs |-> lgrs, scale |-> scale, nnc |-> nnc,
     actnum |-> ActnumData(active, active_cells, active_values)]

Section(name, parent, nr, actnum, host, s) ==
    [name |-> name, parent |-> parent, nr |-> nr, actnum |-> actnum, host |-> host, scale |-> s]

OwnLinks(gs, lists) ==
    [n \in 1 .. Len(gs) + 1 |->
        [from |-> Nr(gs, n - 1), to |-> Nr(gs, n - 1), pairs |-> self_nnc(lists[n - 1])]]

(* Mutant: no LGR_PARENT is written.                                       *)
ParentsLost(g, u) ==
    [kind |-> "EGRID", unit |-> u, axes |-> g.axes # "none",
     sections |-> <<Section("", "", 0, g.actnum, <<>>, output_scaling(g.scale[0], g.unit, u))>>
                  \o [i \in DOMAIN g.lgrs |->
                         Section(g.lgrs[i].name, "", g.lgrs[i].nr, g.lgrs[i].active,
                                 g.lgrs[i].host, output_scaling(g.scale[i], g.lgrs[i].unit, u))],
     links |-> OwnLinks(g.lgrs, g.nnc)]

EGRIDFile(g, u) ==
    [kind |-> "EGRID", unit |-> u, axes |-> g.axes # "none",
     sections |-> <<Section("", "", 0, g.actnum, <<>>, output_scaling(g.scale[0], g.unit, u))>>
                  \o [i \in DOMAIN g.lgrs |->
                         Section(g.lgrs[i].name, g.lgrs[i].parent, g.lgrs[i].nr, g.lgrs[i].active,
                                 g.lgrs[i].host, output_scaling(g.scale[i], g.lgrs[i].unit, u))],
     links |-> OwnLinks(g.lgrs, g.nnc)]

(* A GRID file holds the corners as they are, no parents and no            *)
(* connections, and the mapaxes when they are in use.                      *)
GRIDFile(g, u) ==
    [kind |-> "GRID", unit |-> u, axes |-> g.axes = "applied",
     sections |-> <<Section("", "", 0, g.active, <<>>, g.scale[0])>>
                  \o [i \in DOMAIN g.lgrs |->
                         Section(g.lgrs[i].name, "", 0, g.lgrs[i].active, g.lgrs[i].host, g.scale[i])],
     links |-> <<>>]

Write(name, f) ==
    /\ writes < MaxWrites
    /\ dir' = [dir EXCEPT ![name] = f]
    /\ saved' = [saved EXCEPT ![name] = Now]
    /\ writes' = writes + 1
    /\ Done("write", name, "fine")
    /\ UNCHANGED <<vars, gridVars>>

WriteEGRID(name, u) == name \in {"EGRID", "FEGRID"} /\ Write(name, EGRIDFile(Now, u))
WriteGRID(name, u) == name \in {"GRID", "FGRID"} /\ Write(name, GRIDFile(Now, u))

-----------------------------------------------------------------------------
(* Calls on a grid.                                                        *)

(* The cells of the copy point where the original's do until the copied    *)
(* LGRs are installed; the number of every grid of the copy is 0.          *)
Copied(gs) == [i \in DOMAIN gs |-> [gs[i] EXCEPT !.nr = 0]]

CopiedPointers(gs) == install_lgr(gs, gen + 1, cell_lgr)

CopyGrid ==
    /\ AllocCopy
    /\ lgrs' = Copied(lgrs)
    /\ cell_lgr' = CopiedPointers(Copied(lgrs))
    /\ gen' = gen + 1
    /\ Done("copy", "", "fine")
    /\ UNCHANGED <<unit, axes, scale, nnc, fileVars>>

SetActnum(actnum) ==
    /\ ResetActnum(actnum)
    /\ Done("reset_actnum", "", "fine")
    /\ UNCHANGED <<gridVars, fileVars>>

(* rd_grid_add_self_nnc; clients number the connections as they add them, *)
(* or add one with a number they used before.                              *)
AddSelfNnc(h, c1, c2, idx) ==
    /\ nnc' = [nnc EXCEPT ![h] = Append(@, Entry(@, c1, Nr(lgrs, h), c2, Nr(lgrs, h), idx))]
    /\ Done("add_self_nnc", "", "fine")
    /\ UNCHANGED <<vars, unit, axes, lgrs, scale, cell_lgr, gen, fileVars>>

-----------------------------------------------------------------------------
GridInit ==
    /\ Init
    /\ dir \in Cases
    /\ saved = [name \in FileNames |-> NoFile]
    /\ unit = "METRIC" /\ axes = "none" /\ lgrs = <<>>
    /\ scale = [h \in {0} |-> <<0, 0>>]
    /\ cell_lgr = Bare(<<>>)
    /\ nnc = [h \in {0} |-> <<>>]
    /\ gen = 0 /\ writes = 0
    /\ last = [op |-> "none", name |-> "", result |-> "fine"]

MayLoad == status = "ok" /\ updates < MaxUpdates
InUse == status = "ok" /\ updates > 0

GridNext ==
    \/ \E input \in Inputs : MayLoad /\ LoadCase(input)
    \/ \E name \in FileNames, apply \in BOOLEAN : MayLoad /\ LoadFile(name, apply)
    \/ \E name \in Targets, u \in Units : InUse /\ WriteEGRID(name, u)
    \/ \E name \in Targets, u \in Units : InUse /\ WriteGRID(name, u)
    \/ InUse /\ CopyGrid
    \/ \E actnum \in Actnums : InUse /\ SetActnum(actnum)
    \/ /\ InUse /\ writes < MaxWrites
       /\ \E h \in 0 .. Len(lgrs) : \E a \in CellsOf(lgrs, h) :
              /\ a + 1 \in CellsOf(lgrs, h) /\ Len(nnc[h]) < MaxNncs
              /\ \E idx \in 0 .. Len(nnc[h]) + 1 : AddSelfNnc(h, a, a + 1, idx)

GridSpec == GridInit /\ [][GridNext]_allVars
-----------------------------------------------------------------------------
(* A file that this library wrote, and the grid it was written from.       *)
ReadBack(names) ==
    last.op = "load" /\ last.result = "fine" /\ last.name \in names /\ saved[last.name] # NoFile
Written == saved[last.name]

AsRecorded(s) == \A c \in Groups : s.active_cells[c] = InOrder(ActiveMembers(s.active, c))

(* A grid read from the file it was saved to has the cells, the numbering, *)
(* the local grids in their hosts and the map axes it had, and its         *)
(* coordinates have the same lengths, whatever unit the file is in: an     *)
(* EGRID file unless coarse groups have been changed by actnum, for the    *)
(* nesting and the lengths of an EGRID file of a metric grid, and a GRID   *)
(* file for the axes that are in use (rd_grid_compare, save_EGRID).        *)
GridComesBack ==
    /\ ReadBack(FileNames) =>
           /\ AsRecorded(Written) =>
                  /\ active = Written.active /\ total_active = Written.total_active
                  /\ index_map = Written.index_map /\ inv_index_map = Written.inv_index_map
           /\ Len(lgrs) = Len(Written.lgrs)
           /\ \A i \in DOMAIN lgrs : /\ lgrs[i].name = Written.lgrs[i].name
                                     /\ lgrs[i].active = Written.lgrs[i].active
                                     /\ lgrs[i].host = Written.lgrs[i].host
           /\ Written.axes = "applied" => axes # "none"
    /\ ReadBack({"EGRID", "FEGRID"}) =>
           /\ (axes = "none") = (Written.axes = "none")
           /\ \A i \in DOMAIN lgrs : HostOf(lgrs, i) = HostOf(Written.lgrs, i)
           /\ output_scaling(scale[0], unit, Written.unit) = Written.scale[0]
           /\ Written.unit = "METRIC" =>
                  \A i \in DOMAIN lgrs : output_scaling(scale[i], unit, "METRIC") = Written.scale[i]

(* The connections within each grid come back from an EGRID file at the    *)
(* number they had, which is the number their transmissibility has in the  *)
(* INIT file (comment of rd_grid_add_self_nnc), as long as the local grids *)
(* have the numbers the file gave them.                                    *)
Indices(list) == {list[n].idx : n \in SelfEntries(list)}
Numbered(gs) == \A i, j \in DOMAIN gs : gs[i].nr > 0 /\ (i # j => gs[i].nr # gs[j].nr)

ConnectionsComeBack ==
    ReadBack({"EGRID", "FEGRID"}) /\ Numbered(Written.lgrs) =>
        \A h \in DOMAIN nnc : \A k \in Indices(Written.nnc[h]) \cup Indices(nnc[h]) :
            PairOf(nnc[h], k) = PairOf(Written.nnc[h], k)

(* What rd_grid_test_lgr_consistency looks for, in every copy: the host    *)
(* cells of a local grid point to that local grid, and no cell points into *)
(* a grid that the copy was made from.  Two local grids that refine the    *)
(* same cell (a nested one in a GRID file loses its parent) are left out.  *)
LgrsHosted ==
    /\ \A h \in DOMAIN cell_lgr : \A c \in DOMAIN cell_lgr[h] :
           cell_lgr[h][c] # NoLgr => cell_lgr[h][c][1] = gen
    /\ \A i \in DOMAIN lgrs : \A c \in Range(lgrs[i].host) :
           Refining(lgrs, HostOf(lgrs, i), c) = {i} => cell_lgr[HostOf(lgrs, i)][c] = <<gen, i>>

(* A grid that was loaded, or copied, is whole: it is the one that was     *)
(* saved, and its local grids are its own.                                 *)
GridsComeBack == GridComesBack /\ LgrsHosted
=============================================================================
