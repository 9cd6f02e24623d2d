------------------------------ MODULE WellInfo ------------------------------
(***************************************************************************)
(* Wells and their time lines, loaded from restart files (well_info.cpp,   *)
(* well_state.cpp, well_ts.hpp) through the views of FileView: a unified   *)
(* file block by block, the global part of a step and the parts of its     *)
(* local grids each with headers and arrays of their own.                  *)
(*                                                                         *)
(* A file that is opened for its wells consists of keywords whose value is *)
(* the number of the block of data they belong to.                         *)
(***************************************************************************)
EXTENDS FileView, WellSegments

CONSTANTS
    Blocks,        \* sequence of blocks of data, see Keywords below
    Dir,           \* restart files: [type, report, steps], a step [global, lgrs]
    GridLgrs,      \* names of the local grids of the grid, in its order
    MaxLoads       \* bound: files that are loaded

(* Each step of a file is the global block and a block for each local      *)
(* grid, which has no keyword that the global one lacks but its own name;  *)
(* a unified file has a SEQNUM in each step, any other one step.           *)
ASSUME WellFilesAssumption ==
    /\ \A b \in DOMAIN Blocks : Blocks[b].nwells \in Nat
    /\ \A id \in DOMAIN Dir :
           /\ Dir[id].steps \in Seq(Range(Dir[id].steps))
           /\ Dir[id].type = "restart" => Len(Dir[id].steps) = 1
           /\ \A step \in Range(Dir[id].steps) :
                  /\ step.global \in DOMAIN Blocks /\ step.lgrs \in Seq(DOMAIN Blocks)
                  /\ Dir[id].type = "unified" => "SEQNUM" \in Blocks[step.global].has
                  /\ \A b \in Range(step.lgrs) :
                         Blocks[b].has \subseteq (Blocks[step.global].has \ {"SEQNUM"}) \cup {"LGR"}
    /\ NoName \notin {"SEQNUM", "LGR"}
    /\ MaxLoads \in Nat

VARIABLES
    opened,        \* the file that is open, or NoFile
    wells,         \* [names -> sequence of states]
    well_names,    \* in the order they were met
    loads          \* what was loaded: sequence of [id, segments, result]

wellVars == <<opened, wells, well_names, loads>>
allVars == <<vars, wellVars>>

NoFile == "none"
GLOBAL == "GLOBAL"

-----------------------------------------------------------------------------
(* What the simulator writes: the keywords of a block in this order, those *)
(* of block b that it has.                                                 *)

KeywordOrder ==
    <<"SEQNUM", "LGR", "INTEHEAD", "LOGIHEAD", "DOUBHEAD", "IWEL", "ZWEL", "XWEL", "ICON",
      "SCON", "XCON", "ISEG", "RSEG">>

BlockKeywords(b) ==
    LET kws[n \in 0 .. Len(KeywordOrder)] ==
            IF n = 0 THEN <<>>
            ELSE IF KeywordOrder[n] \notin Blocks[b].has THEN kws[n - 1]
            ELSE Append(kws[n - 1], [name |-> KeywordOrder[n], value |-> b])
    IN  kws[Len(KeywordOrder)]

StepKeywords(step) ==
    FlattenSeq(<<BlockKeywords(step.global)>>
               \o [n \in DOMAIN step.lgrs |-> BlockKeywords(step.lgrs[n])])

FileKeywords(id) ==
    FlattenSeq([n \in DOMAIN Dir[id].steps |-> StepKeywords(Dir[id].steps[n])])

(* The data of the first keyword of that name in a view.                   *)
Data(v, name) == Blocks[file[GetKw(v, name, 0)].value]

ViewOfBlock(v, start, n) == Indexed(file, Blockview(v, start, start, n))

-----------------------------------------------------------------------------
(* RSTHead::read needs both headers.                                       *)
HasHeader(v) == HasKw(v, "INTEHEAD") /\ HasKw(v, "DOUBHEAD")
Dualp(v) == HasKw(v, "LOGIHEAD") /\ Data(v, "LOGIHEAD").dualp

(* read_wellhead: none when the wellhead is in another grid.               *)
Wellhead(v, w) ==
    LET head == Data(v, "IWEL").wells[w].head
        nz == Data(v, "INTEHEAD").nz
    IN  IF head.i = 0 THEN <<>>
        ELSE <<[i |-> head.i - 1, k |-> GeometricLayer(head.k, nz, Dualp(v)),
                matrix |-> ~Fracture(head.k, nz, Dualp(v))]>>

(* Connections of well w of a view.                                        *)
ConnectionsIn(v, w) ==
    LET icon == SubSeq(Data(v, "ICON").wells[w].conns, 1, Data(v, "IWEL").wells[w].num)
        nz == Data(v, "INTEHEAD").nz
        conn(n) == Connection(icon[n],
                              IF HasKw(v, "SCON") THEN Data(v, "SCON").wells[w].conns[n].factor ELSE -1,
                              IF HasKw(v, "XCON") THEN Data(v, "XCON").wells[w].conns[n].rate ELSE 0,
                              nz, Dualp(v))
        valid == SelectSeq([n \in DOMAIN icon |-> n], LAMBDA n : Valid(icon[n], nz, Dualp(v)))
    IN  [n \in DOMAIN valid |-> conn(valid[n])]

(* get_lgr_well_nr: the number of a well in a local grid, 0 for none.      *)
WellNr(v, name) ==
    LET named == {w \in 1 .. Data(v, "INTEHEAD").nwells : Data(v, "ZWEL").wells[w].name = name}
    IN  IF ~HasKw(v, "ZWEL") \/ named = {} THEN 0 ELSE Min(named)

(* The search of a grid that has names and no wells runs past its end.     *)
WellNrFails(v) == HasKw(v, "ZWEL") /\ (~HasHeader(v) \/ Data(v, "INTEHEAD").nwells = 0)

(* add_LGR_connections: the n-th local grid of the restart step is taken   *)
(* for the n-th of the grid.  The local grids that have the well:          *)
(* Mutant: the parts of the step are counted from the global one.          *)
LgrViewsFromGlobal(v) ==
    [n \in 1 .. Min({Len(GridLgrs), NumNamedKw(v, "LGR") + 1}) |->
        IF n = 1 THEN v ELSE ViewOfBlock(v, "LGR", n - 2)]

LgrViews(v) ==
    [n \in 1 .. Min({Len(GridLgrs), NumNamedKw(v, "LGR")}) |-> ViewOfBlock(v, "LGR", n - 1)]

With(v, views, w, name) ==
    [grid \in {GLOBAL} \cup {GridLgrs[n] : n \in {m \in DOMAIN views : WellNr(views[m], name) > 0}} |->
        IF grid = GLOBAL THEN [view |-> v, nr |-> w]
        ELSE LET n == CHOOSE n \in DOMAIN views : GridLgrs[n] = grid
             IN  [view |-> views[n], nr |-> WellNr(views[n], name)]]

Connections(parts) ==
    [grid \in {g \in DOMAIN parts : HasKw(parts[g].view, "ICON")} |->
        ConnectionsIn(parts[grid].view, parts[grid].nr)]
Wellheads(parts) ==
    [grid \in {g \in DOMAIN parts : Wellhead(parts[g].view, parts[g].nr) # <<>>} |->
        Head(Wellhead(parts[grid].view, parts[grid].nr))]

(* add_MSW.                                                                *)
SegmentWell(v, w) ==
    IF HasKw(v, "ISEG") /\ HasKw(v, "RSEG") THEN Data(v, "IWEL").wells[w].segwell ELSE 0
Iseg(v, w, load) ==
    IF load /\ SegmentWell(v, w) # 0 THEN Data(v, "ISEG").segs[SegmentWell(v, w)] ELSE <<>>

-----------------------------------------------------------------------------
(* WellState::read_wells_in_restart.                                       *)

ReadFails(v, views, w) ==
    LET well == Data(v, "IWEL").wells[w]
    IN  \/ ~HasKw(v, "ZWEL")
        \/ well.type \notin 0 .. 4
        \/ well.type = 0 /\ well.open
        \/ \E n \in DOMAIN views :
               \/ WellNrFails(views[n])
               \/ /\ ~WellNrFails(views[n])
                  /\ WellNr(views[n], Data(v, "ZWEL").wells[w].name) > 0
                  /\ ~HasKw(views[n], "IWEL")

State(v, w, parts, connections, report, load) ==
    LET segments == Segments(Iseg(v, w, load), connections)
    IN  [name |-> Data(v, "ZWEL").wells[w].name, nr |-> w - 1,
         open |-> Data(v, "IWEL").wells[w].open, type |-> Data(v, "IWEL").wells[w].type,
         report |-> report, time |-> Data(v, "INTEHEAD").date,
         rate |-> IF HasKw(v, "XWEL") THEN Data(v, "XWEL").wells[w].rate ELSE 0,
         connections |-> connections, heads |-> Wellheads(parts),
         msw |-> SegmentWell(v, w) # 0, segments |-> segments, starts |-> Starts(segments)]

(* add_wells, from well w of a step on: a state that was read is appended  *)
(* at once, and stays when a later one fails.                              *)
Timeline(ws, name) == IF name \in DOMAIN ws THEN ws[name] ELSE <<>>

Appended(acc, s) ==
    [acc EXCEPT
        !.wells = [name \in DOMAIN @ \cup {s.name} |->
                      IF name = s.name THEN Append(Timeline(@, name), s) ELSE @[name]],
        !.names = IF s.name \in DOMAIN acc.wells THEN @ ELSE Append(@, s.name)]

AddWell(acc, v, views, w, report, load) ==
    IF acc.result # "fine" \/ ~HasKw(v, "IWEL") THEN acc
    ELSE IF ReadFails(v, views, w) THEN [acc EXCEPT !.result = "raises"]
    ELSE LET parts == With(v, views, w, Data(v, "ZWEL").wells[w].name)
         IN  IF NullSegment(Iseg(v, w, load), Connections(parts))
             THEN [acc EXCEPT !.result = "crashes"]
             ELSE Appended(acc, State(v, w, parts, Connections(parts), report, load))

AddWells(acc, v, views, report, load) ==
    IF ~HasHeader(v) THEN [acc EXCEPT !.result = "raises"]
    ELSE LET after[w \in 0 .. Data(v, "INTEHEAD").nwells] ==
                 IF w = 0 THEN acc ELSE AddWell(after[w - 1], v, views, w, report, load)
         IN  after[Data(v, "INTEHEAD").nwells]

(* add_UNRST_wells: one SEQNUM after the other; the report step is what it *)
(* says.                                                                   *)
(* Mutant: the number of the block is taken for the report step.           *)
BlockAsReport(acc, load) ==
    LET after[n \in 0 .. NumNamedKw(global_view, "SEQNUM")] ==
            IF n = 0 THEN acc
            ELSE IF after[n - 1].result # "fine" THEN after[n - 1]
            ELSE LET v == ViewOfBlock(global_view, "SEQNUM", n - 1)
                 IN  AddWells(after[n - 1], v, LgrViews(v), n, load)
    IN  after[NumNamedKw(global_view, "SEQNUM")]

AddUNRSTWells(acc, load) ==
    LET after[n \in 0 .. NumNamedKw(global_view, "SEQNUM")] ==
            IF n = 0 THEN acc
            ELSE IF after[n - 1].result # "fine" THEN after[n - 1]
            ELSE LET v == ViewOfBlock(global_view, "SEQNUM", n - 1)
                 IN  AddWells(after[n - 1], v, LgrViews(v), Data(v, "SEQNUM").report, load)
    IN  after[NumNamedKw(global_view, "SEQNUM")]

Loaded(acc, load) ==
    CASE Dir[opened].type = "unified" -> AddUNRSTWells(acc, load)
      [] Dir[opened].type = "restart" ->
             AddWells(acc, global_view, LgrViews(global_view), Dir[opened].report, load)
      [] OTHER -> [acc EXCEPT !.result = "raises"]

-----------------------------------------------------------------------------
Crashed == loads # <<>> /\ loads[Len(loads)].result = "crashes"

(* A client opens another file.                                            *)
Open(id) ==
    /\ ~Crashed /\ id # opened
    /\ file = <<>> \/ opened # NoFile
    /\ file' = FileKeywords(id)
    /\ global_view' = Indexed(file', [n \in DOMAIN file' |-> n])
    /\ view' = global_view' /\ answer' = Silent
    /\ opened' = id
    /\ UNCHANGED <<wells, well_names, loads>>

(* load_rstfile.                                                           *)
LoadRstfile(load) ==
    /\ ~Crashed /\ opened # NoFile /\ Len(loads) < MaxLoads
    /\ \E acc \in {Loaded([wells |-> wells, names |-> well_names, result |-> "fine"], load)} :
           /\ wells' = acc.wells
           /\ well_names' = acc.names
           /\ loads' = Append(loads, [id |-> opened, segments |-> load, result |-> acc.result])
    /\ UNCHANGED <<vars, opened>>

WellInit ==
    /\ Init
    /\ opened = NoFile /\ wells = <<>> /\ well_names = <<>> /\ loads = <<>>

(* Searching through any file, and loading wells from restart files.       *)
WellNext ==
    \/ opened = NoFile /\ Next /\ UNCHANGED wellVars
    \/ \E id \in DOMAIN Dir : Open(id)
    \/ \E load \in BOOLEAN : LoadRstfile(load)

WellSpec == WellInit /\ [][WellNext]_allVars
-----------------------------------------------------------------------------
(* What the files say, by their blocks and not through views.              *)

Entries(step, report) ==
    LET b == Blocks[step.global]
    IN  IF "IWEL" \notin b.has THEN <<>>
        ELSE [w \in 1 .. b.nwells |->
                 [name |-> b.wells[w].name, step |-> step, w |-> w, report |-> report]]

EntriesOf(id) ==
    FlattenSeq([n \in DOMAIN Dir[id].steps |->
        LET step == Dir[id].steps[n]
        IN  Entries(step, IF Dir[id].type = "unified" THEN Blocks[step.global].report
                          ELSE Dir[id].report)])

AllFine == \A n \in DOMAIN loads : loads[n].result = "fine"

(* The entries of all wells in what was loaded, with their loads.          *)
EntriesLoaded(load) ==
    LET entries == EntriesOf(load.id)
    IN  [n \in DOMAIN entries |-> [entry |-> entries[n], load |-> load]]

Entered == FlattenSeq([l \in DOMAIN loads |-> EntriesLoaded(loads[l])])

(* Those of a well among the first m entries.                              *)
EntriesWith(entered, m, name) == {k \in 1 .. m : entered[k].entry.name = name}

(* The state that is read for an entry.                                    *)
StateOf(ws, entered, m) ==
    LET name == entered[m].entry.name
    IN  ws[name][Cardinality(EntriesWith(entered, m, name))]

Tells(s, e) ==
    LET b == Blocks[e.step.global]
    IN  /\ s.report = e.report /\ s.time = b.date /\ s.nr = e.w - 1
        /\ s.open = b.wells[e.w].open /\ s.type = b.wells[e.w].type
        /\ s.rate = IF "XWEL" \in b.has THEN b.wells[e.w].rate ELSE 0

(* WellTimeLine, add_wells, add_UNRST_wells: whatever files were loaded    *)
(* before, unified or not, the time line of a well is one state for each   *)
(* report step that lists it, with the report step, the time, the status   *)
(* and the rate of that step, and nothing of another well or a local grid. *)
TimelineOfReports ==
    AllFine =>
        LET entered == Entered
        IN  /\ Range(well_names) = DOMAIN wells
            /\ DOMAIN wells = {entered[m].entry.name : m \in DOMAIN entered}
            /\ \A name \in DOMAIN wells :
                   Len(wells[name]) = Cardinality(EntriesWith(entered, Len(entered), name))
            /\ \A m \in DOMAIN entered : Tells(StateOf(wells, entered, m), entered[m].entry)

(* A layer of the fractures is the layer of the matrix at the same place.  *)
Place(c, b) ==
    [k |-> IF b.dualp THEN c.k % (b.nz \div 2) ELSE c.k,
     matrix |-> b.dualp => c.k < b.nz \div 2, open |-> c.open,
     factor |-> IF "SCON" \in b.has THEN c.factor ELSE -1,
     rate |-> IF "XCON" \in b.has THEN c.rate ELSE 0]

Listed(b, name) ==
    LET well == CHOOSE well \in Range(SubSeq(b.wells, 1, b.nwells)) : well.name = name
        placed == [n \in 1 .. well.num |-> [c |-> well.conns[n], place |-> Place(well.conns[n], b)]]
        here == SelectSeq(placed, LAMBDA p :
                    /\ p.c.ic > 0 /\ p.c.dir \in 0 .. 5
                    /\ p.c.dir \in {4, 5} => ~p.place.matrix)
    IN  [n \in DOMAIN here |-> here[n].place]

GridNames(step) == {GLOBAL} \cup {Blocks[b].lgr : b \in Range(step.lgrs)}
BlockOf(step, grid) ==
    Blocks[IF grid = GLOBAL THEN step.global
           ELSE CHOOSE b \in Range(step.lgrs) : Blocks[b].lgr = grid]

HasWell(b, name) ==
    "IWEL" \in b.has /\ name \in {b.wells[w].name : w \in 1 .. b.nwells}

InGridOrder(step) ==
    /\ Len(step.lgrs) <= Len(GridLgrs)
    /\ \A n \in DOMAIN step.lgrs : Blocks[step.lgrs[n]].lgr = GridLgrs[n]

(* add_global_connections, add_LGR_connections, from_keywords: a state has *)
(* connections in exactly the grids that list the well, in each grid those *)
(* listed there in their order, at the geometric layer, with the factors   *)
(* and rates of the grid's own arrays, when the local grids of the step    *)
(* come in the order of the grid.                                          *)
ConnectionsOfGrid ==
    AllFine =>
        LET entered == Entered
        IN  \A m \in DOMAIN entered :
                LET step == entered[m].entry.step
                    name == entered[m].entry.name
                    found == StateOf(wells, entered, m).connections
                    grids == {g \in GridNames(step) :
                                  HasWell(BlockOf(step, g), name) /\ "ICON" \in BlockOf(step, g).has}
                IN  InGridOrder(step) =>
                        /\ DOMAIN found = grids
                        /\ \A g \in grids :
                               [n \in DOMAIN found[g] |->
                                   [k |-> found[g][n].k, matrix |-> found[g][n].matrix,
                                    open |-> found[g][n].open, factor |-> found[g][n].factor,
                                    rate |-> found[g][n].rate]]
                               = Listed(BlockOf(step, g), name)

(* The segments on the way from one to the wellhead.                       *)
Downstream(iseg, s) ==
    LET walk[n \in 0 .. Len(iseg)] ==
            IF n = 0 THEN {s}
            ELSE (walk[n - 1] \cup {iseg[t].outlet : t \in walk[n - 1]}) \ {NoOutlet}
    IN  walk[Len(iseg)]

(* well_branch_collection.hpp: each branch that is one line of segments    *)
(* has a start, its end away from the wellhead, from where the outlets     *)
(* lead through all of it, wherever laterals leave it; only the lone       *)
(* segment at the wellhead has none.                                       *)
BranchesFromStart ==
    AllFine =>
        LET entered == Entered
        IN  \A m \in DOMAIN entered :
                LET b == Blocks[entered[m].entry.step.global]
                    state == StateOf(wells, entered, m)
                    iseg == b.segs[b.wells[entered[m].entry.w].segwell]
                    Of(branch) == {s \in DOMAIN iseg : iseg[s].branch = branch}
                IN  (state.msw /\ entered[m].load.segments) =>
                        \A branch \in {iseg[s].branch : s \in DOMAIN iseg} \ {0} :
                            \/ \E s \in Of(branch) : Of(branch) = {s} /\ iseg[s].outlet = NoOutlet
                            \/ /\ branch \in DOMAIN state.starts
                               /\ state.starts[branch] \in Of(branch)
                               /\ Of(branch) \subseteq Downstream(iseg, state.starts[branch])
=============================================================================
