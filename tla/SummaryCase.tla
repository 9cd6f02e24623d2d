---------------------------- MODULE SummaryCase ----------------------------
(***************************************************************************)
(* rd_sum.cpp, the values of rd_sum_data.cpp, rd_sum_tstep.cpp,            *)
(* rd_sum_vector.cpp and Summary of rd_sum.py: a case is written variable  *)
(* by variable and step by step, saved, loaded with the cases it was       *)
(* restarted from, resampled, and turned into a frame and back.            *)
(*                                                                         *)
(* Times are hours from an epoch.  Which steps of which file a chain has   *)
(* is SummaryData's; report steps are left to it.                          *)
(***************************************************************************)
EXTENDS SummaryHeader

CONSTANTS
    Cases,          \* names that cases are written under
    Copies,         \* names that copies are given
    Foreign,        \* what simulators may have written: case -> [smspec, steps]
    Vars,           \* [kw, wgname, num, lgr, lgr_ijk]: what clients add
    Defaults,       \* default values of variables
    Values,         \* values of variables
    Joins,          \* strings that keys are joined by
    Dims,           \* dimensions of the grid
    Starts,         \* start times of writers, in hours
    DateHours,      \* <<day, month, year>> -> hours from the epoch, of rd_make_date
    StepHours,      \* bound: times are multiples of it
    SampleTimes,    \* sequences of times to resample at
    MaxVars,        \* bound: variables added to a writer
    MaxSteps,       \* bound: steps added to a writer
    MaxValues,      \* bound: values set in a writer
    MaxOnDisk       \* bound: cases on disk, with which none is created or saved

VARIABLES
    disk,   \* case -> [smspec, steps]
    sum,    \* the case at hand: [kind, case, header, files, set]
    last    \* the operation that made it, and what from

vars == <<disk, sum, last>>

NoSum  == [kind |-> "none"]
NoCall == [op |-> "none"]
None   == -1

Chain == INSTANCE SummaryData WITH
    data_files <- <<>>, index <- <<>>, call <- NoCall, UnifiedFiles <- {}, SeparateFiles <- {},
    FirstSteps <- {}, Garbage <- {}, MaxTime <- 0, MaxReport <- 0, MaxCases <- 0

-----------------------------------------------------------------------------
(* The steps and the values of a case.                                     *)

LengthOf(s, n) ==
    IF n = Len(s.files) THEN Len(s.files[n].index)
    ELSE Chain!LengthBefore(s.files[n], Chain!DataStart(s.files[n + 1]))

(* The steps that a chain shows, in order: the file and the step in it.    *)
Timeline(s) ==
    FlattenSeq([n \in DOMAIN s.files |-> [i \in 1 .. LengthOf(s, n) |-> <<n, i>>]])

HeaderOf(s, n) == IF s.kind = "writer" THEN s.header ELSE s.files[n].header

TimeAt(s, at) == s.files[at[1]].index[at[2]].time
SimTimes(s)   == [t \in DOMAIN Timeline(s) |-> TimeAt(s, Timeline(s)[t])]

(* rd_sum_data_iget                                                        *)
IGet(s, at, params_index) ==
    LET column == alloc_mapping(s.header, HeaderOf(s, at[1]))[params_index]
    IN  IF column >= 0 THEN s.files[at[1]].index[at[2]].data[column + 1]
        ELSE NodeOfIndex(s.header, params_index).default

get_general_var(s, at, key) == IGet(s, at, general_var_node(s.header, key).index)

(* Every key's value at every step.                                        *)
KeyValues(s) ==
    [t \in DOMAIN Timeline(s) |->
        [k \in KeyList(s.header) |-> get_general_var(s, Timeline(s)[t], k)]]

-----------------------------------------------------------------------------
(* Values between the steps.                                               *)

(* rd_sum_vector with all keywords: the variables but TIME.                *)
SumVector(header) == SelectSeq(header.nodes, LAMBDA node : Head(node.keys).kw # "TIME")

(* init_interp_from_sim_time and vector_iget: a rate is that of the step   *)
(* that ends at or after the time, the rest is interpolated.               *)
Interpolated(s, node, t) ==
    LET steps == Timeline(s)
        times == SimTimes(s)
        idx   == CHOOSE i \in DOMAIN steps :
                     times[i] >= t /\ \A j \in DOMAIN steps : times[j] >= t => i <= j
        v(i)  == IGet(s, steps[i], node.index)
    IN  IF node.rate \/ idx = 1 THEN v(idx)
        ELSE (v(idx - 1) * (times[idx] - t) + v(idx) * (t - times[idx - 1]))
               \div (times[idx] - times[idx - 1])

(* A time before the first step or after the last.                         *)
Clamped(s, node, at) == IF node.rate THEN 0 ELSE IGet(s, at, node.index)

DataStartOf(s) == Chain!DataStart(Head(s.files))
SimEndOf(s)    == Chain!SimEnd(Last(s.files))

(* Mutant: clamped values are put where the first variable is, too.        *)
SampledFromZero(s, t, data) ==
    LET vector == SumVector(s.header)
        Clamp(at) == [n \in 1 .. Larger(Len(data), Len(s.header.nodes) - 1) |->
                         IF n <= Len(s.header.nodes) THEN Clamped(s, s.header.nodes[n], at)
                         ELSE data[n]]
    IN  IF t < DataStartOf(s) THEN Clamp(Head(Timeline(s)))
        ELSE IF t > SimEndOf(s) THEN Clamp(Last(Timeline(s)))
        ELSE [n \in DOMAIN vector |-> Interpolated(s, vector[n], t)]

(* The values of one time in alloc_resample: clamped ones of the variables *)
(* from the second on, with data of the time before left where there are   *)
(* no more; others of all but TIME.                                        *)
Sampled(s, t, data) ==
    LET vector == SumVector(s.header)
        Clamp(at) == [n \in 1 .. Larger(Len(data), Len(s.header.nodes) - 1) |->
                         IF n < Len(s.header.nodes) THEN Clamped(s, s.header.nodes[n + 1], at)
                         ELSE data[n]]
    IN  IF t < DataStartOf(s) THEN Clamp(Head(Timeline(s)))
        ELSE IF t > SimEndOf(s) THEN Clamp(Last(Timeline(s)))
        ELSE [n \in DOMAIN vector |-> Interpolated(s, vector[n], t)]

-----------------------------------------------------------------------------
(* Writing a case.                                                         *)

Writer(case, header) ==
    [kind |-> "writer", case |-> case, header |-> header, files |-> <<[index |-> <<>>]>>,
     set |-> 0]

StepsOf(s) == s.files[1].index

(* tstep_alloc_new: the defaults of the variables, and the time.           *)
NewStep(header, t) ==
    [time |-> t,
     data |-> [header.params_default EXCEPT
                 ![header.time_index + 1] = (t - header.sim_start) \div header.time_unit]]

AddStep(s, step) == [s EXCEPT !.files[1].index = Append(@, step)]

MaySave == Cardinality(DOMAIN disk) < MaxOnDisk

Create ==
    /\ sum = NoSum
    /\ MaySave
    /\ \E case \in Cases \ DOMAIN disk, restart \in DOMAIN disk \cup {NoCase},
          start \in Starts, join \in Joins, in_days \in BOOLEAN :
           sum' = Writer(case, alloc_writer(join, restart, 1, start, in_days, Dims))
    /\ last' = NoCall
    /\ UNCHANGED disk

NodeOf(header, var, default) ==
    IF var.lgr = ""
    THEN NewNode(Len(header.nodes), var.kw, var.wgname, var.num, header.dims, "SM3", default,
                 header.join)
    ELSE NewLocalNode(Len(header.nodes), var.kw, var.wgname, "SM3", var.lgr, var.lgr_ijk,
                      default, header.join)

(* rd_sum_add_var and rd_sum_add_local_var: an exception once there are    *)
(* steps.                                                                  *)
AddVariable ==
    /\ sum.kind = "writer"
    /\ StepsOf(sum) = <<>>
    /\ Len(sum.header.nodes) <= MaxVars
    /\ \E var \in Vars, default \in Defaults :
           LET node == NodeOf(sum.header, var, default)
           IN  /\ CanAdd(node)
               /\ sum' = [sum EXCEPT !.header = insert_node(@, node)]
    /\ last' = NoCall
    /\ UNCHANGED disk

AddTStep ==
    /\ sum.kind = "writer"
    /\ Len(StepsOf(sum)) < MaxSteps
    /\ \E n \in 1 .. MaxSteps + 1 :
           LET t == sum.header.sim_start + n * StepHours
           IN  /\ \A step \in ToSet(StepsOf(sum)) : t > step.time
               /\ sum' = AddStep(sum, NewStep(sum.header, t))
    /\ last' = NoCall
    /\ UNCHANGED disk

(* t_step[key] = value                                                     *)
SetValue ==
    /\ sum.kind = "writer"
    /\ StepsOf(sum) # <<>>
    /\ sum.set < MaxValues
    /\ \E key \in KeyList(sum.header), value \in Values :
           LET column == general_var_node(sum.header, key).index + 1
           IN  sum' = [sum EXCEPT !.files[1].index[Len(StepsOf(sum))].data[column] = value,
                                  !.set = @ + 1]
    /\ last' = NoCall
    /\ UNCHANGED disk

(* rd_sum_fwrite: the header and, through its index map, the steps.        *)
Written(s) ==
    [smspec |-> fortio_fwrite(s.header),
     steps  |-> [n \in DOMAIN StepsOf(s) |->
                    [i \in DOMAIN s.header.index_map |->
                        StepsOf(s)[n].data[s.header.index_map[i] + 1]]]]

Save ==
    /\ sum.kind = "writer"
    /\ MaySave
    /\ disk' = (sum.case :> Written(sum)) @@ disk
    /\ last' = [op |-> "saved", from |-> sum, times |-> <<>>]
    /\ UNCHANGED sum

Close ==
    /\ sum # NoSum
    /\ sum' = NoSum
    /\ last' = NoCall
    /\ UNCHANGED disk

-----------------------------------------------------------------------------
(* Loading a case.                                                         *)

(* set_time_info: the times of the steps, or else their dates.             *)
TimeOf(header, params) ==
    IF header.time_index >= 0
    THEN header.sim_start + params[header.time_index + 1] * header.time_unit
    ELSE DateHours[[n \in 1 .. 3 |-> params[header.date_index[n] + 1]]]

(* A step of another size than the header is left out.                     *)
FileOf(case, header, steps) ==
    LET fit == SelectSeq(steps, LAMBDA params : Len(params) = header.params_size)
    IN  [case   |-> case,
         header |-> header,
         index  |-> [n \in DOMAIN fit |-> [time |-> TimeOf(header, fit[n]), data |-> fit[n]]]]

(* The files of a case and of those before it, whose keys are joined by a  *)
(* colon.  A case without steps is not there, and what was before it       *)
(* neither; a header that cannot be read throws, that of a case before, too. *)
RECURSIVE FilesFrom(_, _, _)
FilesFrom(files, case, header) ==
    LET file     == FileOf(case, header, files[case].steps)
        restart  == header.restart_case
        Before   == fread_alloc(files[restart].smspec, ":", TRUE, restart, DOMAIN files)
    IN  IF header = BadHeader THEN <<[header |-> BadHeader]>>
        ELSE IF file.index = <<>> THEN <<>>
        ELSE IF restart = NoCase THEN <<file>>
        ELSE <<file>> \o FilesFrom(files, restart, Before)

FilesOf(files, case, join, include_restart) ==
    FilesFrom(files, case,
              fread_alloc(files[case].smspec, join, include_restart, case, DOMAIN files))

(* What may be loaded: files of a chain that start together come in any    *)
(* order.  A variable without a key cannot be mapped.                      *)
SumsOf(case, found) ==
    IF \/ found = <<>>
       \/ \E n \in DOMAIN found :
              found[n].header = BadHeader \/ MappingThrows(found[n].header)
    THEN {}
    ELSE {[kind |-> "loaded", case |-> case, header |-> Head(found).header, files |-> fs,
           set |-> 0] : fs \in Chain!Arranged(found)}

LoadedSums(files, case, join, include_restart) ==
    SumsOf(case, FilesOf(files, case, join, include_restart))

LoadCase ==
    /\ sum = NoSum
    /\ \E case \in DOMAIN disk, join \in Joins, include_restart \in BOOLEAN :
           \E s \in LoadedSums(disk, case, join, include_restart) : sum' = s
    /\ last' = NoCall
    /\ UNCHANGED disk

-----------------------------------------------------------------------------
(* A case made from another.                                               *)

(* alloc_resample: a new writer, with the variables but TIME copied.       *)
ResampledHeader(s, start) ==
    LET writer == alloc_writer(s.header.join, NoCase, 0, start,
                               Head(s.header.nodes).unit = "DAYS", s.header.dims)
        Copy(header, node) == insert_node(header, CopyNode(node, Len(header.nodes)))
    IN  FoldLeft(Copy, writer, SumVector(s.header))

ResampledSteps(s, header, times) ==
    LET zeros == [n \in DOMAIN SumVector(s.header) |-> 0]
        Data[n \in 0 .. Len(times)] ==
            IF n = 0 THEN zeros ELSE Sampled(s, times[n], Data[n - 1])
        Step(t, values) ==
            [NewStep(header, t) EXCEPT
               !.data = [n \in DOMAIN @ |-> IF n - 1 \in DOMAIN values THEN values[n - 1] ELSE @[n]]]
    IN  [n \in DOMAIN times |-> Step(times[n], Data[n])]

Resample ==
    /\ sum.kind \in {"writer", "loaded"}
    /\ last = NoCall
    /\ Timeline(sum) # <<>>
    /\ ~MappingThrows(sum.header)
    /\ \E case \in Copies \ DOMAIN disk, times \in SampleTimes, lower, upper \in BOOLEAN :
           \E header \in {ResampledHeader(sum, Head(times))} :
               /\ lower \/ Head(times) >= DataStartOf(sum)
               /\ upper \/ Last(times) <= SimEndOf(sum)
               /\ \A n \in 2 .. Len(times) : times[n - 1] <= times[n]
               /\ sum' = [Writer(case, header) EXCEPT
                            !.files[1].index = ResampledSteps(sum, header, times),
                            !.set = MaxValues]
               /\ last' = [op |-> "resampled", from |-> sum, times |-> times]
    /\ UNCHANGED disk

(* Summary.pandas_frame and Summary.from_pandas: the columns are the first *)
(* keys of the variables; each is taken apart, added to a writer that      *)
(* starts at the first step, and set in every step.                        *)
FrameKeys(s) == [n \in DOMAIN SumVector(s.header) |-> Head(SumVector(s.header)[n].keys)]

FrameNode(header, h) ==
    IF h.lgr = ""
    THEN NewNode(Len(header.nodes), h.kw, h.wgname, h.num, header.dims, "UNIT", 0, ":")
    ELSE NewLocalNode(Len(header.nodes), h.kw, h.wgname, "UNIT", h.lgr, h.nums, 0, ":")

FrameHeader(s) ==
    LET writer == alloc_writer(":", NoCase, 0, Head(SimTimes(s)), TRUE, s.header.dims)
        Insert(header, node) == IF CanAdd(node) THEN insert_node(header, node) ELSE BadHeader
        Add(header, key) ==
            IF header = BadHeader THEN BadHeader
            ELSE Insert(header, FrameNode(header, compile_header(key, header.dims)))
    IN  FoldLeft(Add, writer, FrameKeys(s))

(* t_step[var] = frame[var]: an exception unless var is one column.        *)
FrameStep(s, header, t) ==
    LET step == NewStep(header, SimTimes(s)[t])
        Set(data, n) ==
            LET key    == Head(header.nodes[n].keys)
                column == CHOOSE m \in DOMAIN FrameKeys(s) : FrameKeys(s)[m] = key
            IN  [data EXCEPT ![general_var_node(header, key).index + 1] =
                                 IGet(s, Timeline(s)[t], SumVector(s.header)[column].index)]
    IN  [step EXCEPT !.data = FoldLeft(Set, @, [n \in 1 .. Len(header.nodes) - 1 |-> n + 1])]

IsFrame(s) ==
    /\ Timeline(s) # <<>>
    /\ ~MappingThrows(s.header)
    /\ s.header.join = ":"
    /\ IsInjective(FrameKeys(s))

FromPandas ==
    /\ sum.kind \in {"writer", "loaded"}
    /\ last = NoCall
    /\ IsFrame(sum)
    /\ \E case \in Copies \ DOMAIN disk, header \in {FrameHeader(sum)} :
               IF \/ header = BadHeader
                  \/ {Head(header.nodes[n].keys) : n \in 2 .. Len(header.nodes)}
                       # ToSet(FrameKeys(sum))
               THEN sum' = NoSum
               ELSE sum' = [Writer(case, header) EXCEPT
                              !.files[1].index = [t \in DOMAIN Timeline(sum) |->
                                                     FrameStep(sum, header, t)],
                              !.set = MaxValues]
    /\ last' = [op |-> "framed", from |-> sum, times |-> <<>>]
    /\ UNCHANGED disk

Init ==
    /\ disk \in Foreign
    /\ sum = NoSum
    /\ last = NoCall

Next ==
    \/ Create \/ AddVariable \/ AddTStep \/ SetValue \/ Save \/ Close
    \/ LoadCase \/ Resample \/ FromPandas

Spec == Init /\ [][Next]_vars

-----------------------------------------------------------------------------
(* Properties.                                                             *)

(* What a file holds for a key at a time: the last column with that key,   *)
(* or the default of a variable that it does not have.                     *)
InFile(file, header, key, t) ==
    LET columns == {n \in ToSet(ReadColumns(file.smspec)) :
                       key \in ToSet(NodeIn(file.smspec, n, ":").keys)}
        params  == CHOOSE p \in ToSet(file.steps) :
                       /\ Len(p) = Len(file.smspec.columns)
                       /\ TimeOf(header, p) = t
    IN  IF columns = {} THEN PARAMS_GLOBAL_DEFAULT ELSE params[Max(columns)]

(* A key of a loaded case has at each step the value that the file of that *)
(* step has for it: through the header's index, the mapping to the header  *)
(* of a case before it, and past the columns that were not read.           *)
ValuesOfKey ==
    sum.kind = "loaded" /\ sum.header.join = ":" =>
        \A at \in ToSet(Timeline(sum)) : \A key \in KeyList(sum.header) :
            get_general_var(sum, at, key) =
                InFile(disk[sum.files[at[1]].case], sum.files[at[1]].header, key,
                       TimeAt(sum, at))

SameCase(s1, s2) ==
    /\ KeyList(s1.header) = KeyList(s2.header)
    /\ SimTimes(s1) = SimTimes(s2)
    /\ KeyValues(s1) = KeyValues(s2)

(* A saved case, loaded again, has an equal header and the same keys,      *)
(* times and values.  Not so with variables of local grids, whose columns  *)
(* are not written.                                                        *)
SavedComesBack ==
    LET Same(loaded) ==
            /\ loaded # {}
            /\ \A s \in loaded : smspec_equal(sum.header, s.header) /\ SameCase(sum, s)
    IN  /\ last.op = "saved"
        /\ StepsOf(sum) # <<>>
        /\ ~MappingThrows(sum.header)
        /\ \A n \in DOMAIN sum.header.nodes : sum.header.nodes[n].type \notin LgrTypes
        => Same(LoadedSums(disk, sum.case, sum.header.join, FALSE))

(* A resampled case has at each of its times what the case had: the value  *)
(* of a step at that time, else one between those of the steps around it,  *)
(* and outside of the case the first or last value, or 0 for a rate.       *)
ResampleKeepsValues ==
    last.op = "resampled" /\ Head(last.from.header.nodes).kw = "TIME" =>
        \A n \in DOMAIN last.times : \A key \in KeyList(last.from.header) :
            LET t      == last.times[n]
                from   == last.from
                times  == SimTimes(from)
                rate   == general_var_node(from.header, key).rate
                v(i)   == get_general_var(from, Timeline(from)[i], key)
                before == {i \in DOMAIN times : times[i] <= t}
                after  == {i \in DOMAIN times : times[i] >= t}
                low    == v(Max(before))
                high   == v(Min(after))
                got    == get_general_var(sum, <<1, n>>, key)
            IN  /\ before = {} => got = IF rate THEN 0 ELSE v(1)
                /\ after = {} => got = IF rate THEN 0 ELSE v(Len(times))
                /\ before # {} /\ after # {} =>
                      \/ rate /\ got = high
                      \/ ~rate /\ low <= got /\ got <= high
                      \/ ~rate /\ high <= got /\ got <= low

(* rd_sum.cpp:661-662: before the first step and after the last, a         *)
(* resampled case has the first or last value of the case, or 0 for a      *)
(* rate, whichever variables the case begins with.                         *)
ResampleClamps ==
    last.op = "resampled" =>
        \A n \in DOMAIN last.times : \A key \in KeyList(last.from.header) :
            LET t     == last.times[n]
                from  == last.from
                times == SimTimes(from)
                Is(i) == get_general_var(sum, <<1, n>>, key)
                           = IF general_var_node(from.header, key).rate THEN 0
                             ELSE get_general_var(from, Timeline(from)[i], key)
            IN  /\ t < Head(times) => Is(1)
                /\ t > Last(times) => Is(Len(times))
=============================================================================
