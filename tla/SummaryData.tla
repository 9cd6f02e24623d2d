---------------------------- MODULE SummaryData ----------------------------
(***************************************************************************)
(* rd_sum_data.cpp, rd_sum_file_data.cpp and rd_unsmry_loader.cpp: the     *)
(* time steps of a summary case, the index of each of its files from       *)
(* report steps to time steps, the index that joins a restarted case to    *)
(* the cases before it, and the two searches that loop over them.          *)
(*                                                                         *)
(* A time step is its time and its report step; the values are left out.   *)
(* Internal indexes are counted from 0 as in the code, time steps and      *)
(* files in sequences from 1.                                              *)
(***************************************************************************)
EXTENDS Integers, Sequences, FiniteSets, SequencesExt

CONSTANTS
    UnifiedFiles,    \* what a unified file may hold: SEQHDR, or the time of a ministep
    SeparateFiles,   \* what separate files may hold: report step -> times
    FirstSteps,      \* the first report step that a header file may give
    Garbage,         \* what an index node holds before it is assigned
    MaxSteps,        \* bound: time steps written
    MaxTime,         \* bound: times
    MaxReport,       \* bound: report steps written
    MaxCases         \* bound: cases in a chain of restarts

SEQHDR  == 0
Times   == 1 .. MaxTime
Reports == 0 .. MaxReport

ASSUME SummaryDataAssumption ==
    /\ {MaxSteps, MaxTime, MaxReport, MaxCases} \subseteq Nat
    /\ \A kws \in UnifiedFiles : kws \in Seq(Times \cup {SEQHDR})
    /\ \A disk \in SeparateFiles : \A r \in DOMAIN disk : r > 0 /\ disk[r] \in Seq(Times)
    /\ FirstSteps \subseteq Nat \ {0}
    /\ \A node \in Garbage : node.length = 0

(* A simulator goes forward in time from one ministep to the next: the     *)
(* loader of a unified file takes its order for the order of time.         *)
ASSUME SimulatorAssumption ==
    /\ \A kws \in UnifiedFiles : \A m, n \in DOMAIN kws :
           m < n /\ SEQHDR \notin {kws[m], kws[n]} => kws[m] < kws[n]
    /\ \A disk \in SeparateFiles : \A q, r \in DOMAIN disk :
           \A m \in DOMAIN disk[q], n \in DOMAIN disk[r] :
               q < r \/ (q = r /\ m < n) => disk[q][m] < disk[r][n]

VARIABLES
    data_files,  \* the files: [data, index, kws, first_step, age], first_step 0 for a writer
    index,       \* for each file: [length, report1, report2, time1, time2]
    call         \* the search in progress, or its answer

vars == <<data_files, index, call>>

Step(t, r) == [time |-> t, report |-> r]

NotFound  == -1      \* an answer of the code
Throws    == -2      \* std::invalid_argument or std::out_of_range
Undefined == -3      \* a vector is read outside its bounds

-----------------------------------------------------------------------------
(* One file: rd_sum_file_data and its TimeIndex.                           *)

InTimeOrder(steps) == \A m, n \in DOMAIN steps : m < n => steps[m].time <= steps[n].time

(* vector_sort by time: steps of equal times come in any order.            *)
SortedBy(steps) ==
    {s \in {[n \in DOMAIN steps |-> steps[p[n]]] : p \in Bijection(DOMAIN steps, DOMAIN steps)} :
        InTimeOrder(s)}

SimTime(f, time_index) == f.index[time_index + 1].time
DataStart(f)   == Head(f.index).time
SimEnd(f)      == Last(f.index).time
FirstReport(f) == Head(f.index).report
LastReport(f)  == Last(f.index).report

(* report_range(report).second: the last step of the report, or -1.        *)
RangeEnd(f, report) ==
    LET at == {n \in DOMAIN f.index : f.index[n].report = report}
    IN  IF at = {} THEN -1 ELSE (CHOOSE n \in at : \A m \in at : m <= n) - 1

(* iget_report, which does not check its argument.                         *)
ReportAt(f, time_index) ==
    IF time_index + 1 \in DOMAIN f.index THEN f.index[time_index + 1].report ELSE Undefined

(* Mutant: the steps up to and at the time.                                *)
LengthUpTo(f, end_time) ==
    Cardinality({n \in DOMAIN f.index : \A m \in 1 .. n : f.index[m].time <= end_time})

LengthBefore(f, end_time) ==
    Cardinality({n \in DOMAIN f.index : \A m \in 1 .. n : f.index[m].time < end_time})

ReportBefore(f, end_time) == f.index[LengthBefore(f, end_time)].report

(* The positions of the keywords of a name, in the order of the file.      *)
Ascending(positions) ==
    CHOOSE s \in [1 .. Cardinality(positions) -> positions] :
        \A i, j \in DOMAIN s : i < j => s[i] < s[j]

(* The loader of a unified file: SEQHDRs are counted on from the report    *)
(* step before the first.                                                  *)
Loader(kws, first_step) ==
    LET params == Ascending({n \in DOMAIN kws : kws[n] # SEQHDR})
        Headers(n) == Cardinality({m \in 1 .. n : kws[m] = SEQHDR})
    IN  [i \in DOMAIN params |->
            Step(kws[params[i]], first_step - 1 + Headers(params[i]))]

(* summary_view(block): from one SEQHDR to the next.                       *)
SummaryView(kws, block) ==
    LET seqhdrs == Ascending({n \in DOMAIN kws : kws[n] = SEQHDR})
        stop    == IF block < Len(seqhdrs) THEN seqhdrs[block + 1] - 1 ELSE Len(kws)
    IN  SubSeq(kws, seqhdrs[block] + 1, stop)

AddRdFile(report_step, times) == [n \in DOMAIN times |-> Step(times[n], report_step)]

Eager(kws, first_step) ==
    LET blocks == Cardinality({n \in DOMAIN kws : kws[n] = SEQHDR})
    IN  FlattenSeq([b \in 1 .. blocks |->
                       AddRdFile(b - 1 + first_step, SummaryView(kws, b))])

Separate(disk) ==
    FlattenSeq([r \in 1 .. MaxReport |->
                   IF r \in DOMAIN disk THEN AddRdFile(r, disk[r]) ELSE <<>>])

(* fread: the loader keeps the order of the file and holds no steps; the   *)
(* others are sorted.                                                      *)
LoadedFiles ==
    LET Lazy(kws, first) == [data |-> <<>>, index |-> Loader(kws, first),
                             kws |-> kws, first_step |-> first, age |-> 0]
        Sorted(kws, first, s) == [data |-> s, index |-> s,
                                  kws |-> kws, first_step |-> first, age |-> 0]
    IN  {Lazy(kws, first) : kws \in UnifiedFiles, first \in FirstSteps}
          \cup (UNION {{Sorted(kws, first, s) : s \in SortedBy(Eager(kws, first))} :
                           kws \in UnifiedFiles, first \in FirstSteps})
          \cup (UNION {{Sorted(<<>>, 1, s) : s \in SortedBy(Separate(disk))} :
                           disk \in SeparateFiles})

-----------------------------------------------------------------------------
(* The chain of files: rd_sum_data and its CaseIndex.                      *)

(* std::sort by the start of the data: files that start together come in   *)
(* any order.                                                              *)
InOrder(files) ==
    \A n \in 2 .. Len(files) : DataStart(files[n - 1]) <= DataStart(files[n])

Arranged(files) ==
    {fs \in {[n \in DOMAIN files |-> files[p[n]]] : p \in Bijection(DOMAIN files, DOMAIN files)} :
        Len(fs) < 2 \/ InOrder(fs)}

(* A node of length 0 keeps what its memory held.                          *)
IndexNode(files, n, garbage) ==
    LET f      == files[n]
        main   == n = Len(files)
        length == IF main THEN Len(f.index) ELSE LengthBefore(f, DataStart(files[n + 1]))
    IN  IF length = 0 THEN garbage
        ELSE [length  |-> length,
              report1 |-> FirstReport(f),
              report2 |-> IF main THEN LastReport(f)
                          ELSE ReportBefore(f, DataStart(files[n + 1])),
              time1   |-> DataStart(f),
              time2   |-> SimEnd(f)]

BuildIndex(files) ==
    \E arranged \in Arranged(files), garbage \in Garbage :
        /\ data_files' = arranged
        /\ index' = [n \in DOMAIN arranged |-> IndexNode(arranged, n, garbage)]

Offset(n) ==
    LET end[m \in 0 .. Len(index)] == IF m = 0 THEN 0 ELSE end[m - 1] + index[m].length
    IN  end[n - 1]

Length    == Offset(Len(index) + 1)

(* lookup(internal_index) and rd_sum_data_iget_sim_time.                   *)
IgetSimTime(i) ==
    LET n == CHOOSE m \in DOMAIN index : Offset(m) <= i /\ i < Offset(m) + index[m].length
    IN  SimTime(data_files[n], i - Offset(n))

CheckSimTime(t) ==
    DataStart(Head(data_files)) <= t /\ t <= SimEnd(Last(data_files))

(* Mutant: the index in the file is taken for the index in the chain.      *)
LocalReportEnd(report) ==
    LET nodes == {n \in DOMAIN index : index[n].report1 <= report /\ report <= index[n].report2}
        n     == CHOOSE m \in nodes : \A k \in nodes : m <= k
        range == RangeEnd(data_files[n], report)
        end   == IF range >= index[n].length THEN index[n].length - 1 ELSE range
    IN  IF nodes = {} THEN Throws
        ELSE IF end < 0 THEN Undefined
        ELSE IF ReportAt(data_files[n], end) # report THEN Throws
        ELSE end

(* rd_sum_data_iget_report_end: the first node whose reports include it.   *)
ReportEnd(report) ==
    LET nodes == {n \in DOMAIN index : index[n].report1 <= report /\ report <= index[n].report2}
        n     == CHOOSE m \in nodes : \A k \in nodes : m <= k
        range == RangeEnd(data_files[n], report)
        end   == IF range >= index[n].length THEN index[n].length - 1 ELSE range
    IN  IF nodes = {} THEN Throws
        ELSE IF end < 0 THEN Undefined
        ELSE IF ReportAt(data_files[n], end) # report THEN Throws
        ELSE end + Offset(n)

(* get_time_report: the ends of the reports, up to the first that the next *)
(* file has cut off.                                                       *)
TimeReport(f, end_index) ==
    LET ends  == [k \in 1 .. LastReport(f) - FirstReport(f) + 1 |->
                     RangeEnd(f, FirstReport(f) + k - 1)]
        taken == Cardinality({k \in DOMAIN ends : \A m \in 1 .. k : ends[m] < end_index})
    IN  [k \in 1 .. taken |-> IF ends[k] < 0 THEN Undefined ELSE SimTime(f, ends[k])]

(* What rd_sum_data_alloc_time_vector writes, into a vector of this size.  *)
ReportTimes == FlattenSeq([n \in DOMAIN index |-> TimeReport(data_files[n], index[n].length)])
ReportTimesSize == 1 + LastReport(Last(data_files)) - FirstReport(Head(data_files))

(* lookup_time: the number of the file, NotFound between two files.        *)
LookupTime(t) ==
    LET Stops(n) == /\ t >= index[n].time1
                    /\ \/ t <= index[n].time2
                       \/ n = Len(index)
                       \/ t < index[n + 1].time1
        stops == {n \in DOMAIN index : Stops(n)}
        n     == CHOOSE m \in stops : \A k \in stops : m <= k
    IN  IF t < index[1].time1 THEN Throws
        ELSE IF stops = {} THEN Undefined
        ELSE IF t <= index[n].time2 THEN n
        ELSE IF n = Len(index) THEN Throws ELSE NotFound

-----------------------------------------------------------------------------
NoCall == [op |-> "none", time |-> 0, low |-> 0, high |-> 0]
Answer(op, t, answer) == [op |-> op, time |-> t, low |-> answer, high |-> answer]

Init == data_files = <<>> /\ index = <<>> /\ call = NoCall

(* rd_sum_data_alloc_writer.                                               *)
AllocWriter ==
    /\ data_files = <<>>
    /\ BuildIndex(<<[data |-> <<>>, index |-> <<>>, kws |-> <<>>, first_step |-> 0, age |-> 0]>>)
    /\ UNCHANGED call

(* add_new_tstep is meant for write mode; a later step of the same report  *)
(* is added to the index, any other makes it be built again.               *)
Writing == data_files # <<>> /\ Head(data_files).first_step = 0

(* Mutant: a step of the same report is taken for a later one.             *)
AddedUnsorted(f, step) ==
    IF f.data # <<>> /\ Last(f.data).report = step.report
    THEN {[f EXCEPT !.data = Append(@, step), !.index = Append(@, step)]}
    ELSE {[f EXCEPT !.data = s, !.index = s] : s \in SortedBy(Append(f.data, step))}

Added(f, step) ==
    IF /\ f.data # <<>>
       /\ Last(f.data).report = step.report
       /\ Last(f.data).time < step.time
    THEN {[f EXCEPT !.data = Append(@, step), !.index = Append(@, step)]}
    ELSE {[f EXCEPT !.data = s, !.index = s] : s \in SortedBy(Append(f.data, step))}

AddNewTstep(report, t) ==
    /\ call = NoCall /\ Writing /\ Len(Last(data_files).data) < MaxSteps
    /\ \E f \in Added(Last(data_files), Step(t, report)) : BuildIndex(<<f>>)
    /\ UNCHANGED call

(* rd_sum_data_fread: a case without a time step is not loaded.            *)
Fread(f) ==
    /\ data_files = <<>>
    /\ f.index # <<>>
    /\ BuildIndex(<<f>>)
    /\ UNCHANGED call

(* rd_sum_data_add_case: the history of the oldest case so far.  A run     *)
(* that is restarted does not start before the run it goes on from.        *)
AddCase(f) ==
    /\ call = NoCall /\ data_files # <<>> /\ ~Writing
    /\ Len(data_files) < MaxCases
    /\ f.index # <<>> /\ \A n \in DOMAIN data_files : DataStart(f) <= DataStart(data_files[n])
    /\ BuildIndex(Append(data_files, [f EXCEPT !.age = Len(data_files)]))
    /\ UNCHANGED call

Ask(c) == call = NoCall /\ data_files # <<>> /\ call' = c /\ UNCHANGED <<data_files, index>>

HasData == \A n \in DOMAIN data_files : data_files[n].index # <<>>

(* rd_sum_data_get_index_from_sim_time, a binary search.                   *)
CallSearch(t) ==
    Ask(IF HasData /\ CheckSimTime(t)
        THEN [op |-> "search", time |-> t, low |-> 0, high |-> Length - 1]
        ELSE Answer("found", t, Throws))

Halve(low, high) == (low + high) \div 2

(* Mutant: a step at the time itself is taken for one before it.           *)
SearchOn(t, center) ==
    IF t >= IgetSimTime(center)
    THEN [call EXCEPT !.low = center] ELSE [call EXCEPT !.high = center]

SearchHalf(t, center) ==
    IF t > IgetSimTime(center)
    THEN [call EXCEPT !.low = center] ELSE [call EXCEPT !.high = center]

(* Mutant: the search goes on while its ends differ.                       *)
SearchToOne ==
    /\ call.op = "search"
    /\ call' = IF call.low < call.high
               THEN SearchHalf(call.time, Halve(call.low, call.high))
               ELSE Answer("found", call.time,
                           IF call.time <= IgetSimTime(call.low) THEN call.low ELSE call.high)
    /\ UNCHANGED <<data_files, index>>

Search ==
    /\ call.op = "search"
    /\ call' = IF call.low + 1 < call.high
               THEN SearchHalf(call.time, Halve(call.low, call.high))
               ELSE Answer("found", call.time,
                           IF call.time <= IgetSimTime(call.low) THEN call.low ELSE call.high)
    /\ UNCHANGED <<data_files, index>>

(* rd_sum_data_get_report_step_from_time; low is the file, high the report *)
(* step that is next compared.                                             *)
CallReportStep(t) ==
    Ask(IF ~HasData THEN Answer("reported", t, Throws)
        ELSE IF ~CheckSimTime(t) THEN Answer("reported", t, NotFound)
        ELSE LET n == LookupTime(t)
             IN  IF n < 0 THEN Answer("reported", t, n)
                 ELSE [op |-> "report", time |-> t, low |-> n,
                       high |-> FirstReport(data_files[n])])

(* A report step without time steps leaves the loop where it is.           *)
CompareReport ==
    LET f     == data_files[call.low]
        range == RangeEnd(f, call.high)
    IN  /\ call.op = "report"
        /\ range >= 0
        /\ call' = IF SimTime(f, range) = call.time
                   THEN Answer("reported", call.time, call.high)
                   ELSE IF call.high + 1 > LastReport(f)
                   THEN Answer("reported", call.time, NotFound)
                   ELSE [call EXCEPT !.high = @ + 1]
        /\ UNCHANGED <<data_files, index>>

MissingReport ==
    /\ call.op = "report"
    /\ RangeEnd(data_files[call.low], call.high) < 0
    /\ UNCHANGED vars

Return ==
    /\ call.op \in {"found", "reported"}
    /\ call' = NoCall
    /\ UNCHANGED <<data_files, index>>

Loop == Search \/ CompareReport \/ MissingReport

Next ==
    \/ AllocWriter
    \/ \E report \in Reports, t \in Times : AddNewTstep(report, t)
    \/ \E f \in LoadedFiles : Fread(f) \/ AddCase(f)
    \/ \E t \in Times : CallSearch(t) \/ CallReportStep(t)
    \/ Search
    \/ CompareReport
    \/ MissingReport
    \/ Return

(* The code is sequential: a loop that is entered goes on.                 *)
Spec == Init /\ [][Next]_vars /\ WF_vars(Loop)

-----------------------------------------------------------------------------
(* The time steps of the chain, in the order of the internal indexes.      *)
Timeline ==
    FlattenSeq([n \in DOMAIN index |-> SubSeq(data_files[n].index, 1, index[n].length)])

(* rd_sum_file_data::add_new_tstep adds to the index of a file by hand or  *)
(* builds it again: either way the index is the steps in order of time,    *)
(* and the joined index goes with the files.                               *)
IndexFollowsData ==
    \A n \in DOMAIN data_files :
        LET f == data_files[n]
        IN  /\ InTimeOrder(f.index)
            /\ f.data # <<>> => f.index = f.data
            /\ n = Len(index) => index[n].length = Len(f.index)

StartsDiffer ==
    \A m, n \in DOMAIN data_files :
        m # n => DataStart(data_files[m]) # DataStart(data_files[n])

(* The history of a run gives way where the run itself begins.             *)
HistoryDropped ==
    \A m, n \in DOMAIN data_files :
        data_files[m].age > data_files[n].age =>
            \A k \in 1 .. index[m].length : SimTime(data_files[m], k - 1) < DataStart(data_files[n])

(* test_rd_sum.py, strictly increasing timeline: joined cases make one     *)
(* timeline in order, without the history that a restart has replaced, if  *)
(* no case begins when another does.                                       *)
TimelineJoined ==
    ~Writing /\ StartsDiffer =>
        /\ \A m, n \in DOMAIN Timeline : m < n => Timeline[m].time < Timeline[n].time
        /\ HistoryDropped

(* The binary search returns the first time step that is not before the    *)
(* time, over the borders of the files and with equal times.               *)
SearchFindsFirst ==
    (call.op = "found" /\ call.low # Throws) =>
        /\ call.low + 1 \in DOMAIN Timeline
        /\ Timeline[call.low + 1].time >= call.time
        /\ \A n \in 1 .. call.low : Timeline[n].time < call.time

(* No file misses a report step between its first and its last.            *)
NoneMissing ==
    \A n \in DOMAIN data_files :
        data_files[n].index # <<>> =>
            \A r \in FirstReport(data_files[n]) .. LastReport(data_files[n]) :
                RangeEnd(data_files[n], r) >= 0

(* It is so, the vector of report times is complete and fits what is       *)
(* allocated for it, and a time is found to be the end of a report step    *)
(* exactly when it is one, when report steps follow one another in time,   *)
(* none is missing, and a run is restarted at the end of a report step     *)
(* after which its history has nothing.                                    *)
Kept(n) == {data_files[n].index[k].report : k \in 1 .. index[n].length}

ReportsRegular ==
    /\ StartsDiffer /\ NoneMissing
    /\ \A m, n \in DOMAIN index : m # n => Kept(m) \cap Kept(n) = {}
    /\ \A n \in DOMAIN index : Kept(n) \cap {data_files[n].index[k].report :
               k \in index[n].length + 1 .. Len(data_files[n].index)} = {}
    /\ \A n \in 2 .. Len(Timeline) : Timeline[n].report - Timeline[n - 1].report \in {0, 1}

LastOf(r) ==
    CHOOSE n \in DOMAIN Timeline :
        /\ Timeline[n].report = r
        /\ \A m \in DOMAIN Timeline : Timeline[m].report = r => m <= n

TimelineReports == {Timeline[n].report : n \in DOMAIN Timeline}

ReportsWhenRegular ==
    Timeline # <<>> /\ ReportsRegular =>
        /\ Len(ReportTimes) <= ReportTimesSize
        /\ \A r \in TimelineReports :
               /\ ReportEnd(r) = LastOf(r) - 1
               /\ ReportTimes[r - Timeline[1].report + 1] = Timeline[LastOf(r)].time

(* rd_sum_data_get_report_step_from_time and the binary search come to an  *)
(* end in a case in which no file misses a report step between its first   *)
(* and its last.                                                           *)
CallsReturn == (call # NoCall /\ NoneMissing) ~> (call.op \in {"none", "found", "reported"})
=============================================================================
