----------------------------- MODULE CaseFiles -----------------------------
(***************************************************************************)
(* The files of cases in one directory: how they are named and recognised  *)
(* (rd_util.cpp), written by summaries (rd_sum_fwrite), listed             *)
(* (rd_select_filelist), and which of them a summary is loaded from        *)
(* (rd_sum.cpp, rd_alloc_summary_files).                                   *)
(*                                                                         *)
(* A name is [base, word, nr, digits, letters]: CASE.S0012 has the word S  *)
(* and, of four digits, the number 12; letters tells how the word is       *)
(* spelled: upper, lower or mixed.                                         *)
(***************************************************************************)
EXTENDS Integers, Sequences, FiniteSets, SequencesExt

CONSTANTS
    Bases,       \* names of cases
    UpperBases,  \* those that have an upper case letter
    Beginning,   \* pairs of bases: the second begins with the first
    ReportSets,  \* sets of report numbers that a case is written with
    Strangers,   \* [name, ascii]: files that others may put
    Extensions,  \* [word, nr, digits], what clients add to a base; NoExt for none
    NoExt, NoBase, NoFile,
    MaxChanges,  \* bound: writes, puts and removals
    MaxClock     \* bound: on the clock, which ticks in seconds

VARIABLES
    dir,     \* [names -> [time, ascii]]
    clock,
    latest,  \* ghost: [bases -> the last write [fmt, unified, names, time]]
    last,    \* the last search: [op, base, ext, header, list]
    changes

filesVars == <<dir, clock, latest, last, changes>>

-----------------------------------------------------------------------------
(* Names.                                                                  *)

(* The words that rd_inspect_extension knows: [type, fmt, nr]; four of     *)
(* them go before a number.                                                *)
Words ==
    [UNRST   |-> <<"UNIFIED_RESTART", FALSE>>, FUNRST  |-> <<"UNIFIED_RESTART", TRUE>>,
     UNSMRY  |-> <<"UNIFIED_SUMMARY", FALSE>>, FUNSMRY |-> <<"UNIFIED_SUMMARY", TRUE>>,
     SMSPEC  |-> <<"SUMMARY_HEADER", FALSE>>,  FSMSPEC |-> <<"SUMMARY_HEADER", TRUE>>,
     GRID    |-> <<"GRID", FALSE>>,            FGRID   |-> <<"GRID", TRUE>>,
     EGRID   |-> <<"EGRID", FALSE>>,           FEGRID  |-> <<"EGRID", TRUE>>,
     INIT    |-> <<"INIT", FALSE>>,            FINIT   |-> <<"INIT", TRUE>>,
     RFT     |-> <<"RFT", FALSE>>,             FRFT    |-> <<"RFT", TRUE>>,
     DATA    |-> <<"DATA", TRUE>>]
Letters == [X |-> <<"RESTART", FALSE>>, F |-> <<"RESTART", TRUE>>,
            S |-> <<"SUMMARY", FALSE>>, A |-> <<"SUMMARY", TRUE>>]

Numbered == {"RESTART", "SUMMARY"}
Other == [type |-> "OTHER", fmt |-> TRUE, nr |-> -1]

rd_inspect_extension(ext) ==
    CASE ext.word \in DOMAIN Words ->
             [type |-> Words[ext.word][1], fmt |-> Words[ext.word][2], nr |-> -1]
      [] ext.word \in DOMAIN Letters /\ ext.digits > 0 ->
             [type |-> Letters[ext.word][1], fmt |-> Letters[ext.word][2], nr |-> ext.nr]
      [] OTHER -> Other

(* Files that others put are formatted as their names tell, if these are   *)
(* names of the simulator's files.                                         *)
ASSUME CaseFilesAssumption ==
    /\ NoBase \notin Bases
    /\ \A reports \in ReportSets : reports \subseteq Nat /\ IsFiniteSet(reports)
    /\ \A file \in Strangers :
           LET type == rd_inspect_extension(file.name)
           IN  type.type # "OTHER" => file.ascii = type.fmt
    /\ MaxChanges \in Nat /\ MaxClock \in Nat

(* rd_get_file_pattern, and the leading characters of numbered types.      *)
WordFor(type, fmt) ==
    IF type \in Numbered THEN CHOOSE w \in DOMAIN Letters : Letters[w] = <<type, fmt>>
    ELSE IF type = "DATA" THEN "DATA"
    ELSE CHOOSE w \in DOMAIN Words : Words[w] = <<type, fmt>>

LettersOf(base) == IF base \in UpperBases THEN "upper" ELSE "lower"

(* rd_alloc_filename_static: %04d.                                         *)
filename(base, type, fmt, nr) ==
    [base |-> base, word |-> WordFor(type, fmt), letters |-> LettersOf(base),
     nr |-> IF type \in Numbered THEN nr ELSE -1,
     digits |-> IF type \notin Numbered THEN 0 ELSE IF nr < 10000 THEN 4 ELSE 5]

-----------------------------------------------------------------------------
(* rd_select_filelist.  Numbered files may be of any case whose name       *)
(* begins like this one; those of one number come in any order.            *)

BeginsWith(base, name) == base = name.base \/ <<base, name.base>> \in Beginning

(* Mutant: formatted and unformatted files are not told apart.             *)
EitherWord(name, base, word) ==
    /\ BeginsWith(base, name)
    /\ name.digits = 4 /\ name.letters = LettersOf(base)

numeric_extension_predicate(name, base, word) ==
    /\ BeginsWith(base, name)
    /\ name.word = word /\ name.digits = 4 /\ name.letters = LettersOf(base)

SortedByReport(names) ==
    {list \in SetToSeqs(names) : \A k \in 2 .. Len(list) : list[k - 1].nr <= list[k].nr}

rd_select_filelist(base, type, fmt) ==
    IF type \in Numbered
    THEN SortedByReport({name \in DOMAIN dir :
                            numeric_extension_predicate(name, base, WordFor(type, fmt))})
    ELSE {SelectSeq(<<filename(base, type, fmt, -1)>>, LAMBDA name : name \in DOMAIN dir)}

-----------------------------------------------------------------------------
(* rd_alloc_summary_files.                                                 *)

Newer(name1, name2) == dir[name1].time > dir[name2].time

(* Mutant: unified if there is such a file.                                *)
UnifiedFirst(files, unified) == IF unified \in DOMAIN dir THEN <<unified>> ELSE files

(* rd_alloc_summary_data_files: unified, unless a single file is newer.    *)
DataFiles(files, unified) ==
    IF unified \in DOMAIN dir /\ ~\E file \in ToSet(files) : Newer(file, unified)
    THEN <<unified>> ELSE files

DataFilesAsked(base, fmt, asked) ==
    LET unified == filename(base, "UNIFIED_SUMMARY", fmt, -1)
        separate == rd_select_filelist(base, "SUMMARY", fmt)
    IN  CASE asked \in {"UNIFIED_SUMMARY", "UNIFIED_RESTART"} ->
               {IF unified \in DOMAIN dir THEN <<unified>> ELSE <<>>}
          [] asked \in Numbered -> separate
          [] OTHER -> {DataFiles(files, unified) : files \in separate}

(* Which header: that of the format asked for, or the only one; of two the *)
(* formatted one if it is older.                                           *)
HeaderFormat(base, asked) ==
    LET formatted == filename(base, "SUMMARY_HEADER", TRUE, -1)
        unformatted == filename(base, "SUMMARY_HEADER", FALSE, -1)
    IN  IF asked.type \notin {"OTHER", "DATA"} THEN asked.fmt
        ELSE IF {formatted, unformatted} \subseteq DOMAIN dir THEN Newer(unformatted, formatted)
        ELSE formatted \in DOMAIN dir

(* base_guess: the case of the only data file.                             *)
DataDecks == {name \in DOMAIN dir : name.word = "DATA" /\ name.letters # "mixed"}
BaseGuess == IF Cardinality(DataDecks) = 1 THEN (CHOOSE deck \in DataDecks : TRUE).base ELSE NoBase

SearchFiles(given, ext) ==
    LET base == IF given = NoBase THEN BaseGuess ELSE given
        asked == IF ext = NoExt THEN Other ELSE rd_inspect_extension(ext)
        fmt == HeaderFormat(base, asked)
        header == filename(base, "SUMMARY_HEADER", fmt, -1)
        Result(h, list) == [op |-> "search", base |-> base, ext |-> asked, header |-> h, list |-> list]
    IN  /\ IF base = NoBase \/ header \notin DOMAIN dir
           THEN last' = Result(NoFile, <<>>)
           ELSE \E list \in DataFilesAsked(base, fmt, asked.type) :
                    last' = Result(IF list = <<>> THEN NoFile ELSE header, list)
        /\ UNCHANGED <<dir, clock, latest, changes>>

-----------------------------------------------------------------------------
(* What happens in the directory.                                          *)

NoSearch == [op |-> "none"]
Changed == changes < MaxChanges /\ changes' = changes + 1 /\ last' = NoSearch

With(names, file) == [name \in DOMAIN dir \cup names |-> IF name \in names THEN file ELSE dir[name]]

(* rd_sum_fwrite: a header, and one file or one for each report; files of  *)
(* earlier writes stay.                                                    *)
WrittenNames(base, fmt, unified, reports) ==
    {filename(base, "SUMMARY_HEADER", fmt, 0)} \cup
    (IF unified THEN {filename(base, "UNIFIED_SUMMARY", fmt, 0)}
     ELSE {filename(base, "SUMMARY", fmt, nr) : nr \in reports})

Write(base, fmt, unified, reports, time) ==
    LET names == WrittenNames(base, fmt, unified, reports)
    IN  /\ Changed
        /\ clock' = time
        /\ dir' = With(names, [time |-> time, ascii |-> fmt])
        /\ latest' = [b \in DOMAIN latest \cup {base} |->
                         IF b # base THEN latest[b]
                         ELSE [fmt |-> fmt, unified |-> unified, names |-> names, time |-> time,
                               reports |-> reports]]

Put(file) ==
    /\ Changed
    /\ dir' = With({file.name}, [time |-> clock, ascii |-> file.ascii])
    /\ UNCHANGED <<clock, latest>>

Delete(name) ==
    /\ Changed
    /\ dir' = [n \in DOMAIN dir \ {name} |-> dir[n]]
    /\ UNCHANGED <<clock, latest>>

FilesInit ==
    /\ dir = <<>> /\ clock = 0 /\ latest = <<>>
    /\ last = NoSearch /\ changes = 0

FilesNext ==
    \/ \E base \in Bases, fmt, unified \in BOOLEAN, reports \in ReportSets :
           \E time \in {clock, clock + 1} \cap 0 .. MaxClock : Write(base, fmt, unified, reports, time)
    \/ \E file \in Strangers : Put(file)
    \/ \E name \in DOMAIN dir : Delete(name)
    \/ \E base \in Bases \cup {NoBase}, ext \in Extensions \cup {NoExt} : SearchFiles(base, ext)

FilesSpec == FilesInit /\ [][FilesNext]_filesVars

-----------------------------------------------------------------------------
(* A summary is loaded from a header and data that go together: of one     *)
(* format and of the case that was asked for, unless another begins with   *)
(* its name; one unified file, or single ones in the order of their        *)
(* reports; and as the extension tells, if it does (rd_sum.cpp:306-428).   *)
FilesGoTogether ==
    last.op = "search" /\ last.header # NoFile =>
        LET types == [k \in DOMAIN last.list |-> rd_inspect_extension(last.list[k])]
            fmt == rd_inspect_extension(last.header).fmt
        IN  /\ last.header \in DOMAIN dir /\ last.header.base = last.base
            /\ \A k \in DOMAIN types : types[k].fmt = fmt /\ dir[last.list[k]].ascii = fmt
            /\ \A k \in DOMAIN types :
                   last.list[k].base = last.base \/ <<last.base, last.list[k].base>> \in Beginning
            /\ \/ Len(types) = 1 /\ types[1].type = "UNIFIED_SUMMARY"
               \/ \A k \in DOMAIN types : types[k].type = "SUMMARY"
            /\ \A k \in 2 .. Len(types) : types[k - 1].nr <= types[k].nr
            /\ last.ext.type \notin {"OTHER", "DATA"} => fmt = last.ext.fmt
            /\ last.ext.type = "UNIFIED_SUMMARY" => types[1].type = "UNIFIED_SUMMARY"
            /\ last.ext.type = "SUMMARY" => types[1].type = "SUMMARY"

(* A case that was written last, later than all other files of its format, *)
(* and is all there, is what is loaded, if the extension does not ask for  *)
(* something else (rd_sum.cpp:236-273): all files of that write, and of a  *)
(* unified one nothing else.                                               *)
LastWriteIsLoaded ==
    last.op = "search" /\ last.base \in DOMAIN latest /\ last.ext.type = "OTHER" =>
        LET written == latest[last.base]
            data == {name \in written.names : rd_inspect_extension(name).type # "SUMMARY_HEADER"}
            others == {name \in DOMAIN dir \ written.names : BeginsWith(last.base, name)}
        IN  /\ written.names \subseteq DOMAIN dir
            /\ \A name \in written.names : dir[name].time = written.time
            /\ \A name \in others : dir[name].time < written.time
            /\ filename(last.base, "SUMMARY_HEADER", ~written.fmt, -1) \notin DOMAIN dir
            /\ \A nr \in written.reports : nr <= 9999
            => /\ data \subseteq ToSet(last.list)
               /\ written.unified => Len(last.list) = 1
=============================================================================
