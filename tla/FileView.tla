------------------------------ MODULE FileView ------------------------------
(***************************************************************************)
(* rd_file_view.cpp and the bindings that call it: views of the keywords   *)
(* of a file, the index that a view keeps of them, the views of blocks,    *)
(* and the search for the block of a report step, a date or a number of    *)
(* days.                                                                   *)
(*                                                                         *)
(* A keyword is a name and the one value that is searched for: the report  *)
(* step of a SEQNUM, the date of an INTEHEAD, the days of a DOUBHEAD.  A   *)
(* FileKW is its position in the file, from 1; positions in a view are     *)
(* counted from 0, as in the code.                                         *)
(***************************************************************************)
EXTENDS Integers, Sequences, SequencesExt

CONSTANTS
    Keywords,              \* the keywords that clients search: [name, value]
    OtherKeywords,         \* other keywords that a file may hold
    SEQNUM, INTEHEAD,
    NoName,                \* std::nullopt
    MaxKeywords,           \* bound: keywords in a file
    MaxOccurence           \* bound: the numbers of blocks asked for

Names == {kw.name : kw \in Keywords}

ASSUME FileViewAssumption ==
    /\ MaxKeywords \in Nat /\ MaxOccurence \in Nat
    /\ {SEQNUM, INTEHEAD} \subseteq Names /\ NoName \notin Names
    /\ \A kw \in Keywords : kw = [name |-> kw.name, value |-> kw.value]

VARIABLES
    file,          \* the keywords that the scan has come to
    global_view,   \* the view of all of them: [kw_list, kw_index]
    view,          \* the view the client works with
    answer         \* what the last call returned

vars == <<file, global_view, view, answer>>

(* An answer names its question: a view, a restart step or a date.         *)
Silent == [asked |-> <<>>, what |-> "none", list |-> <<>>, value |-> 0]
Throws(asked) == [Silent EXCEPT !.asked = asked, !.what = "missing"]
ViewOf(asked, list) == [Throws(asked) EXCEPT !.what = "view", !.list = list]
ValueOf(asked, v)   == [Throws(asked) EXCEPT !.what = "value", !.value = v]
NoKw(asked)         == [Throws(asked) EXCEPT !.what = "no keyword"]
KeywordOf(asked, kw) == [Throws(asked) EXCEPT !.what = "keyword", !.list = <<kw>>]

(* make_index: for each name that occurs, where it does.                   *)
Places(kws, list, name) ==
    LET places[n \in 0 .. Len(list)] ==
            IF n = 0 THEN <<>>
            ELSE IF kws[list[n]].name = name THEN Append(places[n - 1], n - 1) ELSE places[n - 1]
    IN  places[Len(list)]

MakeIndex(kws, list) ==
    [name \in {kws[list[n]].name : n \in DOMAIN list} |-> Places(kws, list, name)]

Indexed(kws, list) == [kw_list |-> list, kw_index |-> MakeIndex(kws, list)]

HasKw(v, name) == name \in DOMAIN v.kw_index
NumNamedKw(v, name) == IF HasKw(v, name) THEN Len(v.kw_index[name]) ELSE 0

(* get_kw(name, ith).                                                      *)
GetKw(v, name, ith) == v.kw_list[v.kw_index[name][ith + 1] + 1]

-----------------------------------------------------------------------------
(* blockview: from the occurrence of start to the next end after it.       *)

Stop(v, begin, end) ==
    LET ends == {n \in begin + 1 .. Len(v.kw_list) - 1 : file[v.kw_list[n + 1]].name = end}
    IN  IF end = NoName \/ ends = {} THEN Len(v.kw_list)
        ELSE CHOOSE n \in ends : \A m \in ends : n <= m

HasBlock(v, start, occurence) == start = NoName \/ occurence < NumNamedKw(v, start)

Blockview(v, start, end, occurence) ==
    LET begin == IF start = NoName THEN 0 ELSE v.kw_index[start][occurence + 1]
    IN  SubSeq(v.kw_list, begin + 1, Stop(v, begin, end))

(* find_block walks through the SEQNUMs with a cursor into the headers     *)
(* that never goes back; it gives the number of the first block whose      *)
(* first header has the value, or -1.                                      *)
Advance(headers, cursor, start) ==
    LET ahead == {c \in cursor .. Len(headers) : headers[c] >= start}
    IN  IF ahead = {} THEN Len(headers) + 1 ELSE CHOOSE c \in ahead : \A d \in ahead : c <= d

(* Mutant: the header is not compared with the end of the block.           *)
MatchesAnywhere(v, seqnums, headers, block, cursor, value) ==
    /\ cursor <= Len(headers)
    /\ file[v.kw_list[headers[cursor] + 1]].value = value

BlockMatches(v, seqnums, headers, block, cursor, value) ==
    /\ cursor <= Len(headers)
    /\ headers[cursor] < IF block = Len(seqnums) THEN Len(v.kw_list)
                         ELSE seqnums[block + 1]
    /\ file[v.kw_list[headers[cursor] + 1]].value = value

BlockFound(v, seqnums, headers, value) ==
    LET search[block \in 0 .. Len(seqnums)] ==
            IF block = 0 THEN [cursor |-> 1, found |-> -1]
            ELSE IF search[block - 1].found >= 0 THEN search[block - 1]
            ELSE LET cursor == Advance(headers, search[block - 1].cursor, seqnums[block])
                 IN  [cursor |-> cursor,
                      found  |-> IF BlockMatches(v, seqnums, headers, block, cursor, value)
                                 THEN block - 1 ELSE -1]
    IN  search[Len(seqnums)].found

FindBlock(v, header, value) ==
    IF ~HasKw(v, SEQNUM) \/ ~HasKw(v, header) THEN -1
    ELSE BlockFound(v, v.kw_index[SEQNUM], v.kw_index[header], value)

(* Mutant: the position of the INTEHEAD instead of its number.             *)
FindSimPosition(v, date) ==
    LET hits == {n \in 0 .. Len(v.kw_list) - 1 :
                     file[v.kw_list[n + 1]] = [name |-> INTEHEAD, value |-> date]}
    IN  IF hits = {} THEN -1 ELSE CHOOSE i \in hits : \A j \in hits : i <= j

(* find_sim_time: the first INTEHEAD of that date, or -1.                  *)
FindSimTime(v, date) ==
    LET hits == {i \in 0 .. NumNamedKw(v, INTEHEAD) - 1 :
                     file[GetKw(v, INTEHEAD, i)].value = date}
    IN  IF hits = {} THEN -1 ELSE CHOOSE i \in hits : \A j \in hits : i <= j

-----------------------------------------------------------------------------
(* File::scan, which adds the keywords and indexes them at its end; the    *)
(* model may end it after each keyword.                                    *)
Scan(kw) ==
    /\ Len(file) < MaxKeywords
    /\ view = global_view /\ answer = Silent
    /\ file' = Append(file, kw)
    /\ global_view' = Indexed(file', Append(global_view.kw_list, Len(file')))
    /\ view' = global_view'
    /\ UNCHANGED answer

(* A query changes nothing but the answer; between two queries the client  *)
(* turns to the view it was given or back to the whole file.               *)
Enter ==
    /\ answer.what = "view"
    /\ view' = Indexed(file, answer.list)
    /\ answer' = Silent
    /\ UNCHANGED <<file, global_view>>

Return ==
    /\ view # global_view \/ answer # Silent
    /\ view' = global_view
    /\ answer' = Silent
    /\ UNCHANGED <<file, global_view>>

(* block_view and block_view2 refuse a keyword that is not there; a        *)
(* negative index counts from the end.                                     *)
AskBlockView(start, end, index) ==
    LET occurence == IF index < 0 THEN index + NumNamedKw(view, start) ELSE index
        asked     == <<start, end, index>>
    IN  /\ answer = Silent
        /\ end # NoName => HasKw(view, end)
        /\ occurence >= 0
        /\ answer' = IF HasBlock(view, start, occurence)
                     THEN ViewOf(asked, Blockview(view, start, end, occurence))
                     ELSE Throws(asked)
        /\ UNCHANGED <<file, global_view, view>>

(* restart_view_from_report_step, _sim_time and _sim_days.                 *)
AskRestartView(header, value) ==
    LET block == FindBlock(view, header, value)
        asked == <<header, value>>
    IN  /\ answer = Silent
        /\ answer' = IF block = -1 THEN Throws(asked)
                     ELSE ViewOf(asked, Blockview(view, SEQNUM, SEQNUM, block))
        /\ UNCHANGED <<file, global_view, view>>

(* restart_sim_date; at() throws when the block has no INTEHEAD.           *)
AskRestartSimDate(seqnum_index) ==
    /\ answer = Silent
    /\ answer' =
           IF ~HasBlock(view, SEQNUM, seqnum_index) THEN Throws(<<seqnum_index>>)
           ELSE LET block == Indexed(file, Blockview(view, SEQNUM, SEQNUM, seqnum_index))
                IN  IF HasKw(block, INTEHEAD)
                    THEN ValueOf(<<seqnum_index>>, file[GetKw(block, INTEHEAD, 0)].value)
                    ELSE Throws(<<seqnum_index>>)
    /\ UNCHANGED <<file, global_view, view>>

(* restart_get_kw, a call on the file: the number of the INTEHEAD is used  *)
(* as the number of the keyword.                                           *)
RestartGetKw(name, date) ==
    LET index == FindSimTime(global_view, date)
        asked == <<name, date>>
    IN  /\ view = global_view /\ answer = Silent
        /\ answer' = IF index >= 0 /\ index < NumNamedKw(global_view, name)
                     THEN KeywordOf(asked, GetKw(global_view, name, index))
                     ELSE NoKw(asked)
        /\ UNCHANGED <<file, global_view, view>>

Init ==
    /\ file = <<>>
    /\ global_view = [kw_list |-> <<>>, kw_index |-> <<>>]
    /\ view = global_view
    /\ answer = Silent

Next ==
    \/ \E kw \in Keywords : Scan(kw)
    \/ Enter
    \/ Return
    \/ \E start, end \in Names \cup {NoName}, index \in -1 .. MaxOccurence :
           AskBlockView(start, end, index)
    \/ \E kw \in Keywords : AskRestartView(kw.name, kw.value)
    \/ \E n \in 0 .. MaxOccurence : AskRestartSimDate(n)
    \/ \E name \in Names, kw \in Keywords :
           kw.name = INTEHEAD /\ RestartGetKw(name, kw.value)

Spec == Init /\ [][Next]_vars

-----------------------------------------------------------------------------
(* Indexes, cursors and occurrence numbers cannot be seen from outside:    *)
(* every view of a block, of a view of a file too, is the list of keywords *)
(* that the structure of the file says it is, and the first step with the  *)
(* report step, the date or the days is the one that is found, whatever    *)
(* headers the steps have or lack.                                         *)
Contents(list) == [n \in DOMAIN list |-> file[list[n]]]

Abstract == INSTANCE RestartSteps WITH
    Held <- Keywords \cup OtherKeywords,
    Occurences <- -1 .. MaxOccurence,
    content <- Contents(view.kw_list),
    answer  <- IF answer.what \in {"view", "value", "missing"}
               THEN [asked |-> answer.asked, what |-> answer.what,
                     kws |-> Contents(answer.list), value |-> answer.value]
               ELSE [asked |-> <<>>, what |-> "none", kws |-> <<>>, value |-> 0]

StepsFound == Abstract!Spec

SameStep(m, n) ==
    \A k \in DOMAIN file : (m < k /\ k <= n) \/ (n < k /\ k <= m) => file[k].name # SEQNUM

AtTime(n, date) ==
    \E m \in DOMAIN file : SameStep(m, n) /\ file[m] = [name |-> INTEHEAD, value |-> date]

(* rd_file_pybind.cpp, restart_get_kw: the keyword is the one exactly at   *)
(* the time asked for.  It is when every step has one INTEHEAD and one     *)
(* keyword of the name.                                                    *)
OncePerStep(name) ==
    \A n \in DOMAIN file :
        Cardinality({m \in DOMAIN file : SameStep(m, n) /\ file[m].name = name}) = 1

KwAtTimeWhenRegular ==
    (answer.what = "keyword" /\ OncePerStep(INTEHEAD)
        /\ OncePerStep(file[answer.list[1]].name)) =>
        AtTime(answer.list[1], answer.asked[2])
=============================================================================
