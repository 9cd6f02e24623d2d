----------------------------- MODULE MCKeywords -----------------------------
(* Keywords in files, and keywords in memory and in text.  The two share   *)
(* no state: a behaviour is of one of them, named by part, while the other *)
(* rests where it began.                                                   *)
EXTENDS KeywordCalls

CONSTANTS
    Keywords, MaxKeywords, MaxCuts          \* those of KeywordFile

VARIABLES
    part,                                   \* "file" or "calls"
    disk, io, content, halves, cuts, read   \* those of KeywordFile

File == INSTANCE KeywordFile WITH last <- read

file_vars == <<disk, io, content, halves, cuts, read>>

-----------------------------------------------------------------------------
(* Keywords of files: data that go past the end of a record of numbers or  *)
(* of strings, fill one, fall short of one, and none.                      *)
MCFileKeywords == {
    Kw("A", "DOUB", <<4, 5, 4>>),
    Kw("A", "LOGI", <<TRUE, FALSE>>),
    Kw("B", "CHAR", <<Text("x", FALSE), Text("y", TRUE), Text("", FALSE), Text("x", TRUE)>>),
    Kw("B", "MESS", <<>>),
    Kw("LONG", "INTE", <<1>>)}

-----------------------------------------------------------------------------
(* Keywords in memory and text.                                            *)

MCColumns == [INTE |-> 2, REAL |-> 2, DOUB |-> 3, LOGI |-> 5, CHAR |-> 2, C012 |-> 2, MESS |-> 1]

(* Lines with a name behind another word or behind blanks, a comment, and  *)
(* data with comments, repeats, a fraction and a slash that sticks.        *)
Equil  == Long("name", "EQUIL") \o <<Blank>> \o Long("name", "PORV") \o <<Blank>> \o Slash \o <<NewLine>>
Remark == Comment \o <<Blank>> \o Long("name", "PORV") \o <<NewLine>>
Filled == <<Blank>> \o Long("name", "PORV") \o <<NewLine>>
              \o <<Blank>> \o Long("repeat", <<2, 1>>) \o <<Blank>> \o Short("int", 2) \o <<Blank>>
              \o Comment \o <<Blank>> \o Slash \o <<NewLine>> \o Slash \o <<NewLine>>
Broken == Long("name", "REG") \o <<NewLine>> \o Short("int", 1) \o <<Blank>> \o Long("real", 2)
              \o <<Blank>> \o Long("name", "PORV") \o <<NewLine>> \o Long("glued", 1) \o <<NewLine>>

Numbers == Kw("PORV", "REAL", <<2, 0, 4>>)
Actives == Kw("REG", "INTE", <<1, 0, 2, 1>>)
Wells   == Kw("REG", "CHAR", <<Text("P1", TRUE), Text("", FALSE)>>)
Regions(data) == Kw("REG", "INTE", data)

From(a, b, file, calls) == [kws |-> <<a, b>>, text |-> file, calls |-> calls]

MCStarts ==
    {From(a, b, <<>>, 2) : a \in {Numbers, Actives, Wells}, b \in {Actives, Regions(<<1, 2, 1>>)}}
        \cup {From(Numbers, Actives, file, 3) :
                  file \in {Equil \o Filled, Filled \o Remark, Broken \o <<NewLine>> \o Filled}}
        \cup {From(Regions(cells), Wells, <<>>, 1) : cells \in [1 .. 6 -> 0 .. 2]}
        \cup {From(Regions(<<1, 0, 0, 0, 0, 2, 0, 0, 0, 1, 0, 0>>), Wells, <<>>, 1)}

MCValues == {1, -2}

(* All of three elements, every second, none, a middle, and backwards.     *)
Slice(a, b, c) == [start |-> a, stop |-> b, step |-> c]
MCSlices == {Slice(0, 3, 1), Slice(0, 3, 2), Slice(2, 2, 1), Slice(1, 2, 1), Slice(1, 0, -1),
             Slice(0, 1, -1)}
MCStrings == {<<>>, <<"P2">>, <<"LONGNAME", "P3">>}

-----------------------------------------------------------------------------
Rest == CHOOSE start \in MCStarts : start.text = <<>> /\ start.calls = 1

MCInit ==
    /\ File!Init
    /\ \/ part = "calls" /\ Init
       \/ /\ part = "file"
          /\ kws = Rest.kws /\ text = <<>> /\ left = 0 /\ pos = 0 /\ written = {}
          /\ last = [op |-> "none", args |-> <<>>, result |-> None]

MCNext ==
    \/ part = "calls" /\ Next /\ UNCHANGED <<part, file_vars>>
    \/ part = "file" /\ File!Next /\ UNCHANGED <<part, vars>>

MCSpec == MCInit /\ [][MCNext]_<<part, vars, file_vars>>

(* What is read where a keyword was written is that keyword, or nothing if *)
(* its tail is lost (KeywordFile, rd_kw_fread_alloc).                      *)
WholeOrNothing == File!WholeOrNothing

(* A search finds the first keyword of the name (KeywordFile,              *)
(* rd_kw_fseek_kw).                                                        *)
SeekFindsFirst == File!SeekFindsFirst
=============================================================================
