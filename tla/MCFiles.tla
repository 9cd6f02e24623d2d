------------------------------ MODULE MCFiles -------------------------------
(* One file of at most two keywords, and the directory of two cases.  The  *)
(* two share no state: a behaviour is of one of them, named by part, while *)
(* the other rests where it began.                                         *)
EXTENDS ResultFile, CaseFiles, TLC

VARIABLE part     \* "file" or "directory"

-----------------------------------------------------------------------------
Kw(name, size, data) == [name |-> name, size |-> size, data |-> data]

(* Two keywords that only differ in position, or an empty one; the         *)
(* simulator appends a keyword whose name holds a blank.                   *)
MCLayouts == { <<Kw(<<"P">>, 1, 0), Kw(<<"P">>, 1, 0)>>, <<Kw(<<"S">>, 0, 0)>> }

MCAppended == { Kw(<<"P", "Q">>, 1, 1) }

Permuted == Permutations(Addresses)

-----------------------------------------------------------------------------
(* Two cases, one of them in lower case, and files of a third whose name   *)
(* begins with that of the first; reports of four digits and more.         *)
MCBases == {"CASE", "low"}
MCUpper == {"CASE", "CASE2"}
MCBeginning == {<<"CASE", "CASE2">>}
MCReports == {{1, 20}, {20, 10000}}

MCName(base, word, nr, digits, letters) ==
    [base |-> base, word |-> word, nr |-> nr, digits |-> digits, letters |-> letters]

(* Decks, a restart file of a number, an extension like one, one in mixed  *)
(* letters, and texts and binaries with other names.                       *)
MCStrangers == {
    [name |-> MCName("CASE", "DATA", -1, 0, "upper"), ascii |-> TRUE],
    [name |-> MCName("low", "DATA", -1, 0, "lower"), ascii |-> TRUE],
    [name |-> MCName("CASE2", "S", 1, 4, "upper"), ascii |-> FALSE],
    [name |-> MCName("CASE", "F", 2, 4, "upper"), ascii |-> TRUE],
    [name |-> MCName("CASE", "S", -1, 0, "upper"), ascii |-> TRUE],
    [name |-> MCName("CASE", "UNSMRY", -1, 0, "mixed"), ascii |-> FALSE],
    [name |-> MCName("CASE", "TXT", -1, 0, "upper"), ascii |-> FALSE]}

MCExt(word, nr, digits) == [word |-> word, nr |-> nr, digits |-> digits]
MCExtensions == {MCExt("SMSPEC", -1, 0), MCExt("FUNSMRY", -1, 0), MCExt("UNSMRY", -1, 0),
                 MCExt("S", 1, 4), MCExt("A", 1, 4), MCExt("FEGRID", -1, 0), MCExt("DATA", -1, 0),
                 MCExt("TXT", -1, 0)}

-----------------------------------------------------------------------------
MCInit ==
    /\ part \in {"file", "directory"} /\ Init /\ FilesInit
    /\ part = "directory" => Len(kws) = 1

MCNext ==
    \/ part = "file" /\ Next /\ UNCHANGED <<part, filesVars>>
    \/ part = "directory" /\ FilesNext /\ UNCHANGED <<part, vars>>

MCSpec == MCInit /\ [][MCNext]_<<part, vars, filesVars>>
=============================================================================
