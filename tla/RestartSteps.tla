---------------------------- MODULE RestartSteps ----------------------------
(***************************************************************************)
(* What views of a restart file promise (rd_file_view.cpp, the comments on *)
(* blocks and on the time direction; rd_file_view.hpp, find_block and      *)
(* blockview): the keywords from one SEQNUM to the next are a report step, *)
(* and a step is found by its number, by its report step, or by the date   *)
(* or the days in its first INTEHEAD or DOUBHEAD.  Here are only keywords  *)
(* and steps, and no index.                                                *)
(***************************************************************************)
EXTENDS Integers, Sequences, FiniteSets

CONSTANTS Keywords, Held, SEQNUM, INTEHEAD, NoName, Occurences

VARIABLES content, answer

vars == <<content, answer>>

Silent == [asked |-> <<>>, what |-> "none", kws |-> <<>>, value |-> 0]
Missing(asked)  == [Silent EXCEPT !.asked = asked, !.what = "missing"]
View(asked, s)  == [Missing(asked) EXCEPT !.what = "view", !.kws = s]
Value(asked, v) == [Missing(asked) EXCEPT !.what = "value", !.value = v]

Names == {kw.name : kw \in Keywords}
Named(name) == {n \in DOMAIN content : content[n].name = name}

Least(S) == CHOOSE n \in S : \A m \in S : n <= m

(* The n-th member of a set of positions, counted from 0.                  *)
Nth(S, n) == {s \in S : Cardinality({m \in S : m < s}) = n}

(* The positions from first on, up to the next keyword named end.          *)
Until(first, end) ==
    {n \in first .. Len(content) : \A m \in first + 1 .. n : content[m].name # end}

Keep(first, positions) ==
    [n \in 1 .. Cardinality(positions) |-> content[first + n - 1]]

(* A step has a header of some kind when such a keyword is in it, and the  *)
(* first of them counts: a step has one more for each local grid.          *)
Steps == Named(SEQNUM)
Headers(step, name) == Named(name) \cap Until(step, SEQNUM)
HeaderValue(step, name) == content[Least(Headers(step, name))].value

Init == content = <<>> /\ answer = Silent

(* The client turns to another list of keywords.                           *)
Turn ==
    /\ content' \in Seq(Held)
    /\ answer' = Silent

(* NoName stands for the first keyword, and as an end for none; a negative *)
(* number counts from the last.                                            *)
AskView(start, end, n) ==
    LET asked == <<start, end, n>>
        nth   == IF n < 0 THEN n + Cardinality(Named(start)) ELSE n
        first == IF start = NoName THEN {1} ELSE Nth(Named(start), nth)
    IN  /\ answer' = IF first = {} THEN Missing(asked)
                     ELSE View(asked, Keep(Least(first), Until(Least(first), end)))
        /\ UNCHANGED content

AskStep(name, value) ==
    LET asked == <<name, value>>
        steps == {s \in Steps : Headers(s, name) # {} /\ HeaderValue(s, name) = value}
    IN  /\ answer' = IF steps = {} THEN Missing(asked)
                     ELSE View(asked, Keep(Least(steps), Until(Least(steps), SEQNUM)))
        /\ UNCHANGED content

AskDate(n) ==
    LET steps == {s \in Nth(Steps, n) : Headers(s, INTEHEAD) # {}}
    IN  /\ answer' = IF steps = {} THEN Missing(<<n>>)
                     ELSE Value(<<n>>, HeaderValue(Least(steps), INTEHEAD))
        /\ UNCHANGED content

Next ==
    \/ Turn
    \/ \E start, end \in Names \cup {NoName}, n \in Occurences :
           AskView(start, end, n)
    \/ \E kw \in Keywords : AskStep(kw.name, kw.value)
    \/ \E n \in Occurences : AskDate(n)

Spec == Init /\ [][Next]_vars
=============================================================================
