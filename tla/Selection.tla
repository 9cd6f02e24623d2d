----------------------------- MODULE Selection -----------------------------
(***************************************************************************)
(* What a region promises its clients (rd_region.cpp, the comment at the   *)
(* head of the file): a set of cells that is changed at will, and whose    *)
(* members can be asked for, as global or as active indices, at any time.  *)
(* There is no cache here: an answer is computed from the current set.     *)
(***************************************************************************)
EXTENDS Integers, Sequences

CONSTANTS Cells, ActiveIndex(_)

VARIABLES sel, answer

vars == <<sel, answer>>

Active(S) == {c \in S : ActiveIndex(c) >= 0}

(* list holds the members of S, each once, in increasing order.            *)
Enumerates(list, S) ==
    /\ {list[n] : n \in DOMAIN list} = S
    /\ \A m, n \in DOMAIN list : m < n => list[m] < list[n]

Init ==
    /\ sel \in {{}, Cells}
    /\ answer.kind = "none"

Change ==
    /\ sel' \in SUBSET Cells
    /\ answer'.kind = "none"

AskGlobal ==
    /\ UNCHANGED sel
    /\ answer'.kind = "global"
    /\ Enumerates(answer'.list, sel)

AskGlobalActive ==
    /\ UNCHANGED sel
    /\ answer'.kind = "global_active"
    /\ Enumerates(answer'.list, Active(sel))

AskActive ==
    /\ UNCHANGED sel
    /\ answer'.kind = "active"
    /\ Enumerates(answer'.list, {ActiveIndex(c) : c \in Active(sel)})

Next == Change \/ AskGlobal \/ AskGlobalActive \/ AskActive

Spec == Init /\ [][Next]_vars
=============================================================================
