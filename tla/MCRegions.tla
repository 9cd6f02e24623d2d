----------------------------- MODULE MCRegions ------------------------------
(* A region of cells by itself, and the evaluations that are limited to    *)
(* one.  The two share no state: a behaviour is of one of them, named by   *)
(* part, while the other rests where it began.                             *)
EXTENDS MCRegion, MCGravity

VARIABLE part     \* "region" or "gravity"

MCInit ==
    /\ part \in {"region", "gravity"} /\ Init /\ GravityInit
    /\ part = "region" => init_file = MCOil
    /\ part = "gravity" => ~preselect

MCNext ==
    \/ part = "region" /\ Next /\ UNCHANGED <<part, gravityVars>>
    \/ part = "gravity" /\ GravityNext /\ UNCHANGED <<part, vars>>

MCSpec == MCInit /\ [][MCNext]_<<part, vars, gravityVars>>
=============================================================================
