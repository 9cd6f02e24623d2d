------------------------------ MODULE MCRegion ------------------------------
(* Small grids for Region: two columns of two cells.                       *)
EXTENDS Region, TLC

Ints(f)   == [type |-> "int",   data |-> f]
Floats(f) == [type |-> "float", data |-> f]
Bools(f)  == [type |-> "bool",  data |-> f]

(* Values in halves: 2 is 1, 3 is 1.5.                                     *)
MCLimits == {0, 2, 3}
MCDepth     == 0 :> 0 @@ 1 :> 3 @@ 2 :> 2 @@ 3 :> 3
MCVolume    == 0 :> 2 @@ 1 :> 2 @@ 2 :> 0 @@ 3 :> 3
MCThickness == 0 :> 3 @@ 1 :> 0 @@ 2 :> 2 @@ 3 :> 0

(* Cell 1 is inactive.                                                     *)
PlainIndexMap    == 0 :> 0 @@ 1 :> -1 @@ 2 :> 1 @@ 3 :> 2
PlainInvIndexMap == 0 :> 0 @@ 1 :> 2 @@ 2 :> 3

PlainKeywords == {
    Ints(0 :> 0 @@ 1 :> 2 @@ 2 :> 2 @@ 3 :> 4),
    Ints(0 :> 2 @@ 1 :> 0 @@ 2 :> 2),
    Floats(0 :> 1 @@ 1 :> 2 @@ 2 :> 3 @@ 3 :> 0),
    Floats(0 :> 2 @@ 1 :> 1 @@ 2 :> 3 @@ 3 :> 2),
    Floats(0 :> 0 @@ 1 :> 3 @@ 2 :> 2),
    Bools(0 :> 1 @@ 1 :> 0 @@ 2 :> 0 @@ 3 :> 1) }
=============================================================================
