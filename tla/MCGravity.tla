----------------------------- MODULE MCGravity -----------------------------
(* Instances of Gravity: a three-phase model with a numerical aquifer in   *)
(* its last active cell, and an oil-water one, of four cells in which one  *)
(* is not active and two PVT regions.                                      *)
EXTENDS Gravity, TLC

MCPorv == [c \in 0 .. 3 |-> 2 + c]
MCVolumes == [c \in 0 .. 3 |-> 10 * (c + 1)]

MCFlat(values) == [i \in 1 .. 3 |-> values]

(* The second simulator gives everything but pore volumes; the first step  *)
(* has saturations of water and gas, the second fluids in place; in the    *)
(* third, RPORV holds something else in the last cell.                     *)
MCThreePhase ==
    [calls |-> 3, version |-> "E100", iphs |-> 7, active |-> <<0, 2, 3>>, porv |-> MCPorv,
     pvtnum |-> <<1, 0, 1>>, aquifer |-> <<FALSE, FALSE, TRUE>>, volume |-> MCVolumes,
     steps |-> {
        (<<"SAT", "water">> :> <<3, 5, 6>>) @@ (<<"SAT", "gas">> :> <<2, 4, 1>>)
        @@ (<<"RPORV">> :> <<2, 3, 5>>) @@ (<<"PRESSURE">> :> <<7, 8, 9>>)
        @@ [k \in {<<"DEN", "E100", p>> : p \in Phases} |->
               CASE k[3] = "oil" -> <<3, 2, 3>> [] k[3] = "gas" -> <<1, 1, 2>> [] OTHER -> <<4, 5, 4>>],
        (<<"RPORV">> :> <<2, 4, 90>>) @@ (<<"PRESSURE">> :> <<5, 8, 6>>)
        @@ (<<"PORMOD">> :> <<1, 2, 1>>)
        @@ (<<"SAT", "water">> :> <<4, 5, 7>>) @@ (<<"SAT", "gas">> :> <<1, 4, 0>>)
        @@ [k \in {<<"DEN", "E100", p>> : p \in Phases} |-> <<2, 3, 2>>]
        @@ [k \in {<<"FIP", p>> : p \in Phases} |->
               CASE k[2] = "oil" -> <<1, 4, 2>> [] k[2] = "gas" -> <<2, 2, 3>> [] OTHER -> <<5, 1, 1>>],
        (<<"PRESSURE">> :> <<5, 5, 6>>) }]

MCOilWater ==
    [calls |-> 3, version |-> "E300", iphs |-> 5, active |-> <<1, 2, 3>>, porv |-> MCPorv,
     pvtnum |-> <<0, 2, 1>>, aquifer |-> <<FALSE, TRUE, FALSE>>, volume |-> MCVolumes,
     steps |-> {
        (<<"SAT", "water">> :> <<3, 5, 6>>) @@ (<<"RPORV">> :> <<3, 4, 5>>)
        @@ [k \in {<<"DEN", "E300", p>> : p \in {"oil", "water"}} |->
               IF k[3] = "oil" THEN <<3, 2, 3>> ELSE <<4, 5, 4>>]
        @@ [k \in {<<"RFIP", p>> : p \in {"oil", "water"}} |->
               IF k[2] = "oil" THEN <<1, 3, 1>> ELSE <<2, 2, 1>>],
        [k \in {<<"FIP", p>> : p \in {"oil", "water"}} |->
               IF k[2] = "oil" THEN <<1, 4, 2>> ELSE <<5, 1, 1>>] }]

MCOil ==
    [calls |-> 4, version |-> "E100", iphs |-> 1, active |-> <<0, 1, 3>>, porv |-> MCPorv,
     pvtnum |-> <<1, 0, 2>>, aquifer |-> MCFlat(FALSE), volume |-> MCVolumes,
     steps |-> {(<<"FIP", "oil">> :> <<1, 4, 2>>)}]

MCUnknown == [MCOilWater EXCEPT !.version = "INTERSECT", !.calls = 1]
MCInitFiles == {MCThreePhase, MCOilWater, MCOil, MCUnknown}

MCSymmetry == Permutations(Names)
(* As many active cells as the files have, one more, one fewer.            *)
MCActives == {<<1, 2, 3>>, <<0, 1, 2, 3>>, <<2, 3>>}
MCSelections == {{2, 3}, {0, 1}}
MCMasks == {{"oil", "gas", "water"}, {"water"}}
=============================================================================
