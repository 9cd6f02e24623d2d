------------------------------ MODULE MCLayers ------------------------------
(* A layer that is walked over, and a fault block layer, both of three by  *)
(* three cells.  The two share no state: a behaviour is of one of them,    *)
(* named by part, while the other rests where it began.                    *)
EXTENDS FaultBlocks, LayerCalls

VARIABLE part     \* "layer" or "blocks"

-----------------------------------------------------------------------------
(* Blocks with a hole, blocks that touch themselves or another at a        *)
(* corner, blocks of one cell.                                             *)
Ring  == <<1, 1, 1,  1, 0, 1,  1, 1, 1>>
Hook  == <<1, 1, 0,  1, 0, 1,  1, 1, 1>>
Chess == <<1, 2, 1,  2, 1, 2,  1, 2, 1>>
Step  == <<1, 2, 2,  1, 1, 2,  1, 1, 1>>

MCLayouts == {Ring, Hook, Chess, Step}
MCBarrierLines == {<<<<0, 1>>, <<3, 2>>>>, <<<<1, 0>>, <<1, 3>>>>, <<<<2, 3>>, <<1, 1>>>>}

-----------------------------------------------------------------------------
(* Keywords with a block in two parts, a block that touches another at a   *)
(* corner, and no block.                                                   *)
MCKeywords == {<<1, 2, 1,  1, 2, 2,  0, 0, 0>>, <<1, 0, 2,  0, 1, 2,  0, 0, 0>>}
MCAdded    == {<<1, 1>>, <<3, 0>>}
MCLines    == {<<<<1, 0>>, <<1, 2>>>>, <<<<2, 1>>, <<0, 1>>>>}
MCInactive == {<<2, 1>>}

-----------------------------------------------------------------------------
MCInit == part \in {"layer", "blocks"} /\ Init /\ LayerInit

MCNext ==
    \/ part = "layer" /\ LayerNext /\ UNCHANGED <<part, vars>>
    \/ part = "blocks" /\ Next /\ UNCHANGED <<part, layerVars>>

MCSpec == MCInit /\ [][MCNext]_<<part, vars, layerVars>> /\ WF_layerVars(Loop)
=============================================================================
