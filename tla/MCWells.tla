------------------------------- MODULE MCWells -------------------------------
(* Any file of up to four keywords to search in; and restart files with    *)
(* two local grids, a segmented well, a step of dual porosity, a well that *)
(* cannot be read, an outlet that is not in use, and a file that is no     *)
(* restart file.                                                           *)
EXTENDS WellInfo

MCKeywords ==
    {[name |-> name, value |-> v] : name \in {"SEQNUM", "INTEHEAD"}, v \in {0, 1}}
        \cup {[name |-> "SWAT", value |-> 0]}

Conn(k, dir, seg, factor) ==
    [ic |-> 1, k |-> k, dir |-> dir, open |-> TRUE, seg |-> seg, factor |-> factor, rate |-> factor + 1]
Elsewhere == [Conn(0, 3, 0, 0) EXCEPT !.ic = 0]

Well(name, type, conns) ==
    [name |-> name, type |-> type, open |-> type # 0, head |-> [i |-> 1, k |-> 0],
     num |-> Len(conns), conns |-> conns, rate |-> type, segwell |-> 0]

Headers == {"INTEHEAD", "LOGIHEAD", "DOUBHEAD"}
WellArrays == {"IWEL", "ZWEL", "XWEL", "ICON", "SCON", "XCON"}
Step == {"SEQNUM"} \cup Headers \cup WellArrays

Block(report, wells_, has) ==
    [has |-> has, lgr |-> "", report |-> report, date |-> 10 * report, nz |-> 4, dualp |-> FALSE,
     nwells |-> Len(wells_), wells |-> wells_, segs |-> <<>>]
Lgr(name, report, wells_) ==
    [Block(report, wells_, {"LGR"} \cup Headers \cup WellArrays) EXCEPT !.lgr = name]

Seg(outlet, branch) == [outlet |-> outlet, branch |-> branch]

(* Branch 1 is 1, 2, 3; branch 2, 5 and 6, leaves from its last segment,   *)
(* and branch 3 from the middle.                                           *)
Laterals == <<Seg(0, 1), Seg(1, 1), Seg(2, 1), Seg(0, 0), Seg(3, 2), Seg(5, 2), Seg(2, 3)>>

MCBlocks == <<
    Block(1, <<Well("OP", 1, <<Conn(0, 3, 0, 2), Elsewhere, Conn(1, 7, 0, 3), Conn(2, 0, 0, 4)>>),
               Well("WI", 4, <<Conn(1, 1, 0, 5)>>)>>, Step),
    Lgr("L1", 1, <<Well("WI", 4, <<Elsewhere, Conn(3, 3, 0, 6)>>)>>),
    Lgr("L2", 1, <<Well("GI", 3, <<>>), Well("OP", 1, <<Conn(3, 2, 0, 7)>>)>>),
    [Block(5, <<[Well("OP", 1, <<Conn(1, 3, 6, 8), Conn(2, 3, 2, 9)>>) EXCEPT !.segwell = 1]>>,
           (Step \cup {"ISEG", "RSEG"}) \ {"XCON"}) EXCEPT !.segs = <<Laterals>>],
    [Block(4, <<Well("OP", 1, <<Conn(1, 4, 0, 2), Conn(2, 4, 0, 3), Conn(3, 5, 0, 4), Conn(2, 3, 0, 5)>>)>>,
           Step \ {"XWEL", "SCON"}) EXCEPT !.dualp = TRUE],
    Block(5, <<Well("OP", 1, <<>>), Well("WI", 7, <<>>)>>, Step),
    [Block(6, <<[Well("OP", 1, <<>>) EXCEPT !.segwell = 1]>>, Step \cup {"ISEG", "RSEG"})
         EXCEPT !.segs = <<<<Seg(0, 1), Seg(4, 1)>>>>],
    Block(7, <<>>, {"SEQNUM"} \cup Headers)>>

File(type, report, steps) == [type |-> type, report |-> report, steps |-> steps]
S(global, lgrs) == [global |-> global, lgrs |-> lgrs]

MCDir ==
    [lgrs     |-> File("unified", 0, <<S(1, <<2, 3>>), S(8, <<>>), S(4, <<>>)>>),
     swapped  |-> File("unified", 0, <<S(1, <<3, 2>>)>>),
     x0004    |-> File("restart", 4, <<S(5, <<>>)>>),
     x0001    |-> File("restart", 1, <<S(1, <<2>>)>>),
     invalid  |-> File("unified", 0, <<S(5, <<>>), S(6, <<>>)>>),
     outlet   |-> File("restart", 6, <<S(7, <<>>)>>),
     init     |-> File("other", 0, <<S(8, <<>>)>>)]

MCLgrs == <<"L1", "L2">>
MCOther == {[name |-> KeywordOrder[n], value |-> b] :
                n \in DOMAIN KeywordOrder, b \in DOMAIN MCBlocks}
=============================================================================
