--------------------------- MODULE MCSummaryData ---------------------------
(* Files of a history and of the runs restarted from it: report steps of   *)
(* one and of two ministeps, one begun and not finished (5), one empty in  *)
(* the middle, a file that begins without SEQHDR, and a missing file.      *)
EXTENDS SummaryData

MCUnifiedFiles ==
    {<<0, 1, 2, 0, 3>>, <<0, 2, 0, 4>>, <<0, 1, 0, 0, 3>>, <<0, 3, 0, 4, 0>>, <<1, 0, 2>>, <<0>>}

MCSeparateFiles ==
    {[r \in {1, 2} |-> <<r>>], [r \in {2, 3} |-> IF r = 2 THEN <<3, 4>> ELSE <<>>]}

MCGarbage ==
    {[length |-> 0, report1 |-> r[1], report2 |-> r[2], time1 |-> r[1], time2 |-> r[2]] :
        r \in {<<0, 0>>, <<0, 4>>}}
=============================================================================
