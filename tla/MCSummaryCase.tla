--------------------------- MODULE MCSummaryCase ---------------------------
EXTENDS SummaryValues

MCSpelling == [TIME |-> <<"T", "I", "M", "E">>, WOPR |-> <<"W", "O", "P", "R">>,
               GOPT |-> <<"G", "O", "P", "T">>, RORFT |-> <<"R", "O", "R", "F", "T">>,
               DAY |-> <<"D", "A", "Y">>, MONTH |-> <<"M", "O", "N", "T", "H">>,
               YEAR |-> <<"Y", "E", "A", "R">>, BPR |-> <<"B", "P", "R">>, LWOPT |-> <<"L", "W", "O", "P", "T">>]
MCRank == [BPR |-> 1, DAY |-> 2, GOPT |-> 3, LWOPT |-> 4, MONTH |-> 5, RORFT |-> 6, TIME |-> 7,
           WOPR |-> 8, YEAR |-> 9, A |-> 10, B |-> 11, L |-> 12]

MCVar(kw, wgname, num) == [kw |-> kw, wgname |-> wgname, num |-> num, lgr |-> "", lgr_ijk |-> <<>>]
MCVars == {MCVar("WOPR", "A", 0), MCVar("WOPR", "B", 0), MCVar("GOPT", "A", 0),
           MCVar("RORFT", "", 12 * 32768 + 1),
           [kw |-> "LWOPT", wgname |-> "A", num |-> 0, lgr |-> "L", lgr_ijk |-> <<1, 1, 1>>]}

(* A simulator's case: a dummy column, a key twice, a local grid, a block. *)
MCColumn(kw, wgname, num, lgr) ==
    [kw |-> kw, wgname |-> wgname, num |-> num, unit |-> IF kw = "TIME" THEN "DAYS" ELSE "SM3",
     lgr |-> lgr, lgr_ijk |-> <<1, 2, 1>>]
MCFile(columns, restart, start) ==
    [columns |-> columns, has_nums |-> TRUE, has_lgrs |-> TRUE, restart_case |-> restart,
     restart_step |-> 1, dims |-> <<2, 1, 1>>, start |-> start]
MCHistory ==
    [hist |-> [smspec |-> MCFile(<<MCColumn("TIME", "", -32676, ""),
                                   MCColumn("WOPR", ":+:+:+:+", 0, ""),
                                   MCColumn("WOPR", "B", 0, ""),
                                   MCColumn("GOPT", "A", 0, ""),
                                   MCColumn("LWOPT", "A", 0, "L"),
                                   MCColumn("WOPR", "B", 0, ""),
                                   MCColumn("BPR", "", 2, "")>>, "", 0),
               steps  |-> <<<<1, 7, 12, 24, 36, 48, 6>>, <<2, 7, 60, 72, 84, 96, 18>>, <<1, 2>>>>]]

(* Others: one with dates instead of times, restarted from the first; one with      *)
(* times that are not known, and one restarted from it.                    *)
MCDated == MCHistory @@
    [dated |-> [smspec |-> MCFile(<<MCColumn("DAY", "", 0, ""), MCColumn("MONTH", "", 0, ""),
                                    MCColumn("YEAR", "", 0, ""), MCColumn("WOPR", "B", 0, "")>>,
                                  "hist", 0),
                steps  |-> <<<<3, 1, 2000, 6>>, <<4, 1, 2000, 12>>>>],
     bad |-> [smspec |-> [MCFile(<<MCColumn("TIME", "", -32676, "")>>, "", 0)
                            EXCEPT !.columns[1].unit = "YEARS"],
              steps  |-> <<<<1>>>>],
     late |-> [smspec |-> MCFile(<<MCColumn("TIME", "", -32676, ""), MCColumn("GOPT", "A", 0, "")>>,
                                 "bad", 0),
               steps  |-> <<<<2, 12>>>>]]

MCForeign == {MCHistory, MCDated}

(* The epoch is the first of January 2000.                                 *)
MCDateHours == [date \in (1 .. 6) \X {1} \X {2000} |-> 24 * (date[1] - 1)]

MCRateVars  == {<<"O", "P", "R">>}
MCTotalVars == {<<"O", "P", "T">>}
MCDims == <<2, 1, 1>>

MCSampleTimes == {<<24, 72, 144>>}
=============================================================================
