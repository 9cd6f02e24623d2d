--------------------------- MODULE SummaryValues ---------------------------
(***************************************************************************)
(* What clients ask of a summary case between and about its steps          *)
(* (rd_sum_data.cpp, rd_sum.cpp): values at a time, one by one, in rows    *)
(* and in frames; the times at which a variable has a value, and the first *)
(* step that is above a limit.                                             *)
(*                                                                         *)
(* Times are hours: the second that the code adds to a time is an hour     *)
(* here; steps lie StepHours apart.                                        *)
(***************************************************************************)
EXTENDS SummaryCase

CONSTANTS
    Limits,     \* values to solve for
    DefaultOf   \* default value of the vector that a row is put in

-----------------------------------------------------------------------------
(* Values at a time.                                                       *)

InRange(s, t) == Timeline(s) # <<>> /\ DataStartOf(s) <= t /\ t <= SimEndOf(s)

(* A time out of range throws.                                             *)
get_from_sim_time(s, key, t) == Interpolated(s, general_var_node(s.header, key), t)

(* get_first_day, in days times the square of 86400 when the first step is *)
(* after the start, and get_sim_length, in units of TIME or, of a case     *)
(* that has dates only, of -1 second.                                      *)
SimHours(s, at) == TimeAt(s, at) - HeaderOf(s, at[1]).sim_start

check_sim_days(s, days) ==
    /\ SimHours(s, <<1, 1>>) * 3600 <= days \div 86400
    /\ LET header == HeaderOf(s, Len(s.files))
           hours  == SimHours(s, <<Len(s.files), Len(s.files[Len(s.files)].index)>>)
       IN  IF header.time_index >= 0 THEN days * header.time_unit <= hours
           ELSE days <= -3600 * hours

(* rd_sum_vector_alloc_layout_copy: keys that the case does not have stay  *)
(* as invalid ones.                                                        *)
InvalidKey == [status |-> "invalid"]

layout_copy(s, keys) ==
    [n \in DOMAIN keys |->
        IF has_general_var(s.header, keys[n]) THEN general_var_node(s.header, keys[n])
        ELSE InvalidKey]

ValidKeys(vector) == {n \in DOMAIN vector : vector[n] # InvalidKey}

(* rd_sum_data_get_interp_vector: the vector is emptied first and grows to *)
(* the last valid key.                                                     *)
get_interp_vector(s, t, vector) ==
    [n \in 1 .. Max(ValidKeys(vector) \cup {0}) |->
        IF n \in ValidKeys(vector) THEN Interpolated(s, vector[n], t) ELSE DefaultOf]

(* fwrite_interp_csv_line: an invalid key leaves its field empty.          *)
interp_csv_line(s, t, vector) ==
    [n \in DOMAIN vector |->
        IF n \in ValidKeys(vector) THEN <<Interpolated(s, vector[n], t)>> ELSE <<>>]

-----------------------------------------------------------------------------
(* Frames.                                                                 *)

FrameValue(s, node, t) ==
    IF t < DataStartOf(s) THEN Clamped(s, node, Head(Timeline(s)))
    ELSE IF t > SimEndOf(s) THEN Clamped(s, node, Last(Timeline(s)))
    ELSE Interpolated(s, node, t)

double_vector_interp(s, node, times) == [n \in DOMAIN times |-> FrameValue(s, node, times[n])]

(* Mutant: the strides of keys and times are swapped.                      *)
FrameIndexOfKeys(key, time, keys, times) == key * times + time

(* data_index, with the strides of keys and times.                         *)
FrameIndex(key, time, keys, times) == key + time * keys

double_frame_interp(s, vector, times) ==
    LET cells == (0 .. Len(vector) - 1) \X (0 .. Len(times) - 1)
    IN  [d \in 0 .. Len(vector) * Len(times) - 1 |->
            LET cell == CHOOSE c \in cells : FrameIndex(c[1], c[2], Len(vector), Len(times)) = d
            IN  FrameValue(s, vector[cell[1] + 1], times[cell[2] + 1])]

-----------------------------------------------------------------------------
(* Solving.                                                                *)

Between(a, b, value) == (a < value /\ value < b) \/ (b < value /\ value < a)

(* Mutant: a line is followed back from the step at its end.               *)
OnLineFromEnd(from, to, v, w, value) ==
    IF w > v THEN to + ((value - v) * (to - from)) \div (w - v)
    ELSE to + ((v - value) * (to - from)) \div (v - w)

(* prev_time plus the difference over the slope.                           *)
OnLine(from, to, v, w, value) ==
    IF w > v THEN from + ((value - v) * (to - from)) \div (w - v)
    ELSE from + ((v - value) * (to - from)) \div (v - w)

(* rd_sum_data_alloc_seconds_solution: from one step to the next; None for *)
(* NaN, of a variable that stays at the value or begins with it.           *)
seconds_solution(s, node, value, clamp_lower) ==
    LET steps  == Timeline(s)
        v      == [i \in DOMAIN steps |-> IGet(s, steps[i], node.index)]
        time   == [i \in DOMAIN steps |-> SimHours(s, steps[i])]
        Prev(i) == IF i = 1 THEN 1 ELSE i - 1
        at     == SelectSeq([i \in DOMAIN steps |-> i],
                            LAMBDA i : v[i] = value \/ Between(v[Prev(i)], v[i], value))
        Solution(i) ==
            IF node.rate THEN IF clamp_lower THEN time[Prev(i)] + 1 ELSE time[i]
            ELSE IF v[i] = v[Prev(i)] THEN None
            ELSE OnLine(time[Prev(i)], time[i], v[Prev(i)], v[i], value)
    IN  IF Len(steps) <= 1 THEN <<>> ELSE [n \in DOMAIN at |-> Solution(at[n])]

(* The hours are taken for those from the start of the case.               *)
solve_dates(s, key, value, clamp_lower) ==
    LET hours == seconds_solution(s, general_var_node(s.header, key), value, clamp_lower)
    IN  [n \in DOMAIN hours |-> IF hours[n] = None THEN None ELSE s.header.sim_start + hours[n]]

get_limiting(s, index, limit, gt) ==
    LET steps == Timeline(s)
        at == {i \in DOMAIN steps : IF gt THEN IGet(s, steps[i], index) > limit
                                    ELSE IGet(s, steps[i], index) < limit}
    IN  IF at = {} THEN None ELSE Min(at) - 1

-----------------------------------------------------------------------------
(* The cases asked: loaded ones and writers in which values were set, with *)
(* steps, and every variable with a key.                                   *)
Asked ==
    /\ sum.kind = "loaded" \/ (sum.kind = "writer" /\ sum.set > 0 /\ last = NoCall)
    /\ Timeline(sum) # <<>> /\ ~MappingThrows(sum.header)

OneStart(s) == \A n \in DOMAIN s.files : HeaderOf(s, n).sim_start = s.header.sim_start

(* A value asked for alone, in a row, in a line of text, in a vector and   *)
(* in a frame of all keys is the same, whether the columns are those of    *)
(* the case or of another that it is laid out as; and days that are let    *)
(* through are days with data (rd_sum_data.cpp:360-363, 708-864, 995-1093).*)
ValuesAgree ==
    Asked =>
        \A times \in SampleTimes, n \in DOMAIN sum.files :
            LET keys   == SetToSeq(KeyList(sum.header))
                vector == layout_copy(sum, keys)
                frame  == double_frame_interp(sum, vector, times)
                names  == SetToSeq(KeyList(HeaderOf(sum, n)))
                guest  == layout_copy(sum, names)
            IN  /\ \A k \in DOMAIN keys : \A t \in DOMAIN times :
                      LET value == frame[(t - 1) * Len(keys) + k - 1]
                      IN  /\ value = double_vector_interp(sum, vector[k], times)[t]
                          /\ InRange(sum, times[t]) =>
                                value = get_from_sim_time(sum, keys[k], times[t])
                /\ \A t \in ToSet(times) : InRange(sum, t) =>
                      LET row  == get_interp_vector(sum, t, guest)
                          line == interp_csv_line(sum, t, guest)
                      IN  /\ Len(line) = Len(names)
                          /\ \A k \in DOMAIN names :
                                 IF names[k] \in KeyList(sum.header)
                                 THEN line[k] = <<row[k]>> /\ row[k] = get_from_sim_time(sum, names[k], t)
                                 ELSE line[k] = <<>> /\ (k \in DOMAIN row => row[k] = DefaultOf)
                /\ \A days \in 0 .. 6 :
                      check_sim_days(sum, days) /\ sum.header.time_unit = 24 /\ OneStart(sum) =>
                          InRange(sum, sum.header.sim_start + 24 * days)

(* Where a variable passes a value between two steps there is a solution   *)
(* in between, at which the variable has that value, or as a rate that of  *)
(* the later step; and the first step above a limit, if it is not the      *)
(* first of all, comes after a solution, or None where the variable rests  *)
(* at the limit (rd_sum_data.cpp:495-531, rd_sum.cpp:835-856).  The cases of a chain start together: times in     *)
(* solutions are counted from the start of the file that has the step.     *)
(* Solutions that are not whole hours are left out.                        *)
SolutionsAreValues ==
    Asked /\ OneStart(sum) =>
        \A key \in KeyList(sum.header), limit \in Limits, clamp_lower \in BOOLEAN :
            LET node  == general_var_node(sum.header, key)
                times == SimTimes(sum)
                v     == [i \in DOMAIN times |-> IGet(sum, Timeline(sum)[i], node.index)]
                dates == solve_dates(sum, key, limit, clamp_lower)
                above == get_limiting(sum, node.index, limit, TRUE)
                Whole(i) == ((limit - v[i - 1]) * (times[i] - times[i - 1]))
                                % (Larger(v[i], v[i - 1]) - Min({v[i], v[i - 1]})) = 0
            IN  /\ \A i \in 2 .. Len(times) : Between(v[i - 1], v[i], limit) /\ (node.rate \/ Whole(i)) =>
                       \E n \in DOMAIN dates :
                           /\ times[i - 1] <= dates[n] /\ dates[n] <= times[i]
                           /\ get_from_sim_time(sum, key, dates[n]) = IF node.rate THEN v[i] ELSE limit
                /\ above > 0 => \E n \in DOMAIN dates :
                                   dates[n] = None \/ dates[n] <= times[above + 1]
=============================================================================
