---------------------------- MODULE SummaryNode ----------------------------
(***************************************************************************)
(* smspec_node.cpp: one variable of a summary case.  Its keyword decides   *)
(* by its letters what kind of variable it is, the kind decides which of   *)
(* the columns of the header matter, and from those the keys are made that *)
(* clients look it up with; rd_sum.py goes back from a key to a variable.  *)
(*                                                                         *)
(* A key is its parts, not the string they are joined to; the strings of   *)
(* two keys are equal when their parts are.  No key is an empty sequence.  *)
(***************************************************************************)
EXTENDS Integers, Sequences, SequencesExt

CONSTANTS
    Spelling,       \* keyword -> its letters
    Rank,           \* keyword, well or local grid -> its place in the order of strcmp
    SpecialVars,    \* keywords that are MISC whatever they begin with
    RateVars,       \* how the keyword of a rate goes on after its first letter
    TotalVars,      \* and that of a total
    SegRateVars,    \* the same for segments
    SegTotalVars

ASSUME SummaryNodeAssumption ==
    /\ SpecialVars \subseteq DOMAIN Spelling
    /\ DOMAIN Spelling \subseteq DOMAIN Rank
    /\ \A x \in DOMAIN Rank : Rank[x] \in Nat

DUMMY_WELL          == ":+:+:+:+"
SMSPEC_NUMS_INVALID == -991199
SMSPEC_TIME_NUMS    == -32676
nums_unused         == 0

NamedTypes == {"WELL", "GROUP", "COMPLETION", "SEGMENT", "LOCAL_WELL", "LOCAL_COMPLETION",
               "NETWORK"}
NumTypes   == {"COMPLETION", "SEGMENT", "REGION", "REGION_2_REGION", "BLOCK", "AQUIFER"}
LgrTypes   == {"LOCAL_BLOCK", "LOCAL_WELL", "LOCAL_COMPLETION"}

(* The order of rd_smspec_var_type.                                        *)
VarTypes == <<"FIELD", "REGION", "GROUP", "WELL", "SEGMENT", "BLOCK", "AQUIFER", "COMPLETION",
              "NETWORK", "REGION_2_REGION", "LOCAL_BLOCK", "LOCAL_COMPLETION", "LOCAL_WELL",
              "MISC">>

-----------------------------------------------------------------------------
(* What kind of variable a keyword names.                                  *)

Letter(kw, n) == IF n <= Len(Spelling[kw]) THEN Spelling[kw][n] ELSE ""

(* substr(ipos, size) == var                                               *)
Continues(kw, ipos, var) ==
    /\ ipos <= Len(Spelling[kw])
    /\ SubSeq(Spelling[kw], ipos + 1,
              IF ipos + Len(var) < Len(Spelling[kw]) THEN ipos + Len(var) ELSE Len(Spelling[kw]))
         = var

RegionToRegion(kw) ==
    \/ Spelling[kw] = <<"R", "N", "L", "F">>
    \/ Len(Spelling[kw]) = 3 /\ Letter(kw, 3) = "F"
    \/ /\ Spelling[kw] # <<"R", "O", "R", "F", "R">>
       /\ \E n \in {3, 4} : Letter(kw, n) = "F" /\ Letter(kw, n + 1) \in {"T", "R"}

LocalVarType(kw) ==
    CASE Letter(kw, 2) = "B" -> "LOCAL_BLOCK"
      [] Letter(kw, 2) = "C" -> "LOCAL_COMPLETION"
      [] Letter(kw, 2) = "W" -> "LOCAL_WELL"
      [] OTHER -> "MISC"

identify_var_type(kw) ==
    IF kw \in SpecialVars THEN "MISC"
    ELSE CASE Letter(kw, 1) = "A" -> "AQUIFER"
           [] Letter(kw, 1) = "B" -> "BLOCK"
           [] Letter(kw, 1) = "C" -> "COMPLETION"
           [] Letter(kw, 1) = "F" -> "FIELD"
           [] Letter(kw, 1) = "G" -> "GROUP"
           [] Letter(kw, 1) = "L" -> LocalVarType(kw)
           [] Letter(kw, 1) = "N" -> "NETWORK"
           [] Letter(kw, 1) = "R" -> IF RegionToRegion(kw) THEN "REGION_2_REGION" ELSE "REGION"
           [] Letter(kw, 1) = "S" -> "SEGMENT"
           [] Letter(kw, 1) = "W" -> "WELL"
           [] OTHER -> "MISC"

(* Where the part of a keyword begins that says rate or total.             *)
StemAt(type) == IF type \in {"LOCAL_WELL", "LOCAL_COMPLETION", "NETWORK"} THEN 2 ELSE 1

(* type is identify_var_type(kw) for a rate, valid_type for a total.       *)
identify_rate(kw, type) ==
    CASE type \in {"WELL", "GROUP", "FIELD", "REGION", "COMPLETION", "LOCAL_WELL",
                   "LOCAL_COMPLETION", "NETWORK"} ->
           \E var \in RateVars : Continues(kw, StemAt(type), var)
      [] type = "SEGMENT" -> \E var \in SegRateVars : Continues(kw, 1, var)
      [] type = "REGION_2_REGION" -> \E ipos \in {2, 3} : Continues(kw, ipos, <<"F", "R">>)
      [] OTHER -> FALSE

identify_total(kw, type) ==
    CASE type \in {"WELL", "GROUP", "FIELD", "REGION", "COMPLETION", "LOCAL_WELL",
                   "LOCAL_COMPLETION"} ->
           \E var \in TotalVars : Continues(kw, StemAt(type), var)
      [] type = "SEGMENT" -> \E var \in SegTotalVars : Continues(kw, 1, var)
      [] type = "REGION_2_REGION" -> \E ipos \in {2, 3} : Continues(kw, ipos, <<"F", "T">>)
      [] OTHER -> FALSE

ValidOf(type, wgname, num) ==
    IF \/ wgname \in {"", DUMMY_WELL} /\ type \in NamedTypes \ {"NETWORK"}
       \/ num < 0 /\ type \in NumTypes
    THEN "INVALID" ELSE type

valid_type(kw, wgname, num) == ValidOf(identify_var_type(kw), wgname, num)

-----------------------------------------------------------------------------
(* The keys of a variable.                                                 *)

(* set_num: i, j, k of a cell number, from 1.                              *)
Ijk(num, dims) ==
    LET plane == dims[1] * dims[2]
        g     == num - 1
    IN  <<((g % plane) % dims[1]) + 1, ((g % plane) \div dims[1]) + 1, (g \div plane) + 1>>

decode_R1R2(num) == <<num % 32768, ((num - (num % 32768)) \div 32768) - 10>>

Key(kw, join, lgr, name, place) ==
    [kw |-> kw, join |-> join, lgr |-> lgr, name |-> name, place |-> place]

(* set_gen_keys: gen_key1 and, for some kinds, gen_key2.                   *)
GenKeys(type, kw, name, num, ijk, lgr, lgr_ijk, join) ==
    CASE type \in {"FIELD", "MISC"} -> <<Key(kw, "", "", "", <<>>)>>
      [] type \in {"WELL", "GROUP", "NETWORK"} ->
           IF name = "" THEN <<>> ELSE <<Key(kw, join, "", name, <<>>)>>
      [] type \in {"REGION", "AQUIFER"} -> <<Key(kw, join, "", "", <<num>>)>>
      [] type = "SEGMENT" -> <<Key(kw, join, "", name, <<num>>)>>
      [] type = "REGION_2_REGION" ->
           <<Key(kw, join, "", "", decode_R1R2(num)), Key(kw, join, "", "", <<num>>)>>
      [] type = "BLOCK" -> <<Key(kw, join, "", "", ijk), Key(kw, join, "", "", <<num>>)>>
      [] type = "COMPLETION" ->
           <<Key(kw, join, "", name, ijk), Key(kw, join, "", name, <<num>>)>>
      [] type = "LOCAL_WELL" -> <<Key(kw, join, lgr, name, <<>>)>>
      [] type = "LOCAL_BLOCK" -> <<Key(kw, join, lgr, "", lgr_ijk)>>
      [] type = "LOCAL_COMPLETION" -> <<Key(kw, join, lgr, name, lgr_ijk)>>

NodeThrows == [status |-> "throws"]

Node(type, index, kw, name, num, ijk, lgr, lgr_ijk, unit, default, join) ==
    [status  |-> "ok", type |-> type, index |-> index, kw |-> kw, name |-> name, num |-> num,
     lgr     |-> lgr, lgr_ijk |-> lgr_ijk, unit |-> unit, default |-> default,
     rate    |-> identify_rate(kw, identify_var_type(kw)),
     total   |-> identify_total(kw, type),
     keys    |-> GenKeys(type, kw, name, num, ijk, lgr, lgr_ijk, join)]

set_wgname(type, wgname) ==
    IF type \in NamedTypes /\ wgname # DUMMY_WELL THEN wgname ELSE ""

(* The constructor of a variable without a local grid.                     *)
NodeOfType(type, index, kw, wgname, num, dims, unit, default, join) ==
    LET inGrid == type \in {"COMPLETION", "BLOCK"}
        n      == IF kw \in {"TIME", "YEARS"} THEN SMSPEC_TIME_NUMS ELSE num
    IN  IF \/ type \in LgrTypes \cup {"INVALID"}
           \/ inGrid /\ (\E d \in 1 .. 3 : dims[d] <= 0)
           \/ inGrid /\ ~(1 <= num /\ num <= dims[1] * dims[2] * dims[3])
        THEN NodeThrows
        ELSE Node(type, index, kw, set_wgname(type, wgname), n,
                  IF inGrid THEN Ijk(num, dims) ELSE <<>>, "", <<>>, unit, default, join)

NewNode(index, kw, wgname, num, dims, unit, default, join) ==
    NodeOfType(valid_type(kw, wgname, num), index, kw, wgname, num, dims, unit, default, join)

(* The constructor of a variable of a local grid.                          *)
LocalNodeOfType(type, index, kw, wgname, unit, lgr, lgr_ijk, default, join) ==
    IF type \notin LgrTypes \cup {"NETWORK"} THEN NodeThrows
    ELSE Node(type, index, kw, set_wgname(type, wgname), nums_unused, <<>>, lgr,
              IF type = "LOCAL_WELL" THEN <<0, 0, 0>> ELSE lgr_ijk, unit, default, join)

NewLocalNode(index, kw, wgname, unit, lgr, lgr_ijk, default, join) ==
    LocalNodeOfType(valid_type(kw, wgname, -1), index, kw, wgname, unit, lgr, lgr_ijk, default,
                    join)

CopyNode(node, index) == [node EXCEPT !.index = index]

need_nums(node) == node.type \in NumTypes \/ node.num # SMSPEC_NUMS_INVALID

-----------------------------------------------------------------------------
(* The order of variables.                                                 *)

EarlyVars == {"TIME", "DAYS", "DAY", "MONTH", "YEAR", "YEARS"}

TypeRank(node) == CHOOSE n \in DOMAIN VarTypes : VarTypes[n] = node.type
RankOf(name)   == IF name = "" THEN 0 ELSE Rank[name]

(* What cmp compares, the first that differs deciding.                     *)
SortFields(node) ==
    LET type == node.type
    IN  <<TypeRank(node), RankOf(node.kw)>> \o
       (CASE type = "FIELD" -> <<>>
          [] type \in {"WELL", "GROUP", "NETWORK"} -> <<RankOf(node.name)>>
          [] type \in {"BLOCK", "REGION", "REGION_2_REGION", "AQUIFER"} -> <<node.num>>
          [] type \in {"COMPLETION", "SEGMENT"} -> <<RankOf(node.name), node.num>>
          [] type = "LOCAL_BLOCK" -> <<RankOf(node.lgr)>> \o node.lgr_ijk
          [] type = "LOCAL_WELL" -> <<RankOf(node.name), RankOf(node.lgr)>>
          [] type = "LOCAL_COMPLETION" ->
               <<RankOf(node.name), RankOf(node.lgr)>> \o node.lgr_ijk)

MiscFields(node) == <<IF node.kw \in EarlyVars THEN 0 ELSE 1, RankOf(node.kw)>>

CompareFields(a, b) ==
    LET differ == {n \in DOMAIN a \cap DOMAIN b : a[n] # b[n]}
        first  == CHOOSE n \in differ : \A m \in differ : n <= m
    IN  IF differ = {} THEN 0 ELSE IF a[first] < b[first] THEN -1 ELSE 1

cmp(node1, node2) ==
    IF node1.type = "MISC" \/ node2.type = "MISC"
    THEN CompareFields(MiscFields(node1), MiscFields(node2))
    ELSE CompareFields(SortFields(node1), SortFields(node2))

-----------------------------------------------------------------------------
(* Summary._compile_headers_list: the arguments of add_variable for a key. *)

encode_R1R2(r1, r2) == (r2 + 10) * 32768 + r1

CellNumber(ijk, dims) ==
    ijk[1] - 1 + (ijk[2] - 1) * dims[1] + (ijk[3] - 1) * dims[1] * dims[2] + 1

HeaderOfType(type, key, dims) ==
    LET place == key.place
        Header(wgname, num, lgr, nums) ==
            [kw |-> key.kw, wgname |-> wgname, num |-> num, lgr |-> lgr, nums |-> nums]
    IN  CASE type \in {"FIELD", "MISC"} -> Header("", 0, "", <<>>)
          [] type \in {"REGION", "AQUIFER"} -> Header("", place[1], "", <<>>)
          [] type \in {"GROUP", "WELL", "NETWORK"} -> Header(key.name, 0, "", <<>>)
          [] type = "SEGMENT" -> Header(key.name, place[1], "", <<>>)
          [] type \in {"BLOCK", "COMPLETION"} ->
               IF Len(place) = 3 THEN Header(key.name, CellNumber(place, dims), "", place)
               ELSE Header(key.name, place[1], "", <<>>)
          [] type = "REGION_2_REGION" ->
               Header("", IF Len(place) = 2 THEN encode_R1R2(place[1], place[2]) ELSE place[1],
                      "", <<>>)
          [] type = "LOCAL_WELL" ->
               Header(key.name, CellNumber(<<0, 0, 0>>, dims), key.lgr, <<0, 0, 0>>)
          [] type \in {"LOCAL_BLOCK", "LOCAL_COMPLETION"} ->
               Header(key.name, CellNumber(place, dims), key.lgr, place)

compile_header(key, dims) == HeaderOfType(identify_var_type(key.kw), key, dims)
=============================================================================
