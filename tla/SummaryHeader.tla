--------------------------- MODULE SummaryHeader ---------------------------
(***************************************************************************)
(* rd_smspec.cpp: the header of a summary case.  It owns the variables,    *)
(* maps keys to variables and variables to the columns of PARAMS, and is   *)
(* written to and read from the arrays of an SMSPEC file.                  *)
(*                                                                         *)
(* Variables are numbered from 1 in nodes; an index into PARAMS counts     *)
(* from 0 as in the code.                                                  *)
(***************************************************************************)
EXTENDS SummaryNode, TLC

PARAMS_GLOBAL_DEFAULT == -99
NoCase     == ""
NoHeader   == [status |-> "null"]      \* the function returns nullptr
BadHeader  == [status |-> "throws"]
TimeUnits  == [DAYS |-> 24, HOURS |-> 1]

(* rd_smspec_alloc_empty                                                   *)
EmptyHeader(join) ==
    [status |-> "ok", nodes |-> <<>>, gen_var_index |-> <<>>, var_index |-> <<>>,
     index_map |-> <<>>, inv_index_map |-> <<>>, params_size |-> -1, params_default |-> <<>>,
     need_nums |-> FALSE, num_regions |-> 0, join |-> join, dims |-> <<0, 0, 0>>,
     time_index |-> -1, time_unit |-> 0, date_index |-> <<>>, sim_start |-> -1,
     restart_case |-> NoCase, restart_step |-> -1]

-----------------------------------------------------------------------------
(* Inserting a variable.                                                   *)

(* install_gen_keys: the last variable with a key gets it.                 *)
install_gen_keys(gen_var_index, keys, n) == [k \in ToSet(keys) |-> n] @@ gen_var_index

(* install_special_keys: where a variable is found by its kind.            *)
SpecialKeys(node) ==
    CASE node.type \in {"FIELD", "MISC"} -> {<<node.type, node.kw>>}
      [] node.type \in {"WELL", "GROUP"} -> {<<node.type, node.name, node.kw>>}
      [] node.type \in {"REGION", "BLOCK"} -> {<<node.type, node.num, node.kw>>}
      [] node.type = "COMPLETION" -> {<<node.type, node.name, node.num, node.kw>>}
      [] OTHER -> {}

Resized(values, size, fill) ==
    [n \in 1 .. size |-> IF n \in DOMAIN values THEN values[n] ELSE fill]

Larger(a, b) == IF a > b THEN a ELSE b

insert_node(header, node) ==
    LET n    == Len(header.nodes) + 1
        size == IF node.index > header.params_size THEN node.index + 1 ELSE header.params_size
    IN  [header EXCEPT
           !.nodes          = Append(@, node),
           !.index_map      = Append(@, node.index),
           !.inv_index_map  = @ @@ (node.index :> n),
           !.params_default = [Resized(@, node.index + 1, PARAMS_GLOBAL_DEFAULT)
                                 EXCEPT ![node.index + 1] = node.default],
           !.gen_var_index  = install_gen_keys(@, node.keys, n),
           !.var_index      = [k \in SpecialKeys(node) |-> n] @@ @,
           !.num_regions    = IF node.type = "REGION" THEN Larger(@, node.num) ELSE @,
           !.need_nums      = @ \/ need_nums(node),
           !.params_size    = Larger(n, size)]

(* rd_smspec_add_node: a variable that cannot be made throws and changes   *)
(* nothing.                                                                *)
CanAdd(node) == node.status = "ok"

alloc_writer(join, restart_case, restart_step, sim_start, time_in_days, dims) ==
    LET unit   == IF time_in_days THEN "DAYS" ELSE "HOURS"
        empty  == [EmptyHeader(join) EXCEPT
                     !.dims         = dims,
                     !.sim_start    = sim_start,
                     !.restart_case = restart_case,
                     !.restart_step = IF restart_case = NoCase THEN @ ELSE restart_step,
                     !.time_unit    = TimeUnits[unit],
                     !.time_index   = 0]
    IN  insert_node(empty, NewNode(0, "TIME", "", nums_unused, dims, unit, 0, join))

-----------------------------------------------------------------------------
(* Looking a variable up.                                                  *)

has_general_var(header, key) == key \in DOMAIN header.gen_var_index
general_var_node(header, key) == header.nodes[header.gen_var_index[key]]
NodeOfIndex(header, index) == header.nodes[header.inv_index_map[index]]
HasVar(header, special) == special \in DOMAIN header.var_index

(* select_matching_general_var_list with no pattern.                       *)
KeyList(header) == {k \in DOMAIN header.gen_var_index : k.kw # "TIME"}

(* Mutant: the column of the header itself is taken.                       *)
MappingToSelf(self, other) ==
    [i \in 0 .. self.params_size - 1 |->
        IF \E n \in DOMAIN self.nodes :
               self.nodes[n].index = i /\ has_general_var(other, Head(self.nodes[n].keys))
        THEN i ELSE -1]

(* alloc_mapping: the column of another header with the same key, or -1.   *)
(* A variable without a key cannot be looked up (MappingThrows).           *)
alloc_mapping(self, other) ==
    [i \in 0 .. self.params_size - 1 |->
        LET at == {n \in DOMAIN self.nodes :
                      /\ self.nodes[n].index = i
                      /\ has_general_var(other, Head(self.nodes[n].keys))}
        IN  IF at = {} THEN -1
            ELSE general_var_node(other, Head(self.nodes[CHOOSE n \in at : TRUE].keys)).index]

MappingThrows(self) == \E n \in DOMAIN self.nodes : self.nodes[n].keys = <<>>

smspec_equal(self, other) ==
    /\ Len(self.nodes) = Len(other.nodes)
    /\ \A n \in DOMAIN self.nodes : cmp(self.nodes[n], other.nodes[n]) = 0

-----------------------------------------------------------------------------
(* The SMSPEC file: its columns and what stands beside them.               *)

Column(kw, wgname, num, unit) ==
    [kw |-> kw, wgname |-> wgname, num |-> num, unit |-> unit, lgr |-> "", lgr_ijk |-> <<>>]

(* Mutant: names are written of wells only.                                *)
ColumnOfWell(node) ==
    Column(node.kw, IF node.type = "WELL" THEN node.name ELSE DUMMY_WELL, node.num, node.unit)

ColumnOf(node) ==
    Column(node.kw, IF node.name = "" THEN DUMMY_WELL ELSE node.name, node.num, node.unit)

fortio_fwrite(header) ==
    [columns      |-> [n \in DOMAIN header.nodes |-> ColumnOf(header.nodes[n])],
     has_nums     |-> header.need_nums,
     has_lgrs     |-> FALSE,
     restart_case |-> header.restart_case,
     restart_step |-> header.restart_step,
     dims         |-> header.dims,
     start        |-> header.sim_start]

(* The variable of a column: none for a column that is not to be read.     *)
NumIn(file, n) == IF file.has_nums THEN file.columns[n].num ELSE SMSPEC_NUMS_INVALID

TypeIn(file, n) == valid_type(file.columns[n].kw, file.columns[n].wgname, NumIn(file, n))

NodeIn(file, n, join) ==
    LET c == file.columns[n]
    IN  IF TypeIn(file, n) \in LgrTypes
        THEN IF file.has_lgrs
             THEN NewLocalNode(n - 1, c.kw, c.wgname, c.unit, c.lgr, c.lgr_ijk,
                               PARAMS_GLOBAL_DEFAULT, join)
             ELSE NodeThrows
        ELSE NewNode(n - 1, c.kw, c.wgname, NumIn(file, n), file.dims, c.unit,
                     PARAMS_GLOBAL_DEFAULT, join)

ReadColumns(file) ==
    SelectSeq([n \in DOMAIN file.columns |-> n], LAMBDA n : TypeIn(file, n) # "INVALID")

(* load_restart: a case that is not there, and the case itself, are left   *)
(* out.                                                                    *)
load_restart(file, self, cases) ==
    IF file.restart_case \in cases \ {self} THEN file.restart_case ELSE NoCase

(* fread_alloc: the last columns of times, in a unit that is known, and of *)
(* dates, which have three; there is one or the other.                     *)
Timed(header) ==
    LET Has(kw) == HasVar(header, <<"MISC", kw>>)
        MiscNode(kw) == header.nodes[header.var_index[<<"MISC", kw>>]]
        time  == MiscNode("TIME")
        timed == IF Has("TIME")
                    THEN [header EXCEPT !.time_index = time.index,
                                        !.time_unit = TimeUnits[time.unit]]
                    ELSE header
        date  == IF \A kw \in {"DAY", "MONTH", "YEAR"} : Has(kw)
                    THEN <<MiscNode("DAY").index, MiscNode("MONTH").index, MiscNode("YEAR").index>>
                    ELSE <<>>
    IN  IF Has("TIME") /\ time.unit \notin DOMAIN TimeUnits THEN BadHeader
        ELSE IF timed.time_index = -1 /\ date = <<>> THEN BadHeader
        ELSE [timed EXCEPT !.date_index = date]

fread_alloc(file, join, include_restart, self, cases) ==
    LET Insert(header, n) == insert_node(header, NodeIn(file, n, join))
        empty  == [EmptyHeader(join) EXCEPT
                     !.params_size  = Len(file.columns),
                     !.dims         = file.dims,
                     !.sim_start    = file.start,
                     !.restart_step = file.restart_step,
                     !.restart_case = IF include_restart THEN load_restart(file, self, cases)
                                      ELSE NoCase]
    IN  IF \E n \in ToSet(ReadColumns(file)) : NodeIn(file, n, join) = NodeThrows
        THEN BadHeader ELSE Timed(FoldLeft(Insert, empty, ReadColumns(file)))
=============================================================================
