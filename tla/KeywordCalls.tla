---------------------------- MODULE KeywordCalls ----------------------------
(***************************************************************************)
(* A client of keywords: rd_kw.py over rd_kw.cpp, rd_kw_functions.cpp and  *)
(* rd_kw_grdecl.cpp.  Two keywords are resized, assigned to, sliced,       *)
(* combined, spread over a grid and mended, and written to and read from a *)
(* text file that holds other lines as well.                               *)
(***************************************************************************)
EXTENDS Grdecl

CONSTANTS
    Starts,         \* [kws, text, calls]: two keywords and a text file to start
                    \* with, and, as a bound, how many calls are made
    Names,          \* names that clients look for
    Values0,        \* numbers that clients assign
    Slices,         \* slices that clients take: [start, stop, step]
    Strings,        \* strings that clients assign: sequences of eight letters
    MaxSize,        \* bound: elements of a keyword
    MaxValue,       \* bound: absolute value of an element
    Nx, Ny          \* a layer of the grid; grids have keywords of Nx * Ny or
                    \* twice as many elements

VARIABLES
    kws,        \* the two keywords
    text, pos,  \* the text file and where its reader is
    written,    \* ghost: {[at, kw]}, where keywords were written
    left,       \* calls that are left to make
    last        \* the last call: [op, args, result]

vars == <<kws, text, pos, written, left, last>>

(* Results carry a tag first; a keyword is its own result.                 *)
Fine     == [is |-> "fine"]
None     == [is |-> "none"]
Raises   == [is |-> "raises"]
Hangs    == [is |-> "hangs"]
A(kw)    == [is |-> "keyword", kw |-> kw]

Done(op, args, result) ==
    /\ left' = left - 1
    /\ last' = [op |-> op, args |-> args, result |-> result]

(* The same of calls that no property looks back at.                       *)
Ends(result) == Done("other", <<>>, result)

Elsewhere == UNCHANGED <<text, pos, written>>
Becomes(s, kw) == kws' = [kws EXCEPT ![s] = kw]
Indices(kw) == 1 .. Size(kw)

-----------------------------------------------------------------------------
(* Elements.                                                               *)

resize(kw, n) ==
    [kw EXCEPT !.data = IF n <= Len(@) THEN SubSeq(@, 1, n)
                        ELSE @ \o Zeros(kw.type, n - Len(@))]

Resize(s, n) ==
    /\ Becomes(s, resize(kws[s], n))
    /\ Ends(Fine)
    /\ Elsewhere

SetName(s, name) ==
    /\ Becomes(s, set_header_name(kws[s], name))
    /\ Ends(Fine)
    /\ Elsewhere

(* rd_kw_iset_char_ptr: a string of more than eight letters goes on in the *)
(* next elements; past the last one it throws.                             *)
iset_char_ptr(data, i, string) ==
    [j \in DOMAIN data |-> IF j \in i .. i + Len(string) - 1
                           THEN Text(string[j - i + 1], TRUE) ELSE data[j]]

(* What one assignment leaves, and whether it raises.                      *)
Assigned(type, i, value, state) ==
    [data |-> IF type = "CHAR" THEN iset_char_ptr(state.data, i, value)
              ELSE [state.data EXCEPT ![i] = value],
     raises |-> type = "CHAR" /\ i + Len(value) - 1 > Len(state.data)]

AssignedAt(type, indices, value, data) ==
    FoldLeft(LAMBDA state, i : IF state.raises THEN state ELSE Assigned(type, i, value, state),
             [data |-> data, raises |-> FALSE], indices)

(* Python slices start:stop:step, once slice.indices has cut them to n     *)
(* elements.                                                               *)
SlicesOf(n) ==
    {slice \in Slices : slice.start <= n /\ slice.stop <= n
                           /\ (slice.step < 0 => slice.start < n /\ slice.stop < n)}
Steps(slice) ==
    IF slice.stop <= slice.start THEN 0
    ELSE (slice.stop - slice.start + slice.step - 1) \div slice.step

(* __setitem__ goes on while it is before stop: with a negative step it    *)
(* runs off the front, and round to the last element once.                 *)
SliceIndices(n, slice) ==
    IF slice.step > 0
    THEN [k \in 1 .. Steps(slice) |-> slice.start + (k - 1) * slice.step + 1]
    ELSE IF slice.stop <= slice.start THEN <<>>
    ELSE [k \in 1 .. slice.start + n + 1 |->
             IF k <= slice.start + 1 THEN slice.start - k + 2 ELSE n + slice.start - k + 2]

OutOfRange(slice) == slice.step < 0 /\ slice.stop > slice.start

SetSlice(s, slice, value) ==
    \E state \in {AssignedAt(kws[s].type, SliceIndices(Size(kws[s]), slice), value,
                             kws[s].data)} :
        /\ Becomes(s, [kws[s] EXCEPT !.data = state.data])
        /\ Ends(IF state.raises \/ OutOfRange(slice) THEN Raises ELSE Fine)
        /\ Elsewhere

(* slice_copy; a slice that holds nothing gives None.                      *)
GetSlice(s, slice) ==
    /\ Ends(CASE slice.stop <= slice.start -> None
              [] OutOfRange(slice) -> Raises
              [] OTHER -> A(Kw(kws[s].header, kws[s].type,
                               [k \in 1 .. Steps(slice) |->
                                   kws[s].data[slice.start + (k - 1) * slice.step + 1]])))
    /\ UNCHANGED kws /\ Elsewhere

(* The other keyword becomes a copy of this one, or of a part of it.       *)
Copy(s) ==
    /\ Becomes(3 - s, alloc_copy(kws[s]))
    /\ Ends(Fine)
    /\ Elsewhere

SubCopy(s, offset, count) ==
    LET kw == kws[s]
        n == IF count < 0 THEN Size(kw) - offset ELSE count
        fits == offset < Size(kw) /\ offset + n <= Size(kw)
    IN  /\ IF fits
           THEN Becomes(3 - s, Kw(kw.header, kw.type, SubSeq(kw.data, offset + 1, offset + n)))
           ELSE UNCHANGED kws
        /\ Ends(IF fits THEN Fine ELSE Raises)
        /\ Elsewhere

-----------------------------------------------------------------------------
(* Arithmetic.                                                             *)

assert_binary(a, b) == size_and_type_equal(a, b) /\ is_numeric(a.type)

Abs(x) == IF x < 0 THEN -x ELSE x
Divides(b, a) == b # 0 /\ a % Abs(b) = 0
Quotient(a, b) == IF b > 0 THEN (a \div b) ELSE (-a) \div (-b)

(* The root of an integer is rounded.                                      *)
Root(x) == CHOOSE r \in 0 .. MaxValue : r * r <= x + r /\ x <= r * r + r /\ (x = 0 => r = 0)
IsSquare(x) == \E r \in 0 .. MaxValue : x = r * r

Result(op, a, b) ==
    CASE op = "add" -> a + b
      [] op = "sub" -> a - b
      [] op = "mul" -> a * b
      [] op = "div" -> Quotient(a, b)
      [] op = "add_squared" -> a + b * b
      [] op = "copy" -> b
      [] OTHER -> a

Combined(op, a, b) ==
    [a EXCEPT !.data = [i \in DOMAIN @ |-> Result(op, @[i], b.data[i])]]
Capped(kw) == \A i \in Indices(kw) : Abs(kw.data[i]) <= MaxValue

(* a += b and the like, a.div(b), and a.assign(b), which does nothing to   *)
(* what is no number.  Quotients are whole here.                           *)
InPlace(op, s) ==
    LET a == kws[s]
        b == kws[3 - s]
        fits == assert_binary(a, b)
    IN  /\ fits /\ op = "div" => \A i \in Indices(a) : Divides(b.data[i], a.data[i])
        /\ fits => Capped(Combined(op, a, b))
        /\ Becomes(s, IF fits THEN Combined(op, a, b) ELSE a)
        /\ Ends(IF fits \/ (op = "copy" /\ ~is_numeric(a.type)) THEN Fine ELSE Raises)
        /\ Elsewhere

(* A scalar stands for a keyword that has it everywhere.                   *)
WithScalar(op, s, x) ==
    LET kw == kws[s]
        new == Combined(op, kw, [kw EXCEPT !.data = [i \in DOMAIN @ |-> x]])
        fits == is_numeric(kw.type)
    IN  /\ fits => Capped(new)
        /\ Becomes(s, IF fits THEN new ELSE kw)
        /\ Ends(IF fits \/ op = "copy" THEN Fine ELSE Raises)
        /\ Elsewhere

SquareRoot(s) ==
    /\ is_numeric(kws[s].type)
    /\ \A i \in Indices(kws[s]) : kws[s].data[i] >= 0
    /\ kws[s].type = "REAL" => \A i \in Indices(kws[s]) : IsSquare(kws[s].data[i])
    /\ Becomes(s, [kws[s] EXCEPT !.data = [i \in DOMAIN @ |-> Root(@[i])]])
    /\ Ends(Fine)
    /\ Elsewhere

Absolute(s) ==
    /\ is_numeric(kws[s].type)
    /\ Becomes(s, [kws[s] EXCEPT !.data = [i \in DOMAIN @ |-> Abs(@[i])]])
    /\ Ends(Fine)
    /\ Elsewhere

(* Zeros of the divisor are passed over.                                   *)
SafeDiv(s) ==
    LET a == kws[s]
        d == kws[3 - s]
        fits == Size(a) = Size(d) /\ a.type = "REAL" /\ d.type = "INTE"
        Over(i) == IF d.data[i] = 0 THEN a.data[i] ELSE Quotient(a.data[i], d.data[i])
    IN  /\ fits => \A i \in Indices(a) : d.data[i] # 0 => Divides(d.data[i], a.data[i])
        /\ Becomes(s, IF fits THEN [a EXCEPT !.data = [i \in DOMAIN @ |-> Over(i)]] ELSE a)
        /\ Ends(IF fits THEN Fine ELSE Raises)
        /\ Elsewhere

-----------------------------------------------------------------------------
(* Keywords of a grid.                                                     *)

(* rd_kw_alloc_global_copy, by a keyword that says which cells are active. *)
Place(spread, active) ==
    CASE spread.fails \/ ~active -> [spread EXCEPT !.data = Append(@, spread.zero)]
      [] ~spread.fails /\ active /\ spread.left = <<>> -> [spread EXCEPT !.fails = TRUE]
      [] OTHER -> [spread EXCEPT !.data = Append(@, Head(spread.left)), !.left = Tail(@)]
Spread(src, actnum) ==
    FoldLeft(LAMBDA spread, a : Place(spread, a # 0),
             [data |-> <<>>, left |-> src.data, zero |-> Zero(src.type), fails |-> FALSE],
             actnum.data)

global_copy(src, actnum) ==
    IF actnum.type # "INTE" THEN Raises
    ELSE LET spread == Spread(src, actnum)
         IN  IF spread.fails \/ spread.left # <<>> THEN Raises
             ELSE A(Kw(src.header, src.type, spread.data))

ScatterCopy(s) ==
    /\ Done("scatter_copy", <<s>>, global_copy(kws[s], kws[3 - s]))
    /\ UNCHANGED kws /\ Elsewhere

(* rd_kw_alloc_actnum                                                      *)
CreateActnum(s, limit) ==
    LET kw == kws[s]
        fits == kw.type = "REAL" /\ kw.header = "PORV"
    IN  /\ IF fits
           THEN Becomes(3 - s, Kw("ACTNUM", "INTE",
                                  [i \in Indices(kw) |-> IF kw.data[i] > limit THEN 1 ELSE 0]))
           ELSE UNCHANGED kws
        /\ Ends(IF fits THEN Fine ELSE Raises)
        /\ Elsewhere

(* The cells beside cell g, counted from 0, in its layer.                  *)
Beside(g) ==
    LET i == g % Nx
        j == (g \div Nx) % Ny
    IN  (IF i > 0 THEN {g - 1} ELSE {}) \cup (IF i < Nx - 1 THEN {g + 1} ELSE {})
            \cup (IF j > 0 THEN {g - Nx} ELSE {}) \cup (IF j < Ny - 1 THEN {g + Nx} ELSE {})

(* The regions of the active cells beside g.                               *)
RegionsBeside(data, actnum, g) ==
    {data[h + 1] : h \in {x \in Beside(g) : actnum[x + 1] = 1}} \ {0}

(* One pass over the open cells: a cell whose neighbours agree joins them  *)
(* at once; a cell that has none stays open.                               *)
Mend(actnum, state, g) ==
    LET regions == RegionsBeside(state.data, actnum, g)
    IN  CASE Cardinality(regions) = 1 ->
               [state EXCEPT !.data[g + 1] = CHOOSE r \in regions : TRUE, !.changed = TRUE]
          [] regions = {} -> [state EXCEPT !.open = Append(@, g)]
          [] OTHER -> state

Pass(data, actnum, open) ==
    FoldLeft(LAMBDA state, g : Mend(actnum, state, g),
             [data |-> data, open |-> <<>>, changed |-> FALSE], open)

(* Mutant: a pass is made once.                                            *)
OnePass(data, actnum, open) == Pass(data, actnum, open).data

RECURSIVE Passes(_, _, _)
AfterPass(pass, actnum) ==
    IF ~pass.changed \/ pass.open = <<>> THEN pass.data
    ELSE Passes(pass.data, actnum, pass.open)
Passes(data, actnum, open) == AfterPass(Pass(data, actnum, open), actnum)

OpenCells(data, actnum, k) ==
    SelectSeq([c \in 1 .. Nx * Ny |-> k * Nx * Ny + c - 1],
              LAMBDA g : data[g + 1] = 0 /\ actnum[g + 1] = 1)

(* Layers are mended one after the other.                                  *)
fix_uninitialized(data, actnum) ==
    FoldLeft(LAMBDA mended, k : Passes(mended, actnum, OpenCells(mended, actnum, k)),
             data, [k \in 1 .. Len(data) \div (Nx * Ny) |-> k - 1])

IsRegion(kw) ==
    /\ kw.type = "INTE" /\ Size(kw) \in {Nx * Ny, 2 * Nx * Ny}
    /\ \A i \in Indices(kw) : kw.data[i] >= 0

FixUninitialized(s, actnum) ==
    /\ IsRegion(kws[s]) /\ Len(actnum) = Size(kws[s])
    /\ Becomes(s, [kws[s] EXCEPT !.data = fix_uninitialized(@, actnum)])
    /\ Done("fix_uninitialized", <<s, actnum, kws[s].data>>, Fine)
    /\ Elsewhere

-----------------------------------------------------------------------------
(* The text file.                                                          *)

(* It is opened to append, and flushed.                                    *)
WriteGrdecl(s) ==
    /\ is_numeric(kws[s].type)
    /\ text' = text \o fprintf_grdecl(kws[s])
    /\ written' = written \cup {[at |-> Len(text), kw |-> kws[s]]}
    /\ Ends(Fine)
    /\ UNCHANGED <<kws, pos>>

(* Where a search leaves the reader: back where it was when it fails.      *)
LeftAt(name, rewind) ==
    LET at == grdecl_fseek_kw(text, name, rewind, pos)
    IN  IF at \in {Stuck, Len(text)} THEN pos ELSE at

SeekResult(at) == CASE at = Stuck -> Hangs [] at = Len(text) -> None [] OTHER -> Fine

SeekGrdecl(name, rewind) ==
    /\ pos' = LeftAt(name, rewind)
    /\ Done("fseek_grdecl", <<name, rewind, pos>>,
            SeekResult(grdecl_fseek_kw(text, name, rewind, pos)))
    /\ UNCHANGED <<kws, text, written>>

(* read_grdecl: the search begins where the reader is and then once more   *)
(* from the front; the data begin behind the name.                         *)
ReadGrdecl(s, name, type, strict) ==
    \E at \in {grdecl_fseek_kw(text, name, TRUE, pos)} :
    \E read \in {IF at \in {Stuck, Len(text)} THEN Read("none", pos, <<>>)
                 ELSE GrdeclData(text, WordEnd(text, at), type, strict, <<>>)} :
        /\ read.status = "ok" => Len(read.data) <= MaxSize
        /\ pos' = read.pos
        /\ IF read.status = "ok" THEN Becomes(s, Kw(name, type, read.data)) ELSE UNCHANGED kws
        /\ Done("read_grdecl", <<s, at, type>>,
                CASE at = Stuck -> Hangs [] read.status = "ok" -> Fine [] OTHER -> Raises)
        /\ UNCHANGED <<text, written>>

-----------------------------------------------------------------------------
Init ==
    /\ \E start \in Starts : kws = start.kws /\ text = start.text /\ left = start.calls
    /\ pos = 0 /\ written = {}
    /\ last = [op |-> "none", args |-> <<>>, result |-> None]

AssignableTo(kw) ==
    CASE kw.type = "CHAR" -> Strings [] is_numeric(kw.type) -> Values0 [] OTHER -> {}

(* A call that hangs is the last one.                                      *)
Next ==
    /\ left > 0 /\ last.result # Hangs
    /\ \/ \E s \in 1 .. 2 :
              \/ \E n \in 0 .. MaxSize : Resize(s, n)
              \/ \E name \in Names : SetName(s, name)
              \/ \E slice \in SlicesOf(Size(kws[s])) :
                     \/ GetSlice(s, slice)
                     \/ \E value \in AssignableTo(kws[s]) : SetSlice(s, slice, value)
              \/ Copy(s)
              \/ \E offset \in 0 .. MaxSize, count \in -1 .. MaxSize : SubCopy(s, offset, count)
              \/ \E op \in {"add", "sub", "mul", "div", "add_squared", "copy"} :
                     InPlace(op, s)
              \/ \E op \in {"add", "sub", "mul", "copy"}, x \in Values0 : WithScalar(op, s, x)
              \/ Absolute(s) \/ SquareRoot(s) \/ SafeDiv(s) \/ ScatterCopy(s)
              \/ \E limit \in Values0 : CreateActnum(s, limit)
              \/ \E actnum \in [Indices(kws[s]) -> 0 .. 1] : FixUninitialized(s, actnum)
              \/ WriteGrdecl(s)
              \/ \E name \in Names, type \in {"INTE", "REAL"}, strict \in BOOLEAN :
                     ReadGrdecl(s, name, type, strict)
       \/ \E name \in Names, rewind \in BOOLEAN : SeekGrdecl(name, rewind)

Spec == Init /\ [][Next]_vars

-----------------------------------------------------------------------------
(* Properties.                                                             *)

(* Cells of region r that a path of active cells of the region joins to    *)
(* one that had it before, as far as a layer goes.                         *)
Joined(old, new, actnum, r) ==
    LET now == {g \in 0 .. Len(new) - 1 : new[g + 1] = r /\ actnum[g + 1] = 1}
    IN  FoldSet(LAMBDA n, found : found \cup {g \in now : Beside(g) \cap found # {}},
                {g \in now : old[g + 1] = r}, DOMAIN new)

(* What rd_kw_fix_uninitialized does to a grid: only active cells without  *)
(* a region are changed; each of them that has one now is joined to a cell *)
(* that had it; and it goes on until no cell is left whose neighbours      *)
(* agree.                                                                  *)
FixSettles ==
    last.op = "fix_uninitialized" =>
        LET actnum == last.args[2]
            old == last.args[3]
            new == kws[last.args[1]].data
        IN  \A c \in DOMAIN new :
                IF old[c] # 0 \/ actnum[c] = 0 THEN new[c] = old[c]
                ELSE IF new[c] # 0 THEN c - 1 \in Joined(old, new, actnum, new[c])
                ELSE Cardinality(RegionsBeside(new, actnum, c - 1)) # 1

(* A keyword that read_grdecl finds where write_grdecl wrote one, and      *)
(* reads as the type it had, equals it, whatever was written around it and *)
(* wherever the reader was.                                                *)
TextComesBack ==
    last.op = "read_grdecl" =>
        \A w \in written :
            last.args[2] = w.at /\ last.args[3] = w.kw.type =>
                last.result = Fine /\ kw_equal(kws[last.args[1]], w.kw)

(* The words that begin a line and are a name.                             *)
BeginsLine(at) ==
    LET line == {q \in 1 .. at : text[q].k = "line"} \cup {0}
    IN  \A q \in Max(line) + 1 .. at : text[q].k = "blank"
Named(name) ==
    {at \in 0 .. Len(text) - 1 : text[at + 1] = [k |-> "name", v |-> name] /\ BeginsLine(at)}
=============================================================================
