------------------------------ MODULE Keyword ------------------------------
(***************************************************************************)
(* A keyword in memory, and the records and lines it has on file: the      *)
(* types of rd_type.cpp, the storage of rd_kw.cpp, and reading and writing *)
(* the content of one keyword at one place of a file.                      *)
(*                                                                         *)
(* A binary file is a sequence of words of four bytes, a formatted one a   *)
(* sequence of tokens; blanks between tokens are left out, ends of lines   *)
(* are not.                                                                *)
(***************************************************************************)
EXTENDS Integers, Sequences, SequencesExt, FiniteSets, FiniteSetsExt, TLC

CONSTANTS
    LongNames,      \* names of more than eight characters
    NumericBlock,   \* numbers in a record
    CharBlock,      \* strings in a record
    ColumnsOf       \* type -> elements in a line of a formatted file

Types == {"INTE", "REAL", "DOUB", "LOGI", "CHAR", "C012", "MESS"}

is_numeric(type) == type \in {"INTE", "REAL", "DOUB"}
is_string(type)  == type \in {"CHAR", "C012"}
is_alpha(type)   == is_string(type) \/ type = "MESS"

(* rd_type_get_sizeof_iotype, in words.                                    *)
sizeof_iotype(type) ==
    [INTE |-> 1, REAL |-> 1, LOGI |-> 1, DOUB |-> 2, CHAR |-> 2, C012 |-> 3, MESS |-> 0][type]

blocksize(type) == IF is_alpha(type) THEN CharBlock ELSE NumericBlock

(* Strings in memory end where they were told to: padded with blanks to    *)
(* their full length, or at their last letter.                             *)
Text(text, padded) == [text |-> text, padded |-> padded]
Zero(type) == CASE type = "LOGI" -> FALSE
                [] is_alpha(type) -> Text("", FALSE)
                [] OTHER -> 0

(* What a new header8 holds when the name is too long for it.              *)
Uninitialized == "?"

-----------------------------------------------------------------------------
(* Storage.                                                                *)

Kw(header, type, data) ==
    [header  |-> header,
     header8 |-> IF header \in LongNames THEN Uninitialized ELSE header,
     type |-> type, data |-> data]

Size(kw) == Len(kw.data)
Zeros(type, n) == [i \in 1 .. n |-> Zero(type)]

set_header_name(kw, name) ==
    IF name \in LongNames THEN [kw EXCEPT !.header = name]
    ELSE [kw EXCEPT !.header = name, !.header8 = name]

(* A copy is given the header, and header8 with it when that fits.         *)
alloc_copy(kw) == Kw(kw.header, kw.type, kw.data)

size_and_type_equal(a, b) == Size(a) = Size(b) /\ a.type = b.type
kw_equal(a, b) == a.header8 = b.header8 /\ size_and_type_equal(a, b) /\ a.data = b.data

-----------------------------------------------------------------------------
(* Binary files.                                                           *)

Mark(n) == [k |-> "mark", v |-> n, part |-> 1]
NoWord  == [k |-> "none", v |-> 0, part |-> 0]
IsMark(word, n) == word.k = "mark" /\ word.v = n
WordAt(file, pos) == IF pos < Len(file) THEN file[pos + 1] ELSE NoWord

HeaderWords == 6        \* RD_KW_HEADER_FORTIO_SIZE

DiskForm(type, x) == CASE type = "LOGI" -> IF x THEN -1 ELSE 0
                       [] is_string(type) -> x.text
                       [] OTHER -> x
MemoryForm(type, v) == CASE type = "LOGI" -> v = -1
                         [] is_alpha(type) -> Text(v, TRUE)
                         [] OTHER -> v

Record(words) == <<Mark(Len(words))>> \o words \o <<Mark(Len(words))>>

ElementWords(type, x) ==
    [p \in 1 .. sizeof_iotype(type) |-> [k |-> "data", v |-> DiskForm(type, x), part |-> p]]

num_blocks(type, n) == (n \div blocksize(type)) + (IF n % blocksize(type) = 0 THEN 0 ELSE 1)

(* The elements of a block, counted from 0.                                *)
Block(type, data, b) ==
    SubSeq(data, b * blocksize(type) + 1, Min({(b + 1) * blocksize(type), Len(data)}))

HeaderRecord(kw) ==
    Record([p \in 1 .. 4 |-> [k |-> "head", v |-> <<kw.header8, kw.type, Size(kw)>>, part |-> p]])

fwrite_unformatted(kw) ==
    HeaderRecord(kw)
        \o FlattenSeq([b \in 1 .. num_blocks(kw.type, Size(kw)) |->
               LET block == Block(kw.type, kw.data, b - 1)
               IN  Record(FlattenSeq([i \in DOMAIN block |-> ElementWords(kw.type, block[i])]))])

(* How a read of a header ended, and where.                                *)
NoHeader(status, pos) == [status |-> status, pos |-> pos, header |-> <<>>]

(* Sixteen bytes are read whatever the mark says; a type that is none is   *)
(* refused by an exception.                                                *)
fread_header_unformatted(file, pos) ==
    LET mark == WordAt(file, pos)
        word == WordAt(file, pos + 4)
    IN  IF mark.k # "mark" \/ mark.v <= 0 THEN NoHeader("fail", Min({pos + 1, Len(file)}))
        ELSE IF pos + 6 > Len(file) THEN NoHeader("fail", Len(file))
        ELSE IF ~IsMark(WordAt(file, pos + 5), mark.v) THEN NoHeader("fail", pos + 6)
        ELSE IF word.k # "head" THEN NoHeader("throw", pos + 6)
        ELSE [status |-> "ok", pos |-> pos + 6, header |-> word.v]

(* fread_buffer: records until n words are read, and one record at least.  *)
RECURSIVE fread_buffer(_, _, _, _)
fread_buffer(file, pos, n, words) ==
    LET mark == WordAt(file, pos)
        size == mark.v
        more == words \o SubSeq(file, pos + 2, pos + 1 + size)
        Failed(at) == [ok |-> FALSE, pos |-> at, words |-> <<>>]
    IN  IF mark.k # "mark" THEN Failed(Min({pos + 1, Max({pos, Len(file)})}))
        ELSE IF size > n - Len(words) THEN Failed(pos + 1)
        ELSE IF pos + 2 + size > Len(file) THEN Failed(Len(file))
        ELSE IF ~IsMark(WordAt(file, pos + 1 + size), size) THEN Failed(pos + 2 + size)
        ELSE IF Len(more) < n THEN fread_buffer(file, pos + 2 + size, n, more)
        ELSE [ok |-> TRUE, pos |-> pos + 2 + size, words |-> more]

Elements(type, n, words) ==
    LET w == sizeof_iotype(type)
    IN  [i \in 1 .. n |-> IF w = 0 THEN Zero(type)
                          ELSE MemoryForm(type, words[(i - 1) * w + 1].v)]

DataOf(type, n, read) ==
    [status |-> IF read.ok THEN "ok" ELSE "fail", pos |-> read.pos,
     data |-> IF read.ok THEN Elements(type, n, read.words) ELSE <<>>]
fread_data_unformatted(file, pos, type, n) ==
    DataOf(type, n, fread_buffer(file, pos, n * sizeof_iotype(type), <<>>))

-----------------------------------------------------------------------------
(* Formatted files.                                                        *)

NewLine == [k |-> "line", v |-> 0]
Quoted(v) == [k |-> "quoted", v |-> v]
Number(v) == [k |-> "number", v |-> v]
Letter(v) == [k |-> "letter", v |-> v]

Token(type, x) == CASE type = "LOGI" -> Letter(IF x THEN "T" ELSE "F")
                    [] is_string(type) -> Quoted(x.text)
                    [] OTHER -> Number(x)

(* A block begins a line of its own.                                       *)
BlockLines(type, block) ==
    LET columns == ColumnsOf[type]
        Line(l) == SubSeq(block, (l - 1) * columns + 1, Min({l * columns, Len(block)}))
        lines == (Len(block) \div columns) + (IF Len(block) % columns = 0 THEN 0 ELSE 1)
    IN  FlattenSeq([l \in 1 .. lines |->
            [c \in DOMAIN Line(l) |-> Token(type, Line(l)[c])] \o <<NewLine>>])

DataLines(kw) ==
    FlattenSeq([b \in 1 .. num_blocks(kw.type, Size(kw)) |->
                   BlockLines(kw.type, Block(kw.type, kw.data, b - 1))])

(* Elements of messages make the write throw, after its header.            *)
fwrite_formatted(kw) ==
    <<Quoted(kw.header8), Number(Size(kw)), Quoted(kw.type), NewLine>>
        \o (IF kw.type = "MESS" THEN <<>> ELSE DataLines(kw))

(* The next token of these kinds, or the end of the file.                  *)
NextOf(file, pos, kinds) ==
    LET at == {q \in pos .. Len(file) - 1 : file[q + 1].k \in kinds}
    IN  IF at = {} THEN Len(file) ELSE Min(at)

(* rd_kw_fscanf_qstring skips to the next quote whatever is before it.     *)
Skipped(file, pos, type) ==
    NextOf(file, pos, IF is_alpha(type) THEN {"quoted"} ELSE {"quoted", "number", "letter"})

HeaderOfTokens(file, name, size, type) ==
    IF name >= Len(file) THEN NoHeader("fail", Len(file))
    ELSE IF size >= Len(file) \/ file[size + 1].k # "number" THEN NoHeader("fail", size)
    ELSE IF type >= Len(file) THEN NoHeader("fail", Len(file))
    ELSE IF file[type + 1].v \notin Types THEN NoHeader("throw", type + 1)
    ELSE [status |-> "ok", pos |-> Min({type + 2, Len(file)}),
          header |-> <<file[name + 1].v, file[type + 1].v, file[size + 1].v>>]

(* The name, the size and the type, each where the one before it ended.    *)
SizeAndType(file, name, size) ==
    HeaderOfTokens(file, name, size, Skipped(file, size + 1, "CHAR"))
NameAndMore(file, name) == SizeAndType(file, name, Skipped(file, name + 1, "INTE"))
fread_header_formatted(file, pos) == NameAndMore(file, Skipped(file, pos, "CHAR"))

KindOf(type) == IF is_alpha(type) THEN "quoted" ELSE IF type = "LOGI" THEN "letter" ELSE "number"
ValueOf(type, v) == IF type = "LOGI" THEN v = "T" ELSE IF is_alpha(type) THEN Text(v, TRUE) ELSE v

(* An element, at a token; at the end of the file a string stays as it was *)
(* allocated, other elements make the read throw.                          *)
ReadElement(file, type, read, at) ==
    IF read.status # "ok" THEN read
    ELSE IF at < Len(file) /\ file[at + 1].k = KindOf(type)
         THEN [read EXCEPT !.pos = at + 1, !.data = Append(@, ValueOf(type, file[at + 1].v))]
    ELSE IF is_alpha(type) THEN [read EXCEPT !.pos = at, !.data = Append(@, Zero(type))]
    ELSE [read EXCEPT !.status = "throw", !.pos = at]

(* The position is left before the newline that ends the last line.        *)
fread_data_formatted(file, pos, type, n) ==
    FoldLeftDomain(LAMBDA read, i :
                       ReadElement(file, type, read, Skipped(file, read.pos, type)),
                   [status |-> "ok", pos |-> pos, data |-> <<>>], Zeros(type, n))
=============================================================================
