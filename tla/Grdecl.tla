------------------------------- MODULE Grdecl -------------------------------
(***************************************************************************)
(* The text files of rd_kw_grdecl.cpp: keywords without a size or a type,  *)
(* data up to a slash, and comments.  A file is a sequence of cells: a     *)
(* blank, the end of a line, a word of one letter, or the head and the     *)
(* tail of a longer one.                                                   *)
(***************************************************************************)
EXTENDS Keyword

Blank == [k |-> "blank", v |-> 0]
Tail2 == [k |-> "tail", v |-> 0]
Short(k, v) == <<[k |-> k, v |-> v]>>
Long(k, v)  == <<[k |-> k, v |-> v], Tail2>>

Slash   == Short("slash", 0)
Comment == Long("comment", 0)

Spaces == {"blank", "line"}
Heads  == {"name", "int", "real", "repeat", "glued", "slash", "comment", "commented"}

(* fscanf with %s: the word at or after pos, and where it ends.            *)
NextWord(text, pos) == NextOf(text, pos, Heads)
WordEnd(text, at) ==
    IF at + 1 < Len(text) /\ text[at + 2].k = "tail" THEN at + 2 ELSE at + 1

(* util_fskip_lines, one line.                                             *)
SkipLine(text, pos) == Min({NextOf(text, pos, {"line"}) + 1, Len(text)})

-----------------------------------------------------------------------------
(* Searching.                                                              *)

(* A search that never returns.                                            *)
Stuck == -1

(* How rd_kw_grdecl_fseek_next_kw finds out whether a line starts at start:*)
(* it steps back two cells for each blank it sees; before the first cell   *)
(* of the file it does not get on.                                         *)
RECURSIVE LineStart(_, _, _)
LineStart(text, start, pos) ==
    CASE pos = 0 -> 0
      [] pos > 0 /\ text[pos].k = "line" -> start
      [] pos > 0 /\ text[pos].k \notin Spaces -> SkipLine(text, pos)
      [] pos = 1 /\ text[pos].k = "blank" -> Stuck
      [] OTHER -> LineStart(text, start, pos - 2)

(* The next word that starts no comment; Len(text) when there is none.     *)
RECURSIVE NextUncommented(_, _)
NextUncommented(text, pos) ==
    LET at == NextWord(text, pos)
    IN  IF at < Len(text) /\ text[at + 1].k \in {"comment", "commented"}
        THEN NextUncommented(text, SkipLine(text, WordEnd(text, at)))
        ELSE at

(* rd_kw_grdecl_fseek_kw__: where the keyword is, or Len(text), or Stuck.  *)
RECURSIVE SeekName(_, _, _)
SeekAfter(text, name, at) ==
    IF at = Len(text) \/ text[at + 1] = [k |-> "name", v |-> name] THEN at
    ELSE SeekName(text, name, WordEnd(text, at))
SeekFromLine(text, name, line) ==
    IF line = Stuck THEN Stuck ELSE SeekAfter(text, name, NextUncommented(text, line))
SeekName(text, name, pos) == SeekFromLine(text, name, LineStart(text, pos, pos))

grdecl_fseek_kw(text, name, rewind, pos) ==
    LET ahead == SeekName(text, name, pos)
    IN  IF ahead = Len(text) /\ rewind THEN SeekName(text, name, 0) ELSE ahead

-----------------------------------------------------------------------------
(* Reading.                                                                *)

(* scan_data: what a word gives, as often as it says; words that begin     *)
(* with no number give nothing.  Of a number with a fraction an integer    *)
(* read takes what is before the point, and all that are written by this   *)
(* library begin with 0.  A slash behind a number is not seen.             *)
Values(cell, type) ==
    CASE cell.k = "repeat" -> [i \in 1 .. cell.v[1] |-> cell.v[2]]
      [] cell.k \in {"int", "glued"} -> <<cell.v>>
      [] cell.k = "real" -> <<IF type = "INTE" THEN 0 ELSE cell.v>>
      [] OTHER -> <<>>

Read(status, pos, data) == [status |-> status, pos |-> pos, data |-> data]

(* fscanf_grdecl_data                                                      *)
RECURSIVE GrdeclData(_, _, _, _, _)
WordRead(text, at, type, strict, data, values) ==
    IF values = <<>> /\ strict THEN Read("throw", WordEnd(text, at), <<>>)
    ELSE GrdeclData(text, WordEnd(text, at), type, strict, data \o values)
GrdeclWord(text, at, type, strict, data) ==
    CASE at = Len(text) -> Read("ok", at, data)
      [] at < Len(text) /\ text[at + 1].k = "comment" ->
             GrdeclData(text, SkipLine(text, WordEnd(text, at)), type, strict, data)
      [] at < Len(text) /\ text[at + 1].k = "slash" -> Read("ok", at + 1, data)
      [] OTHER -> WordRead(text, at, type, strict, data, Values(text[at + 1], type))
GrdeclData(text, pos, type, strict, data) ==
    GrdeclWord(text, NextWord(text, pos), type, strict, data)

-----------------------------------------------------------------------------
(* Writing: numbers are right-aligned, so that lines begin with blanks.    *)

NumberWord(type, x) == Long(IF type = "INTE" THEN "int" ELSE "real", x)
NumberLine(type, line) ==
    FlattenSeq([c \in DOMAIN line |-> <<Blank>> \o NumberWord(type, line[c])]) \o <<NewLine>>

(* Mutant: a last line that is not full is left out.                       *)
FullLines(kw) ==
    FlattenSeq([l \in 1 .. Len(kw.data) \div ColumnsOf[kw.type] |->
        NumberLine(kw.type, SubSeq(kw.data, (l - 1) * ColumnsOf[kw.type] + 1,
                                   l * ColumnsOf[kw.type]))])

NumberLines(kw) ==
    FlattenSeq([l \in 1 .. Len(kw.data) |->
        IF l % ColumnsOf[kw.type] = 1 \/ ColumnsOf[kw.type] = 1
        THEN NumberLine(kw.type, SubSeq(kw.data, l, Min({l + ColumnsOf[kw.type] - 1, Size(kw)})))
        ELSE <<>>])

(* rd_kw_fprintf_grdecl, of numbers that fit in one block.                 *)
fprintf_grdecl(kw) ==
    Long("name", kw.header) \o <<NewLine>> \o NumberLines(kw) \o Slash \o <<NewLine>>
=============================================================================
