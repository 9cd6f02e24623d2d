---------------------------- MODULE KeywordFile ----------------------------
(***************************************************************************)
(* FortIO.cpp and the file part of rd_kw.cpp: a stream is opened on a      *)
(* file, keywords are written to it, searched for, skipped and read, whole *)
(* or element by element, and the file may lose its tail meanwhile.        *)
(*                                                                         *)
(* Positions are words of a binary file and tokens of a formatted one.     *)
(***************************************************************************)
EXTENDS Keyword

CONSTANTS
    Keywords,       \* keywords that clients write
    MaxKeywords,    \* bound: keywords in the file
    MaxCuts         \* bound: times the file loses its tail

VARIABLES
    disk,       \* the file: [exists, fmt, file]
    io,         \* the stream: [mode, open, linked, pos, read_size, lost]
    content,    \* ghost: {[at, end, kw]}, what was written and is whole
    halves,     \* ghost: the same of keywords whose tail is gone
    cuts,       \* how often the file lost its tail
    last        \* the read or search made last: [op, at, arg, result]

vars == <<disk, io, content, halves, cuts, last>>

Closed == [mode |-> "closed", open |-> FALSE, linked |-> FALSE, pos |-> 0, read_size |-> 0,
           lost |-> FALSE]
Null   == [is |-> "null"]
Throws == [is |-> "throws"]
Found  == [is |-> "found"]

NoCall == [op |-> "none", at |-> 0, arg |-> "", result |-> Null]
Call(op, arg, result) == last' = [op |-> op, at |-> io.pos, arg |-> arg, result |-> result]
Quietly == last' = NoCall

Readable == io.open /\ io.linked /\ io.mode \in {"r", "r+"}
Writable == io.open /\ io.mode \in {"w", "r+", "a"}
FileSize == Len(disk.file)

(* FortIO::fseek: where it leaves a stream that was at from.  A stream for *)
(* reading only refuses to leave the size that the file had when opened.   *)
fseek(from, to) == IF io.mode = "r" /\ to > io.read_size THEN from ELSE to

(* The stream at a position; one that failed is lost until it is told      *)
(* where to go.                                                            *)
StreamAt(pos, lost) == [io EXCEPT !.pos = IF lost THEN 0 ELSE pos, !.lost = lost]

-----------------------------------------------------------------------------
(* The stream.                                                             *)

(* Opening for writing only empties the file; "a" and "w" create it.       *)
Open(mode, fmt) ==
    /\ io.mode = "closed"
    /\ mode \in {"r", "r+"} => disk.exists
    /\ disk.exists /\ mode # "w" => fmt = disk.fmt
    /\ LET file == IF disk.exists /\ mode # "w" THEN disk.file ELSE <<>>
       IN  /\ disk' = [exists |-> TRUE, fmt |-> fmt, file |-> file]
           /\ io' = [mode |-> mode, open |-> TRUE, linked |-> TRUE,
                     pos |-> IF mode = "a" THEN Len(file) ELSE 0, read_size |-> Len(file),
                     lost |-> FALSE]
           /\ IF file = <<>> THEN content' = {} /\ halves' = {} ELSE UNCHANGED <<content, halves>>
    /\ Quietly
    /\ UNCHANGED cuts

Close ==
    /\ io.mode # "closed"
    /\ io' = Closed
    /\ Quietly
    /\ UNCHANGED <<disk, content, halves, cuts>>

fclose_stream ==
    /\ io.open
    /\ io' = [io EXCEPT !.open = FALSE]
    /\ Quietly
    /\ UNCHANGED <<disk, content, halves, cuts>>

(* The file is opened again as it was: for writing, it is emptied again;   *)
(* the size for reading stays what it was.                                 *)
fopen_stream ==
    /\ io.mode # "closed" /\ ~io.open
    /\ LET file == IF disk.exists /\ io.mode # "w" THEN disk.file ELSE <<>>
           opens == disk.exists \/ io.mode \in {"w", "a"}
       IN  /\ IF opens
              THEN /\ disk' = [disk EXCEPT !.exists = TRUE, !.file = file]
                   /\ io' = [io EXCEPT !.open = TRUE, !.linked = TRUE, !.lost = FALSE,
                                       !.pos = IF io.mode = "a" THEN Len(file) ELSE 0]
                   /\ IF file = <<>> THEN content' = {} /\ halves' = {}
                      ELSE UNCHANGED <<content, halves>>
              ELSE UNCHANGED <<disk, io, content, halves>>
           /\ Quietly
    /\ UNCHANGED cuts

(* Clients go to where a keyword starts, or to the end.                    *)
SeekTo(to) ==
    /\ Readable \/ (Writable /\ io.linked /\ io.mode = "r+")
    /\ to \in {c.at : c \in content \cup halves} \cup {0, FileSize}
    /\ io' = [io EXCEPT !.pos = fseek(io.pos, to), !.lost = io.lost /\ fseek(io.pos, to) # to]
    /\ Quietly
    /\ UNCHANGED <<disk, content, halves, cuts>>

ftruncate(size) ==
    /\ Writable /\ io.linked /\ io.mode # "a"
    /\ size \in {c.at : c \in content \cup halves} \cup {FileSize}
    /\ disk' = [disk EXCEPT !.file = SubSeq(@, 1, size)]
    /\ io' = [io EXCEPT !.pos = size, !.lost = FALSE]
    /\ content' = {c \in content : c.end <= size}
    /\ halves' = {c \in halves : c.at < size}
    /\ Quietly
    /\ UNCHANGED cuts

(* Whoever wrote the file was stopped, or the disk was full.               *)
LoseTail(size) ==
    /\ cuts < MaxCuts /\ size < FileSize /\ ~Writable
    /\ disk' = [disk EXCEPT !.file = SubSeq(@, 1, size)]
    /\ content' = {c \in content : c.end <= size}
    /\ halves' = {c \in content \cup halves : c.at < size /\ size < c.end}
    /\ io' = StreamAt(io.pos, io.lost \/ io.pos > size)
    /\ cuts' = cuts + 1
    /\ Quietly

RECURSIVE IsFortran(_, _, _)
IsFortran(file, pos, found) ==
    LET mark == WordAt(file, pos)
        tail == WordAt(file, pos + 1 + mark.v)
    IN  IF mark.k # "mark" \/ tail.k = "none" THEN found
        ELSE IF ~IsMark(tail, mark.v) THEN FALSE
        ELSE IsFortran(file, pos + 2 + mark.v, found \/ mark.v # 0)

looks_like_fortran_file ==
    /\ disk.exists
    /\ last' = [NoCall EXCEPT !.op = "looks_like_fortran",
                              !.arg = ~disk.fmt /\ IsFortran(disk.file, 0, FALSE)]
    /\ UNCHANGED <<disk, io, content, halves, cuts>>

-----------------------------------------------------------------------------
(* Writing keywords.                                                       *)

FileForm(kw) == IF disk.fmt THEN fwrite_formatted(kw) ELSE fwrite_unformatted(kw)

Over(file, pos, words) ==
    SubSeq(file, 1, pos) \o words \o SubSeq(file, pos + Len(words) + 1, Len(file))

(* Keywords are written at the end, or over one of the same extent.        *)
fwrite(kw) ==
    /\ Writable /\ io.linked /\ ~io.lost
    /\ kw.header \notin LongNames
    /\ disk.fmt /\ kw.type = "MESS" => Size(kw) = 0
    /\ LET words == FileForm(kw)
           pos == IF io.mode = "a" THEN FileSize ELSE io.pos
           end == pos + Len(words)
           beside == {c \in content : c.end <= pos \/ c.at >= end}
       IN  /\ \/ pos = FileSize /\ Cardinality(content \cup halves) < MaxKeywords
              \/ \E c \in content : c.at = pos /\ c.end = end
           /\ disk' = [disk EXCEPT !.file = Over(@, pos, words)]
           /\ io' = [io EXCEPT !.pos = end]
           /\ content' = beside \cup {[at |-> pos, end |-> end, kw |-> kw]}
    /\ Quietly
    /\ UNCHANGED <<halves, cuts>>

(* A name that does not fit unlinks the file; what is written to the       *)
(* stream after that goes nowhere.                                         *)
fwrite_error(kw) ==
    /\ Writable /\ io.linked
    /\ kw.header \in LongNames
    /\ disk' = [disk EXCEPT !.exists = FALSE, !.file = <<>>]
    /\ io' = [io EXCEPT !.linked = FALSE]
    /\ content' = {} /\ halves' = {}
    /\ Quietly
    /\ UNCHANGED cuts

-----------------------------------------------------------------------------
(* Reading keywords.                                                       *)

fread_header(pos) == IF disk.fmt THEN fread_header_formatted(disk.file, pos)
                     ELSE fread_header_unformatted(disk.file, pos)

(* A read of a formatted file skips the newline after it.                 *)
PastLine(read) == IF read.status # "ok" THEN read ELSE [read EXCEPT !.pos = fseek(@, @ + 1)]

(* Mutant: one record is read, the elements behind it stay as allocated.   *)
OneRecord(pos, type, n) ==
    IF n = 0 THEN [status |-> "ok", pos |-> pos, data |-> <<>>]
    ELSE IF disk.fmt THEN PastLine(fread_data_formatted(disk.file, pos, type, n))
    ELSE LET first == Min({n, blocksize(type)})
             read == fread_data_unformatted(disk.file, pos, type, first)
         IN  [read EXCEPT !.data = @ \o Zeros(type, n - first)]

(* rd_kw_fread_data                                                        *)
fread_data(pos, type, n) ==
    IF n = 0 THEN [status |-> "ok", pos |-> pos, data |-> <<>>]
    ELSE IF disk.fmt THEN PastLine(fread_data_formatted(disk.file, pos, type, n))
    ELSE fread_data_unformatted(disk.file, pos, type, n)

Ended(read, kw) ==
    [pos |-> read.pos,
     result |-> CASE read.status = "ok" -> kw
                  [] read.status = "fail" -> Null
                  [] OTHER -> Throws]

WithData(header, data) == Ended(data, Kw(header[1], header[2], data.data))

WithHeader(read) ==
    IF read.status # "ok" THEN Ended(read, Null)
    ELSE WithData(read.header, fread_data(read.pos, read.header[2], read.header[3]))

(* rd_kw_fread_alloc: the keyword, or none, or an exception.               *)
fread_alloc(pos) == WithHeader(fread_header(pos))

After(read) == StreamAt(read.pos, read.result \in {Null, Throws})

fread ==
    /\ Readable /\ ~io.lost
    /\ \E read \in {fread_alloc(io.pos)} :
           io' = After(read) /\ Call("read", "", read.result)
    /\ UNCHANGED <<disk, content, halves, cuts>>

(* rd_file_kw.cpp: a keyword whose header is known is read where it is.    *)
Load(c) ==
    /\ Readable
    /\ fread_header(c.at).status = "ok"
    /\ \E header \in {IF disk.fmt THEN fread_header(c.at).pos
                      ELSE c.at + 2 + WordAt(disk.file, c.at).v} :
       \E read \in {WithData(<<c.kw.header, c.kw.type>>,
                             fread_data(header, c.kw.type, Size(c.kw)))} :
           /\ io' = After(read)
           /\ last' = [op |-> "read", at |-> c.at, arg |-> "", result |-> read.result]
    /\ UNCHANGED <<disk, content, halves, cuts>>

(* rd_kw_fskip_data__: records are leapt over, lines are read.             *)
Leapt(pos, to) ==
    [status |-> IF fseek(pos, to) = to THEN "ok" ELSE "fail", pos |-> fseek(pos, to)]
fskip_data(pos, type, n) ==
    IF n = 0 THEN [status |-> "ok", pos |-> pos]
    ELSE IF disk.fmt THEN fread_data(pos, type, n)
    ELSE Leapt(pos, pos + 2 * num_blocks(type, n) + n * sizeof_iotype(type))

(* A scan reads a header and skips the data.                               *)
SkipFrom(read) ==
    IF read.status # "ok" THEN read ELSE fskip_data(read.pos, read.header[2], read.header[3])

fskip ==
    /\ Readable /\ ~io.lost
    /\ \E skipped \in {SkipFrom(fread_header(io.pos))} :
           /\ io' = StreamAt(skipped.pos, skipped.status # "ok")
           /\ Quietly
    /\ UNCHANGED <<disk, content, halves, cuts>>

(* The search of rd_kw_fseek_kw: a failing skip goes unnoticed.            *)
RECURSIVE Search(_, _, _)
SearchPast(name, skipped, rewind) ==
    IF skipped.status = "throw" THEN [result |-> Throws, pos |-> skipped.pos]
    ELSE Search(name, skipped.pos, rewind)
SearchAt(name, pos, rewind, read) ==
    CASE read.status = "throw" -> [result |-> Throws, pos |-> read.pos]
      [] read.status = "fail" -> IF rewind THEN Search(name, 0, FALSE)
                                 ELSE [result |-> Null, pos |-> read.pos]
      [] read.status = "ok" /\ read.header[1] = name -> [result |-> Found, pos |-> pos]
      [] OTHER -> SearchPast(name, SkipFrom(read), rewind)
Search(name, pos, rewind) == SearchAt(name, pos, rewind, fread_header(pos))

(* Mutant: a search that finds nothing stays where it ended.               *)
StayWhereEnded(search) == search.pos

(* The stream goes back when nothing is found.                             *)
Repositioned(search) ==
    IF search.result = Null THEN fseek(search.pos, io.pos) ELSE search.pos

fseek_kw(name, rewind) ==
    /\ Readable /\ ~io.lost
    /\ \E search \in {Search(name, io.pos, rewind)} :
           /\ io' = StreamAt(Repositioned(search), search.result = Throws)
           /\ Call("fseek_kw", <<name, rewind>>, search.result)
    /\ UNCHANGED <<disk, content, halves, cuts>>

(* FortIO::data_fseek                                                      *)
ElementPos(at, type, i) ==
    at + HeaderWords + 2 * (i \div blocksize(type)) + 1 + i * sizeof_iotype(type)

(* What is read across the parts of two words is no number of a keyword.   *)
Garbled == -1
WholeElement(words) ==
    IF \A p \in DOMAIN words : words[p].k = "data" /\ words[p].part = p
    THEN words[1].v ELSE Garbled
ElementAt(type, pos) ==
    WholeElement(SubSeq(disk.file, pos + 1, pos + sizeof_iotype(type)))

(* rd_kw_fread_indexed_data, of numbers; of a formatted file the keyword   *)
(* is read whole.                                                          *)
IndexedData(c, index_map) ==
    IF disk.fmt
    THEN LET whole == fread_alloc(c.at).result
         IN  [n \in DOMAIN index_map |-> whole.data[index_map[n] + 1]]
    ELSE [n \in DOMAIN index_map |->
             ElementAt(c.kw.type, ElementPos(c.at, c.kw.type, index_map[n]))]

fread_indexed(c, index_map) ==
    /\ Readable /\ is_numeric(c.kw.type)
    /\ last' = [op |-> "indexed", at |-> c.at, arg |-> index_map,
                result |-> IndexedData(c, index_map)]
    /\ io' = StreamAt(0, TRUE)
    /\ UNCHANGED <<disk, content, halves, cuts>>

-----------------------------------------------------------------------------
Init ==
    /\ disk = [exists |-> FALSE, fmt |-> FALSE, file |-> <<>>]
    /\ io = Closed
    /\ content = {} /\ halves = {} /\ cuts = 0
    /\ last = NoCall

IndexMaps(n) == {<<i, j>> : i, j \in 0 .. n - 1}

Next ==
    \/ \E mode \in {"r", "w", "r+", "a"}, fmt \in BOOLEAN : Open(mode, fmt)
    \/ Close \/ fclose_stream \/ fopen_stream \/ looks_like_fortran_file
    \/ \E pos \in 0 .. FileSize : SeekTo(pos) \/ ftruncate(pos) \/ LoseTail(pos)
    \/ \E kw \in Keywords : fwrite(kw) \/ fwrite_error(kw)
    \/ fread \/ fskip
    \/ \E c \in content \cup halves : Load(c)
    \/ \E name \in {kw.header : kw \in Keywords} \ LongNames, rewind \in BOOLEAN :
           fseek_kw(name, rewind)
    \/ \E c \in content : \E index_map \in IndexMaps(Size(c.kw)) : fread_indexed(c, index_map)

Spec == Init /\ [][Next]_vars

-----------------------------------------------------------------------------
(* Properties.                                                             *)

(* A keyword as it comes back: strings are as long as their type says.     *)
ReadBack(kw) ==
    Kw(kw.header, kw.type,
       [i \in DOMAIN kw.data |-> MemoryForm(kw.type, DiskForm(kw.type, kw.data[i]))])

(* A keyword read where one was written, by a scan or by its offset, is    *)
(* that keyword, whatever its size is next to the size of a record or a    *)
(* line, and the stream is where the next one starts: the blocks and lines *)
(* of rd_kw_fwrite_data are those that rd_kw_fread_data undoes.            *)
ReadsWhatWasWritten ==
    last.op = "read" =>
        \A c \in content : c.at = last.at => last.result = ReadBack(c.kw) /\ io.pos = c.end

(* Of a keyword whose tail is lost nothing is returned: rd_kw_fread_alloc  *)
(* gives none or throws, unless all that is lost is the newline at the end *)
(* of a formatted file.  Strings of formatted files are left out: there    *)
(* rd_kw_fread_data goes on past the end.  So are files that were written  *)
(* on to behind it: the next keyword may be taken for the lost tail.       *)
NothingHalfRead ==
    last.op = "read" =>
        \A c \in {half \in halves : half.at = last.at} :
            (\A d \in content : d.end <= c.at) /\ ~(disk.fmt /\ is_string(c.kw.type)) =>
                \/ last.result \in {Null, Throws}
                \/ disk.fmt /\ last.result = ReadBack(c.kw)

(* What a read returns was written there, and is whole.                    *)
WholeOrNothing == ReadsWhatWasWritten /\ NothingHalfRead

(* What rd_kw_fseek_kw promises of a whole file: it stops at the first     *)
(* keyword of the name from here on, or else, when it may rewind, at the   *)
(* first of the file, or else stays where it is.  A skip ends where a      *)
(* search would go on.                                                     *)
SeekFindsFirst ==
    last.op = "fseek_kw" /\ halves = {} =>
        LET named == {c.at : c \in {d \in content : d.kw.header8 = last.arg[1]}}
            ahead == {at \in named : at >= last.at}
        IN  /\ last.result = IF ahead # {} \/ (last.arg[2] /\ named # {}) THEN Found ELSE Null
            /\ io.pos = IF ahead # {} THEN Min(ahead)
                        ELSE IF last.result = Found THEN Min(named) ELSE last.at
=============================================================================
