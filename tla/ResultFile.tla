----------------------------- MODULE ResultFile -----------------------------
(***************************************************************************)
(* rd_file.cpp, rd_file_view.cpp and rd_file_kw.cpp: a keyword file, the   *)
(* index of it that a File instance builds when it is opened or reads from *)
(* an index file, and the keywords that are loaded and saved through it.   *)
(*                                                                         *)
(* A keyword has a name, a size (which stands for its type too) and data.  *)
(* On disk its header takes one unit and each element one more.  The data  *)
(* of a keyword is one value.  A seek that fails is ignored by the code;   *)
(* the position a stream then stands at is not tracked: the read starts    *)
(* anywhere in the file.                                                   *)
(***************************************************************************)
EXTENDS Naturals, Sequences, FiniteSets

CONSTANTS
    Layouts,         \* what the simulator may write: sequences of keywords
    Appended,        \* the keywords a running simulator may append
    Values,          \* the data of a keyword
    Addresses,       \* where a keyword may be allocated; bounds those loaded
    NoAddress,
    MaxTime,         \* bound: seconds that pass
    MaxMissing,      \* bound: units cut from the end of a file
    MaxKeywords      \* bound: keywords on disk

ASSUME ResultFileAssumption ==
    /\ NoAddress \notin Addresses
    /\ MaxTime \in Nat /\ MaxMissing \in Nat /\ MaxKeywords \in Nat
    /\ \A layout \in Layouts : Len(layout) \in 1 .. MaxKeywords

(* A name is a sequence of words, and has at least one.                    *)
Names == Seq(STRING) \ {<<>>}
Keywords == [name : Names, size : Nat, data : Values]

ASSUME KeywordsAssumption == Layouts \subseteq Seq(Keywords) /\ Appended \subseteq Keywords

VARIABLES
    kws, length,     \* the file: its keywords, and the units really there
    file_time, now,  \* its modification time and the clock, in seconds
    index,           \* the index file
    open, flags, stream_open, read_size,
    kw_list,         \* the FileKWs of the File instance
    heap,            \* Addresses -> a loaded keyword or Free
    inv_map,         \* address -> position in kw_list
    touched,         \* history: addresses the client changed since load or save
    trusted,         \* history: kw_list was made of the file that is there now
    result           \* what the last call gave the client

disk == <<kws, length, file_time>>
instance == <<open, flags, read_size, kw_list, heap, inv_map, touched, trusted>>
vars == <<disk, now, index, instance, stream_open, result>>

Free == [name |-> <<>>, size |-> 0, data |-> 0]
NoIndex == [entries |-> <<>>, time |-> 0, current |-> FALSE]   \* current: history
Flags == SUBSET {"CLOSE_STREAM", "WRITABLE"}

Outcome(what) == [what |-> what, kw |-> NoAddress]

-----------------------------------------------------------------------------
(* The file.                                                               *)

(* The position of keyword n, and of the end of the file for the position  *)
(* after the last.                                                         *)
OffsetIn(list, n) ==
    LET units[k \in 0 .. Len(list)] == IF k = 0 THEN 0 ELSE units[k - 1] + 1 + list[k].size
    IN  units[n - 1]

Offset(n) == OffsetIn(kws, n)
Extent(list) == OffsetIn(list, Len(list) + 1)

HeaderOnDisk(n) == Offset(n) + 1 <= length
DataOnDisk(n)   == Offset(n + 1) <= length

At(offset) == {n \in DOMAIN kws : Offset(n) = offset /\ DataOnDisk(n)}

(* File::scan goes on until a header or the data cannot be passed.  In a   *)
(* writable file a seek beyond the end succeeds.                           *)
Scanned(writable) ==
    LET passed == {n \in DOMAIN kws : HeaderOnDisk(n) /\ (writable \/ DataOnDisk(n))}
    IN  [n \in 1 .. Cardinality(passed) |->
            [name |-> kws[n].name, size |-> kws[n].size, offset |-> Offset(n),
             kw |-> NoAddress]]

(* In an index file a name ends at its first blank.                        *)
NameInIndex(name) == <<Head(name)>>

-----------------------------------------------------------------------------
(* The simulator and the clock.                                            *)

Tick ==
    /\ now < MaxTime
    /\ now' = now + 1
    /\ UNCHANGED <<disk, index, instance, stream_open, result>>

(* A new file replaces the old one, while there is no File instance of it; *)
(* it may be cut short anywhere.                                           *)
Rewrite(layout, units) ==
    /\ ~open
    /\ kws' = layout
    /\ length' = units
    /\ file_time' = now
    /\ index' = [index EXCEPT !.current = FALSE]
    /\ UNCHANGED <<now, instance, stream_open, result>>

(* The simulator appends, or completes what it had begun, at any time.     *)
Grow ==
    /\ \/ length < Extent(kws) /\ kws' = kws
       \/ /\ length = Extent(kws) /\ Len(kws) < MaxKeywords
          /\ \E kw \in Appended : kws' = Append(kws, kw)
    /\ length' = Extent(kws')
    /\ file_time' = now
    /\ UNCHANGED <<now, index, instance, stream_open, result>>

-----------------------------------------------------------------------------
(* Opening.                                                                *)

Instance(f, list, what, current) ==
    /\ open' = TRUE
    /\ flags' = f
    /\ read_size' = length
    /\ kw_list' = list
    /\ heap' = [a \in Addresses |-> Free]
    /\ inv_map' = <<>>
    /\ touched' = {}
    /\ trusted' = current
    /\ stream_open' = ("CLOSE_STREAM" \notin f)
    /\ result' = Outcome(what)
    /\ UNCHANGED <<disk, now, index>>

Open(f) == ~open /\ Instance(f, Scanned("WRITABLE" \in f), "open", TRUE)

(* check_valid_index compares whole seconds.                               *)
FastOpen(f) ==
    /\ ~open /\ index # NoIndex
    /\ IF file_time > index.time
       THEN /\ result' = Outcome("refused")
            /\ UNCHANGED <<disk, now, index, instance, stream_open>>
       ELSE Instance(f, [n \in DOMAIN index.entries |->
                            [index.entries[n] EXCEPT !.name = NameInIndex(@)]],
                     "fast_open", index.current)

WriteIndex ==
    /\ open /\ kw_list # <<>>
    /\ index' = [entries |-> [n \in DOMAIN kw_list |->
                                 [kw_list[n] EXCEPT !.kw = NoAddress]],
                 time |-> now, current |-> trusted]
    /\ result' = Outcome("done")
    /\ UNCHANGED <<disk, now, instance, stream_open>>

Close ==
    /\ open
    /\ stream_open' = FALSE
    /\ result' = Outcome("done")
    /\ UNCHANGED <<disk, now, index, instance>>

(* The destructors of the File, its views and its context.                 *)
Discard ==
    /\ open
    /\ open' = FALSE /\ stream_open' = FALSE
    /\ flags' = {} /\ read_size' = 0 /\ kw_list' = <<>> /\ touched' = {}
    /\ trusted' = FALSE
    /\ heap' = [a \in Addresses |-> Free] /\ inv_map' = <<>>
    /\ result' = Outcome("done")
    /\ UNCHANGED <<disk, now, index>>

-----------------------------------------------------------------------------
(* Loading.                                                                *)

HasHeaderOf(kw, entry) == kw.name = entry.name /\ kw.size = entry.size

(* Where FileKW::load_kw starts to read: fortio.fseek does not go beyond   *)
(* the size a read-only file had when it was opened, and nobody looks at   *)
(* what it returns.                                                        *)
StartsAt(offset) ==
    IF "WRITABLE" \in flags \/ offset <= read_size THEN {offset} ELSE 0 .. length

(* fopen may fail when a closed stream is opened again.                    *)
ReopenFails ==
    /\ ~stream_open
    /\ UNCHANGED <<disk, now, index, instance, stream_open>>

(* Map with a entered as the address of entry i.                          *)
InvMapWith(map, a, i) == [b \in DOMAIN map \cup {a} |-> IF b = a THEN i ELSE map[b]]

(* The keyword is cached before its header is compared with the index, and *)
(* entered in the inverse map after.                                       *)
Load(i, start) ==
    LET entry == kw_list[i]
    IN  \/ /\ At(start) = {}
           /\ stream_open' = TRUE
           /\ result' = Outcome("throws")
           /\ UNCHANGED <<disk, now, index, instance>>
        \/ \E n \in At(start), a \in {b \in Addresses : heap[b] = Free} :
               /\ heap' = [heap EXCEPT ![a] = kws[n]]
               /\ kw_list' = [kw_list EXCEPT ![i].kw = a]
               /\ IF HasHeaderOf(kws[n], entry)
                  THEN /\ inv_map' = InvMapWith(inv_map, a, i)
                       /\ stream_open' = ("CLOSE_STREAM" \notin flags)
                       /\ result' = [what |-> "kw", kw |-> a]
                  ELSE /\ stream_open' = TRUE
                       /\ result' = Outcome("throws")
                       /\ UNCHANGED inv_map
               /\ UNCHANGED <<disk, now, index, open, flags, read_size, touched, trusted>>

GetKw(i) ==
    /\ open
    /\ IF kw_list[i].kw # NoAddress
       THEN /\ result' = [what |-> "kw", kw |-> kw_list[i].kw]
            /\ UNCHANGED <<disk, now, index, instance, stream_open>>
       ELSE \/ ReopenFails /\ result' = Outcome("not open")
            \/ \E start \in StartsAt(kw_list[i].offset) : Load(i, start)

(* index_fload_kw reads single elements; the cache is not used and the     *)
(* stream is not closed.                                                   *)
IndexFloadKw(i) ==
    /\ open /\ kw_list[i].size > 0
    /\ At(kw_list[i].offset) # {}
    /\ \/ ReopenFails /\ result' = Outcome("not open")
       \/ /\ stream_open' = TRUE
          /\ result' = Outcome("elements")
          /\ UNCHANGED <<disk, now, index, instance>>

-----------------------------------------------------------------------------
(* The client changes a keyword it was given, saves it, or drops a view.   *)

(* Mutant: a keyword is saved whatever has become of its header.           *)
SaveUnchecked(a) ==
    /\ open /\ "WRITABLE" \in flags /\ a \in DOMAIN inv_map
    /\ LET entry == kw_list[inv_map[a]]
       IN  /\ kws' = [n \in DOMAIN kws |-> IF n \in At(entry.offset)
                                           THEN [kws[n] EXCEPT !.data = heap[a].data]
                                           ELSE kws[n]]
           /\ file_time' = now
           /\ touched' = touched \ {a}
           /\ stream_open' = ("CLOSE_STREAM" \notin flags)
           /\ result' = Outcome("saved")
           /\ UNCHANGED <<length, now, index, open, flags, read_size, kw_list,
                          heap, inv_map, trusted>>

(* Mutant: the data is written over the header.                            *)
SaveOverHeader(a) ==
    /\ open /\ "WRITABLE" \in flags /\ a \in DOMAIN inv_map
    /\ LET entry == kw_list[inv_map[a]]
       IN  /\ HasHeaderOf(heap[a], entry)
           /\ kws' = [n \in DOMAIN kws |-> IF n \in At(entry.offset)
                                           THEN [kws[n] EXCEPT !.name = <<"data">>]
                                           ELSE kws[n]]
           /\ file_time' = now
           /\ touched' = touched \ {a}
           /\ stream_open' = ("CLOSE_STREAM" \notin flags)
           /\ result' = Outcome("saved")
           /\ UNCHANGED <<length, now, index, open, flags, read_size, kw_list,
                          heap, inv_map, trusted>>

(* save_kw: the address is looked up, the header compared, and the data    *)
(* written behind the header on disk.                                      *)
SaveKw(a) ==
    /\ open /\ "WRITABLE" \in flags
    /\ \/ /\ a \notin DOMAIN inv_map
          /\ result' = Outcome("throws")
          /\ UNCHANGED <<disk, now, index, instance, stream_open>>
       \/ a \in DOMAIN inv_map /\ ReopenFails /\ result' = Outcome("not open")
       \/ /\ a \in DOMAIN inv_map
          /\ ~HasHeaderOf(heap[a], kw_list[inv_map[a]])
          /\ stream_open' = TRUE
          /\ result' = Outcome("throws")
          /\ UNCHANGED <<disk, now, index, instance>>
       \/ /\ a \in DOMAIN inv_map
          /\ HasHeaderOf(heap[a], kw_list[inv_map[a]])
          /\ kws' = [n \in DOMAIN kws |->
                        IF n \in At(kw_list[inv_map[a]].offset)
                        THEN [kws[n] EXCEPT !.data = heap[a].data] ELSE kws[n]]
          /\ file_time' = now
          /\ touched' = touched \ {a}
          /\ stream_open' = ("CLOSE_STREAM" \notin flags)
          /\ result' = Outcome("saved")
          /\ UNCHANGED <<length, now, index, open, flags, read_size, kw_list,
                         heap, inv_map, trusted>>

Modify(a, kw) ==
    /\ open /\ heap[a] # Free
    /\ heap' = [heap EXCEPT ![a] = kw]
    /\ touched' = touched \cup {a}
    /\ UNCHANGED <<disk, now, index, open, flags, stream_open, read_size,
                   kw_list, inv_map, trusted, result>>

(* The cached keywords of the entries in S are freed.                      *)
Cached(S) == {kw_list[i].kw : i \in S} \ {NoAddress}

FreeKeywords(S) ==
    /\ heap' = [a \in Addresses |-> IF a \in Cached(S) THEN Free ELSE heap[a]]
    /\ kw_list' = [i \in DOMAIN kw_list |->
                      IF i \in S THEN [kw_list[i] EXCEPT !.kw = NoAddress]
                      ELSE kw_list[i]]
    /\ touched' = touched \ Cached(S)
    /\ inv_map' = [a \in DOMAIN inv_map \ Cached(S) |-> inv_map[a]]

(* FileView::clear, for the whole file or for a view of a block of it.     *)
Clear(first, last) ==
    /\ open
    /\ FreeKeywords(first .. last)
    /\ result' = Outcome("done")
    /\ UNCHANGED <<disk, now, index, open, flags, stream_open, read_size, trusted>>

(* WellInfo::add_UNRST_wells, one block: CLOSE_STREAM is dropped, keywords *)
(* are loaded, the flag is set again and everything is cleared.            *)
LoadWells ==
    /\ open
    /\ FreeKeywords(DOMAIN kw_list)
    /\ stream_open' \in {stream_open, TRUE}
    /\ result' = Outcome("done")
    /\ UNCHANGED <<disk, now, index, open, flags, read_size, trusted>>

-----------------------------------------------------------------------------
Init ==
    /\ kws \in Layouts /\ length = Extent(kws) /\ file_time = 0 /\ now = 0
    /\ index = NoIndex
    /\ open = FALSE /\ flags = {} /\ stream_open = FALSE /\ read_size = 0
    /\ kw_list = <<>> /\ heap = [a \in Addresses |-> Free] /\ inv_map = <<>>
    /\ touched = {} /\ trusted = FALSE /\ result = Outcome("none")

Simulator ==
    \/ Tick
    \/ Grow
    \/ \E layout \in Layouts : \E units \in 0 .. Extent(layout) :
           Extent(layout) - units <= MaxMissing /\ Rewrite(layout, units)

Opening == \E f \in Flags : Open(f) \/ FastOpen(f)

(* The keywords a client may turn the one at address a into: other data,   *)
(* or another size.                                                        *)
ChangedKw(a) == {[heap[a] EXCEPT !.data = v] : v \in Values} \cup
              {[heap[a] EXCEPT !.size = @ + 1]}

Client ==
    \/ Close
    \/ Discard
    \/ WriteIndex
    \/ LoadWells
    \/ \E i \in DOMAIN kw_list : GetKw(i) \/ IndexFloadKw(i)
    \/ \E a \in Addresses : SaveKw(a)
    \/ \E a \in Addresses \ touched : \E kw \in ChangedKw(a) : Modify(a, kw)
    \/ \E first, last \in DOMAIN kw_list : first <= last /\ Clear(first, last)

Next == Simulator \/ Opening \/ Client

Spec == Init /\ [][Next]_vars

-----------------------------------------------------------------------------
(* A keyword that was loaded, and that the client has not changed since it *)
(* was loaded or saved, is the keyword that is on disk at its offset; the  *)
(* growth of the file, other loads and saves do not come between.  Under   *)
(* an index file of an earlier file the code may take one keyword for      *)
(* another.                                                                *)
CacheCoherent ==
    trusted => \A a \in DOMAIN inv_map \ touched :
        \E n \in At(kw_list[inv_map[a]].offset) : heap[a] = kws[n]

(* A save changes the data of one keyword on disk, the one the client was  *)
(* given, and never a header or another keyword.                           *)
SavesInPlace ==
    [][ (kws' # kws /\ open) =>
            \/ \E kw \in Appended : kws' = Append(kws, kw)
            \/ \E n \in DOMAIN kws, a \in DOMAIN inv_map :
                   /\ n \in At(kw_list[inv_map[a]].offset)
                   /\ HasHeaderOf(heap[a], kws[n])
                   /\ kws' = [kws EXCEPT ![n].data = heap[a].data] ]_vars
=============================================================================
