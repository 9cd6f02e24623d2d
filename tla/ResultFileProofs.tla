-------------------------- MODULE ResultFileProofs --------------------------
(***************************************************************************)
(* The cache of keywords is coherent with the disk and a save writes where *)
(* its keyword came from, for files of any length, keywords of any size    *)
(* and any number of addresses, while a simulator writes to the file.      *)
(*                                                                         *)
(* Positions in a file increase from keyword to keyword, and stay when     *)
(* data is written or a keyword is appended.  An entry that is trusted     *)
(* describes the keyword of its own number (EntriesDescribe), inv_map and  *)
(* the entries point at each other (PointBack), and so two addresses are     *)
(* never saved at one position.  What is loaded has the header that the    *)
(* entry expects (HeadersThere), so a save that compares the keyword with  *)
(* its entry has compared it with the disk.                                *)
(***************************************************************************)
EXTENDS ResultFile, Induction, FiniteSetTheorems

Entries == [name : Names, size : Nat, offset : Nat, kw : Addresses \cup {NoAddress}]

(* The keywords of a file of so many units that begin at an offset.        *)
There(list, units, offset) ==
    {n \in DOMAIN list : OffsetIn(list, n) = offset /\ OffsetIn(list, n + 1) <= units}

(* The entries are those of the keywords of a file, by number, and each    *)
(* was in the file when it had so many units.                              *)
Describe(entries, list, units) ==
    \A i \in DOMAIN entries :
        /\ i \in DOMAIN list
        /\ entries[i].size = list[i].size /\ entries[i].offset = OffsetIn(list, i)
        /\ entries[i].offset < units

(* The addresses of the map are allocated, and their entries know them.    *)
PointBack(map, store, entries) ==
    \A a \in DOMAIN map :
        /\ a \in Addresses /\ store[a] # Free
        /\ map[a] \in DOMAIN entries /\ entries[map[a]].kw = a

(* Where an entry of the map leads there is a keyword with its header.     *)
Headers(map, entries, list, units) ==
    \A a \in DOMAIN map : \E n \in There(list, units, entries[map[a]].offset) :
        HasHeaderOf(list[n], entries[map[a]])

(* The addresses that are not excepted hold what is there.                 *)
Coherent(map, entries, list, units, store, except) ==
    \A a \in DOMAIN map \ except : \E n \in There(list, units, entries[map[a]].offset) :
        store[a] = list[n]

FileKept == kws \in Seq(Keywords) /\ length \in Nat /\ length <= Extent(kws)

InstanceKept ==
    /\ kw_list \in Seq(Entries) /\ heap \in [Addresses -> Keywords \cup {Free}]
    /\ read_size \in Nat /\ (open => read_size <= length)
    /\ trusted \in BOOLEAN /\ (~open => inv_map = <<>> /\ ~trusted)

IndexKept ==
    /\ DOMAIN index = {"entries", "time", "current"}
    /\ index.entries \in Seq(Entries) /\ index.current \in BOOLEAN
    /\ index.current => Describe(index.entries, kws, length)

EntriesDescribe == trusted => Describe(kw_list, kws, read_size)

MapPointsBack == PointBack(inv_map, heap, kw_list)

(* Loaded from a position that the code could seek to.                     *)
HeadersThere == trusted \/ "WRITABLE" \in flags => Headers(inv_map, kw_list, kws, length)

DataThere == trusted => Coherent(inv_map, kw_list, kws, length, heap, touched)

IInv ==
    /\ FileKept /\ InstanceKept /\ IndexKept
    /\ EntriesDescribe /\ MapPointsBack /\ HeadersThere /\ DataThere

-----------------------------------------------------------------------------
(* Positions.                                                              *)

LEMMA ListShape ==
    ASSUME NEW list \in Seq(Keywords)
    PROVE  /\ Len(list) \in Nat /\ DOMAIN list = 1 .. Len(list)
           /\ \A n \in 1 .. Len(list) : list[n] \in Keywords /\ list[n].size \in Nat
  <1>1. Len(list) \in Nat /\ DOMAIN list = 1 .. Len(list)
    BY LenProperties
  <1>2. \A n \in 1 .. Len(list) : list[n] \in Keywords
    BY LenProperties
  <1>3. \A kw \in Keywords : kw.size \in Nat
    BY DEF Keywords
  <1> QED BY <1>1, <1>2, <1>3

LEMMA Positions ==
    ASSUME NEW list \in Seq(Keywords)
    PROVE  /\ OffsetIn(list, 1) = 0
           /\ \A n \in 1 .. Len(list) : OffsetIn(list, n + 1) = OffsetIn(list, n) + 1 + list[n].size
           /\ \A n \in 1 .. Len(list) + 1 : OffsetIn(list, n) \in Nat
  <1> DEFINE N == Len(list)
             step == [k \in 1 .. N |-> [v \in Nat |-> v + 1 + list[k].size]]
             Solves(u) == u = [k \in 0 .. N |-> IF k = 0 THEN 0 ELSE u[k - 1] + 1 + list[k].size]
             u == CHOOSE u : Solves(u)
  <1>1. N \in Nat /\ \A k \in 1 .. N : list[k].size \in Nat
    BY ListShape
  <1> HIDE DEF N
  <1>2. /\ step \in [1 .. N -> [Nat -> Nat]]
        /\ \A k \in 1 .. N : \A v \in Nat : step[k][v] = v + 1 + list[k].size
    BY <1>1
  <1> HIDE DEF step
  <1>3. \E w : Solves(w)
    <2>1. PICK w : Recurs(w, N, Nat, 0, step)
      <3>1. 0 \in Nat
        OBVIOUS
      <3> QED BY <1>1, <1>2, <3>1, RecursionSolved
    <2>2. ASSUME NEW k \in 1 .. N PROVE w[k] = w[k - 1] + 1 + list[k].size
      <3>1. k - 1 \in 0 .. N
        BY <1>1
      <3>2. w[k - 1] \in Nat
        BY <2>1, <3>1 DEF Recurs
      <3> QED BY <1>2, <2>1, <3>2 DEF Recurs
    <2>3. \A k \in 0 .. N : w[k] = IF k = 0 THEN 0 ELSE w[k - 1] + 1 + list[k].size
      BY <2>1, <2>2 DEF Recurs
    <2>4. w = [k \in 0 .. N |-> w[k]]
      BY <2>1 DEF Recurs
    <2>5. Solves(w)
      BY <2>3, <2>4
    <2> HIDE DEF Solves
    <2> QED BY <2>5
  <1>4. Solves(u)
    BY <1>3
  <1>5. \A n : OffsetIn(list, n) = u[n - 1]
    BY DEF OffsetIn, N
  <1> HIDE DEF u
  <1>6. u[0] = 0 /\ \A k \in 1 .. N : u[k] = u[k - 1] + 1 + list[k].size
    BY <1>1, <1>4
  <1>7. \A k \in 0 .. N : u[k] \in Nat
    <2> DEFINE Typed == {k \in 0 .. N : u[k] \in Nat}
    <2>1. 0 \in Typed
      BY <1>1, <1>6
    <2>2. ASSUME NEW k \in 0 .. N - 1, k \in Typed PROVE k + 1 \in Typed
      <3>1. k + 1 \in 1 .. N /\ (k + 1) - 1 = k
        BY <1>1
      <3>2. u[k] \in Nat /\ list[k + 1].size \in Nat
        BY <1>1, <2>2, <3>1
      <3>3. u[k + 1] = u[k] + 1 + list[k + 1].size
        BY <1>6, <3>1
      <3>4. u[k + 1] \in Nat /\ k + 1 \in 0 .. N
        BY <1>1, <3>1, <3>2, <3>3
      <3> QED BY <3>4
    <2> HIDE DEF Typed
    <2>3. 0 .. N \subseteq Typed
      BY <1>1, <2>1, <2>2, UpToInduction
    <2> QED BY <2>3 DEF Typed
  <1>8. ASSUME NEW n \in 1 .. N
        PROVE  OffsetIn(list, n + 1) = OffsetIn(list, n) + 1 + list[n].size
    <2>1. (n + 1) - 1 = n
      BY <1>1
    <2>2. OffsetIn(list, n + 1) = u[n] /\ OffsetIn(list, n) = u[n - 1]
      BY <1>5, <2>1
    <2> QED BY <1>6, <2>2
  <1>9. ASSUME NEW n \in 1 .. N + 1 PROVE OffsetIn(list, n) \in Nat
    <2>1. n - 1 \in 0 .. N
      BY <1>1
    <2> QED BY <1>5, <1>7, <2>1
  <1>10. OffsetIn(list, 1) = 0
    <2>1. OffsetIn(list, 1) = u[1 - 1] /\ 1 - 1 = 0
      BY <1>5
    <2> QED BY <1>6, <2>1
  <1> QED BY <1>8, <1>9, <1>10 DEF N

(* A keyword begins behind those before it.                                *)
LEMMA PositionsIncrease ==
    ASSUME NEW list \in Seq(Keywords)
    PROVE  \A n \in 1 .. Len(list) + 1 : \A m \in 1 .. n - 1 :
               OffsetIn(list, m) < OffsetIn(list, n)
  <1> DEFINE N == Len(list)
             T == {n \in 0 .. N : \A m \in 1 .. n : OffsetIn(list, m) < OffsetIn(list, n + 1)}
  <1>1. N \in Nat /\ \A n \in 1 .. N : list[n].size \in Nat
    BY ListShape
  <1>2. 0 \in T
    BY <1>1
  <1>3. ASSUME NEW n \in 0 .. N - 1, n \in T PROVE n + 1 \in T
    <2>1. n + 1 \in 1 .. N /\ n + 1 \in 1 .. N + 1 /\ (n + 1) + 1 \in 1 .. N + 1
      BY <1>1
    <2>2. /\ OffsetIn(list, (n + 1) + 1) = OffsetIn(list, n + 1) + 1 + list[n + 1].size
          /\ OffsetIn(list, n + 1) \in Nat /\ list[n + 1].size \in Nat
      BY <1>1, <2>1, Positions
    <2>3. OffsetIn(list, n + 1) < OffsetIn(list, (n + 1) + 1)
      BY <2>2
    <2>4. ASSUME NEW m \in 1 .. n + 1 PROVE OffsetIn(list, m) < OffsetIn(list, (n + 1) + 1)
      <3>1. CASE m = n + 1
        BY <2>3, <3>1
      <3>2. CASE m # n + 1
        <4>1. m \in 1 .. n /\ m \in 1 .. N + 1
          BY <1>1, <3>2
        <4>2. OffsetIn(list, m) < OffsetIn(list, n + 1) /\ OffsetIn(list, m) \in Nat
          BY <1>3, <4>1, Positions
        <4> QED BY <2>2, <2>3, <4>2
      <3> QED BY <3>1, <3>2
    <2> QED BY <2>1, <2>4
  <1> HIDE DEF T
  <1>4. 0 .. N \subseteq T
    BY <1>1, <1>2, <1>3, UpToInduction
  <1> SUFFICES ASSUME NEW n \in 1 .. N + 1, NEW m \in 1 .. n - 1
               PROVE  OffsetIn(list, m) < OffsetIn(list, n)
    BY DEF N
  <1>5. n - 1 \in 0 .. N /\ (n - 1) + 1 = n
    BY <1>1
  <1> QED BY <1>4, <1>5 DEF T

(* Lists whose keywords have the same sizes have the same positions.       *)
LEMMA PositionsKept ==
    ASSUME NEW list \in Seq(Keywords), NEW other \in Seq(Keywords),
           Len(list) <= Len(other), \A k \in 1 .. Len(list) : other[k].size = list[k].size
    PROVE  \A n \in 1 .. Len(list) + 1 : OffsetIn(other, n) = OffsetIn(list, n)
  <1> DEFINE N == Len(list)
             T == {n \in 0 .. N : OffsetIn(other, n + 1) = OffsetIn(list, n + 1)}
  <1>1. N \in Nat /\ Len(other) \in Nat
    BY LenProperties
  <1>2. 0 \in T
    BY <1>1, Positions
  <1>3. ASSUME NEW n \in 0 .. N - 1, n \in T PROVE n + 1 \in T
    <2>1. n + 1 \in 1 .. N /\ n + 1 \in 1 .. Len(other)
      BY <1>1
    <2>2. OffsetIn(list, (n + 1) + 1) = OffsetIn(list, n + 1) + 1 + list[n + 1].size
      BY <2>1, Positions
    <2>3. OffsetIn(other, (n + 1) + 1) = OffsetIn(other, n + 1) + 1 + other[n + 1].size
      BY <2>1, Positions
    <2>4. OffsetIn(other, n + 1) = OffsetIn(list, n + 1) /\ other[n + 1].size = list[n + 1].size
      BY <1>3, <2>1
    <2>5. OffsetIn(other, (n + 1) + 1) = OffsetIn(list, (n + 1) + 1)
      BY <2>2, <2>3, <2>4
    <2> QED BY <1>1, <2>1, <2>5
  <1> HIDE DEF T
  <1>4. 0 .. N \subseteq T
    BY <1>1, <1>2, <1>3, UpToInduction
  <1> SUFFICES ASSUME NEW n \in 1 .. N + 1
               PROVE  OffsetIn(other, n) = OffsetIn(list, n)
    BY DEF N
  <1>5. n - 1 \in 0 .. N /\ (n - 1) + 1 = n
    BY <1>1
  <1> QED BY <1>4, <1>5 DEF T

(* No two keywords begin at one position.                                  *)
LEMMA SamePosition ==
    ASSUME NEW list \in Seq(Keywords), NEW m \in DOMAIN list, NEW n \in DOMAIN list,
           OffsetIn(list, m) = OffsetIn(list, n)
    PROVE  m = n
  <1>1. m \in 1 .. Len(list) /\ n \in 1 .. Len(list) /\ Len(list) \in Nat
    BY ListShape
  <1>2. OffsetIn(list, m) \in Nat
    BY <1>1, Positions
  <1>3. CASE m < n
    <2>1. n \in 1 .. Len(list) + 1 /\ m \in 1 .. n - 1
      BY <1>1, <1>3
    <2> QED BY <1>2, <2>1, PositionsIncrease
  <1>4. CASE n < m
    <2>1. m \in 1 .. Len(list) + 1 /\ n \in 1 .. m - 1
      BY <1>1, <1>4
    <2> QED BY <1>2, <2>1, PositionsIncrease
  <1> QED BY <1>1, <1>3, <1>4

LEMMA AtMostOneThere ==
    ASSUME NEW list \in Seq(Keywords), NEW units, NEW offset,
           NEW m \in There(list, units, offset), NEW n \in There(list, units, offset)
    PROVE  m = n
  <1>1. m \in DOMAIN list /\ n \in DOMAIN list /\ OffsetIn(list, m) = OffsetIn(list, n)
    BY DEF There
  <1> QED BY <1>1, SamePosition

(* A file that grows, and whose headers stay, keeps what is there.         *)
LEMMA GrowthKeeps ==
    ASSUME NEW list \in Seq(Keywords), NEW other \in Seq(Keywords),
           NEW units \in Nat, NEW more \in Nat, units <= more,
           Len(list) <= Len(other), \A k \in 1 .. Len(list) : other[k].size = list[k].size
    PROVE  /\ \A offset : There(list, units, offset) \subseteq There(other, more, offset)
           /\ \A entries : Describe(entries, list, units) => Describe(entries, other, more)
           /\ Extent(list) <= Extent(other)
  <1>1. /\ Len(list) \in Nat /\ DOMAIN list = 1 .. Len(list)
        /\ Len(other) \in Nat /\ DOMAIN other = 1 .. Len(other)
    BY ListShape
  <1>2. \A n \in 1 .. Len(list) + 1 : OffsetIn(other, n) = OffsetIn(list, n)
    BY PositionsKept
  <1>3. ASSUME NEW offset, NEW n \in There(list, units, offset)
        PROVE  n \in There(other, more, offset)
    <2>1. /\ n \in 1 .. Len(list) /\ n \in 1 .. Len(list) + 1 /\ n + 1 \in 1 .. Len(list) + 1
          /\ n \in DOMAIN other /\ OffsetIn(list, n) = offset /\ OffsetIn(list, n + 1) <= units
      BY <1>1 DEF There
    <2>2. OffsetIn(list, n + 1) \in Nat
      BY <2>1, Positions
    <2> QED BY <1>2, <2>1, <2>2 DEF There
  <1>4. ASSUME NEW entries, Describe(entries, list, units)
        PROVE  Describe(entries, other, more)
    <2> SUFFICES ASSUME NEW i \in DOMAIN entries
                 PROVE  /\ i \in DOMAIN other
                        /\ entries[i].size = other[i].size
                        /\ entries[i].offset = OffsetIn(other, i) /\ entries[i].offset < more
      BY DEF Describe
    <2>1. /\ i \in DOMAIN list /\ entries[i].size = list[i].size
          /\ entries[i].offset = OffsetIn(list, i) /\ entries[i].offset < units
      BY <1>4 DEF Describe
    <2>2. i \in 1 .. Len(list) + 1 /\ i \in DOMAIN other /\ other[i].size = list[i].size
      BY <1>1, <2>1
    <2>3. OffsetIn(list, i) \in Nat
      BY <2>2, Positions
    <2> QED BY <1>2, <2>1, <2>2, <2>3
  <1>5. Extent(list) <= Extent(other)
    <2>1. /\ Len(list) + 1 \in 1 .. Len(list) + 1 /\ Len(list) + 1 \in 1 .. Len(other) + 1
          /\ Len(other) + 1 \in 1 .. Len(other) + 1
      BY <1>1
    <2>2. /\ OffsetIn(other, Len(list) + 1) = OffsetIn(list, Len(list) + 1)
          /\ OffsetIn(other, Len(list) + 1) \in Nat /\ OffsetIn(other, Len(other) + 1) \in Nat
      BY <1>2, <2>1, Positions
    <2>3. CASE Len(list) = Len(other)
      BY <2>2, <2>3 DEF Extent
    <2>4. CASE Len(list) # Len(other)
      <3>0. \A m, n \in Nat : m <= n /\ m # n => m + 1 \in 1 .. (n + 1) - 1
        OBVIOUS
      <3>1. Len(list) + 1 \in 1 .. (Len(other) + 1) - 1
        BY <1>1, <2>4, <3>0
      <3>2. OffsetIn(other, Len(list) + 1) < OffsetIn(other, Len(other) + 1)
        BY <2>1, <3>1, PositionsIncrease
      <3> QED BY <2>2, <3>2 DEF Extent
    <2> QED BY <2>3, <2>4
  <1> QED BY <1>3, <1>4, <1>5

(* What a scan makes describes the file.                                   *)
LEMMA ScanDescribes ==
    ASSUME FileKept, NEW writable
    PROVE  Scanned(writable) \in Seq(Entries) /\ Describe(Scanned(writable), kws, length)
  <1> DEFINE passed == {n \in DOMAIN kws : HeaderOnDisk(n) /\ (writable \/ DataOnDisk(n))}
             N == Cardinality(passed)
  <1>1. kws \in Seq(Keywords) /\ Len(kws) \in Nat /\ DOMAIN kws = 1 .. Len(kws)
    BY ListShape DEF FileKept
  <1>2. \A n \in 1 .. Len(kws) + 1 : OffsetIn(kws, n) \in Nat
    BY <1>1, Positions
  <1>3. length \in Nat
    BY DEF FileKept
  <1>4. \A n \in passed : \A m \in 1 .. n : m \in passed
    <2> SUFFICES ASSUME NEW n \in passed, NEW m \in 1 .. n, m # n PROVE m \in passed
      OBVIOUS
    <2>1. /\ n \in 1 .. Len(kws) /\ OffsetIn(kws, n) + 1 <= length
          /\ writable \/ OffsetIn(kws, n + 1) <= length
      BY <1>1 DEF HeaderOnDisk, DataOnDisk, Offset
    <2>2. /\ m \in 1 .. Len(kws) /\ m \in 1 .. Len(kws) + 1 /\ m + 1 \in 1 .. Len(kws) + 1
          /\ n \in 1 .. Len(kws) + 1 /\ n + 1 \in 1 .. Len(kws) + 1
          /\ m \in 1 .. n - 1 /\ m + 1 \in 1 .. (n + 1) - 1
      BY <1>1, <2>1
    <2>3. /\ OffsetIn(kws, m) < OffsetIn(kws, n)
          /\ OffsetIn(kws, m + 1) < OffsetIn(kws, n + 1)
      BY <1>1, <2>2, PositionsIncrease
    <2>4. /\ OffsetIn(kws, m) \in Nat /\ OffsetIn(kws, n) \in Nat
          /\ OffsetIn(kws, m + 1) \in Nat /\ OffsetIn(kws, n + 1) \in Nat
      BY <1>2, <2>2
    <2> QED BY <1>1, <1>3, <2>1, <2>2, <2>3, <2>4 DEF HeaderOnDisk, DataOnDisk, Offset
  <1>5. N \in Nat /\ passed = 1 .. N
    <2>1. passed \in SUBSET (1 .. Len(kws))
      BY <1>1
    <2> HIDE DEF passed
    <2> QED BY <1>1, <1>4, <2>1, InitialSegment
  <1>6. ASSUME NEW n \in 1 .. N
        PROVE  /\ n \in 1 .. Len(kws) /\ OffsetIn(kws, n) \in Nat
               /\ OffsetIn(kws, n) < length /\ kws[n].name \in Names /\ kws[n].size \in Nat
    <2>1. n \in passed
      BY <1>5
    <2>2. n \in 1 .. Len(kws) /\ OffsetIn(kws, n) + 1 <= length
      BY <1>1, <2>1 DEF HeaderOnDisk, Offset
    <2>3. OffsetIn(kws, n) \in Nat /\ kws[n] \in Keywords
      BY <1>1, <1>2, <2>2, ListShape
    <2> QED BY <1>3, <2>2, <2>3 DEF Keywords
  <1> DEFINE Entry(n) == [name |-> kws[n].name, size |-> kws[n].size,
                          offset |-> OffsetIn(kws, n), kw |-> NoAddress]
             list == [n \in 1 .. N |-> Entry(n)]
  <1>7. Scanned(writable) = list
    BY DEF Scanned, Offset
  <1>8. \A n \in 1 .. N : Entry(n) \in Entries
    BY <1>6 DEF Entries
  <1>9. list \in [1 .. N -> Entries]
    <2> HIDE DEF N, Entry
    <2> QED BY <1>8
  <1>10. list \in Seq(Entries) /\ DOMAIN list = 1 .. N
    <2> HIDE DEF N, list
    <2> QED BY <1>5, <1>9, WrittenOut
  <1>11. Describe(list, kws, length)
    <2> HIDE DEF N
    <2> QED BY <1>1, <1>6 DEF Describe
  <1> QED BY <1>7, <1>10, <1>11

-----------------------------------------------------------------------------
(* The steps.                                                              *)

(* What a step leaves alone stays as it should be.                         *)
LEMMA Frame ==
    ASSUME IInv
    PROVE  /\ UNCHANGED <<kws, length>> => FileKept'
           /\ UNCHANGED <<kws, length, index>> => IndexKept'
           /\ UNCHANGED <<kws, length, open, flags, read_size, kw_list, heap, inv_map, touched,
                         trusted>>
              => /\ InstanceKept' /\ EntriesDescribe' /\ MapPointsBack'
                 /\ HeadersThere' /\ DataThere'
  <1>1. UNCHANGED <<kws, length>> => FileKept'
    BY DEF IInv, FileKept
  <1>2. UNCHANGED <<kws, length, index>> => IndexKept'
    BY DEF IInv, IndexKept
  <1>3. ASSUME UNCHANGED <<kws, length, open, flags, read_size, kw_list, heap, inv_map, touched,
                           trusted>>
        PROVE  /\ InstanceKept' /\ EntriesDescribe' /\ MapPointsBack'
               /\ HeadersThere' /\ DataThere'
    <2>1. InstanceKept'
      BY <1>3 DEF IInv, InstanceKept
    <2>2. EntriesDescribe' /\ MapPointsBack'
      BY <1>3 DEF IInv, EntriesDescribe, MapPointsBack
    <2>3. HeadersThere' /\ DataThere'
      BY <1>3 DEF IInv, HeadersThere, DataThere
    <2> QED BY <2>1, <2>2, <2>3
  <1> QED BY <1>1, <1>2, <1>3

LEMMA StutterStep ==
    ASSUME IInv, UNCHANGED <<kws, length, index, instance>>
    PROVE  IInv'
  <1>1. UNCHANGED <<open, flags, read_size, kw_list, heap, inv_map, touched, trusted>>
    BY DEF instance
  <1> QED BY <1>1, Frame DEF IInv

(* A file that grows under a File instance.                                *)
LEMMA FileStep ==
    ASSUME IInv, kws' \in Seq(Keywords), Len(kws) <= Len(kws'),
           \A n \in 1 .. Len(kws) : kws'[n].size = kws[n].size /\ kws'[n].name = kws[n].name,
           length' \in Nat, length <= length', length' <= Extent(kws'),
           UNCHANGED <<index, open, flags, read_size, kw_list, heap, inv_map, trusted>>
    PROVE  /\ FileKept' /\ IndexKept' /\ InstanceKept' /\ EntriesDescribe' /\ MapPointsBack'
           /\ HeadersThere'
  <1>1. /\ kws \in Seq(Keywords) /\ length \in Nat /\ read_size \in Nat
        /\ Len(kws) \in Nat /\ DOMAIN kws = 1 .. Len(kws) /\ DOMAIN kws' = 1 .. Len(kws')
    BY ListShape DEF IInv, FileKept, InstanceKept
  <1>2. /\ \A offset : There(kws, length, offset) \subseteq There(kws', length', offset)
        /\ \A entries : Describe(entries, kws, length) => Describe(entries, kws', length')
    BY <1>1, GrowthKeeps
  <1>3. \A entries : Describe(entries, kws, read_size) => Describe(entries, kws', read_size)
    <2>1. read_size <= read_size
      BY <1>1
    <2> QED BY <1>1, <2>1, GrowthKeeps
  <1>4. FileKept'
    BY DEF FileKept
  <1>5. IndexKept'
    BY <1>2 DEF IInv, IndexKept
  <1>6. InstanceKept'
    <2>1. open => read_size <= length'
      BY <1>1 DEF IInv, InstanceKept
    <2> QED BY <2>1 DEF IInv, InstanceKept
  <1>7. EntriesDescribe' /\ MapPointsBack'
    BY <1>3 DEF IInv, EntriesDescribe, MapPointsBack
  <1>8. HeadersThere'
    <2>1. ASSUME Headers(inv_map, kw_list, kws, length)
          PROVE  Headers(inv_map, kw_list, kws', length')
      <3> SUFFICES ASSUME NEW a \in DOMAIN inv_map
                   PROVE  \E n \in There(kws', length', kw_list[inv_map[a]].offset) :
                              HasHeaderOf(kws'[n], kw_list[inv_map[a]])
        BY DEF Headers
      <3>1. PICK n \in There(kws, length, kw_list[inv_map[a]].offset) :
                HasHeaderOf(kws[n], kw_list[inv_map[a]])
        BY <2>1 DEF Headers
      <3>2. n \in There(kws', length', kw_list[inv_map[a]].offset) /\ n \in 1 .. Len(kws)
        BY <1>1, <1>2, <3>1 DEF There
      <3>3. HasHeaderOf(kws'[n], kw_list[inv_map[a]])
        BY <3>1, <3>2 DEF HasHeaderOf
      <3> QED BY <3>2, <3>3
    <2> QED BY <2>1 DEF IInv, HeadersThere
  <1> QED BY <1>4, <1>5, <1>6, <1>7, <1>8

LEMMA GrowStep ==
    ASSUME IInv, Grow
    PROVE  IInv'
  <1>1. kws \in Seq(Keywords) /\ length \in Nat /\ length <= Extent(kws)
    BY DEF IInv, FileKept
  <1>2. /\ Len(kws) \in Nat /\ DOMAIN kws = 1 .. Len(kws)
        /\ \A n \in 1 .. Len(kws) + 1 : OffsetIn(kws, n) \in Nat
    BY <1>1, ListShape, Positions
  <1>3. /\ kws' \in Seq(Keywords) /\ Len(kws) <= Len(kws')
        /\ \A n \in 1 .. Len(kws) : kws'[n] = kws[n]
    <2>1. CASE kws' = kws
      BY <1>1, <1>2, <2>1
    <2>2. CASE kws' # kws
      <3>1. PICK kw \in Appended : kws' = Append(kws, kw)
        BY <2>2 DEF Grow
      <3>2. kw \in Keywords
        BY KeywordsAssumption
      <3> QED BY <1>1, <1>2, <3>1, <3>2, AppendProperties
    <2> QED BY <2>1, <2>2
  <1>4. /\ length' = Extent(kws') /\ length' \in Nat /\ length' <= Extent(kws')
        /\ length <= length'
    <2>1. length' = Extent(kws')
      BY DEF Grow
    <2>2. Len(kws') \in Nat /\ Len(kws') + 1 \in 1 .. Len(kws') + 1
      BY <1>3, ListShape
    <2>3. Extent(kws') \in Nat
      BY <1>3, <2>2, Positions DEF Extent
    <2>4. Extent(kws) <= Extent(kws') /\ Extent(kws) \in Nat
      <3>1. length <= length
        BY <1>1
      <3>2. Len(kws) + 1 \in 1 .. Len(kws) + 1
        BY <1>2
      <3> QED BY <1>1, <1>2, <1>3, <3>1, <3>2, GrowthKeeps DEF Extent
    <2> QED BY <1>1, <2>1, <2>3, <2>4
  <1>5. UNCHANGED <<index, open, flags, read_size, kw_list, heap, inv_map, touched, trusted>>
    BY DEF Grow, instance
  <1>6. /\ FileKept' /\ IndexKept' /\ InstanceKept' /\ EntriesDescribe' /\ MapPointsBack'
        /\ HeadersThere'
    BY <1>3, <1>4, <1>5, FileStep
  <1>7. DataThere'
    <2>1. ASSUME Coherent(inv_map, kw_list, kws, length, heap, touched)
          PROVE  Coherent(inv_map, kw_list, kws', length', heap, touched)
      <3> SUFFICES ASSUME NEW a \in DOMAIN inv_map \ touched
                   PROVE  \E n \in There(kws', length', kw_list[inv_map[a]].offset) :
                              heap[a] = kws'[n]
        BY DEF Coherent
      <3>1. PICK n \in There(kws, length, kw_list[inv_map[a]].offset) : heap[a] = kws[n]
        BY <2>1 DEF Coherent
      <3>2. n \in 1 .. Len(kws)
        BY <1>2, <3>1 DEF There
      <3>3. n \in There(kws', length', kw_list[inv_map[a]].offset)
        BY <1>1, <1>3, <1>4, <3>1, GrowthKeeps
      <3> QED BY <1>3, <3>1, <3>2, <3>3
    <2> QED BY <1>5, <2>1 DEF IInv, DataThere
  <1> QED BY <1>6, <1>7 DEF IInv

LEMMA RewriteStep ==
    ASSUME IInv, NEW layout \in Layouts, NEW units \in 0 .. Extent(layout), Rewrite(layout, units)
    PROVE  IInv'
  <1>1. layout \in Seq(Keywords)
    BY KeywordsAssumption
  <1>2. Extent(layout) \in Nat
    <2>1. Len(layout) + 1 \in 1 .. Len(layout) + 1
      BY <1>1, ListShape
    <2> QED BY <1>1, <2>1, Positions DEF Extent
  <1>3. FileKept'
    BY <1>1, <1>2 DEF Rewrite, FileKept
  <1>4. /\ ~open /\ ~trusted /\ inv_map = <<>>
        /\ UNCHANGED <<open, flags, read_size, kw_list, heap, inv_map, touched, trusted>>
    BY DEF Rewrite, instance, IInv, InstanceKept
  <1>5. IndexKept'
    <2>1. index' = [index EXCEPT !.current = FALSE]
      BY DEF Rewrite
    <2> QED BY <2>1 DEF IInv, IndexKept
  <1>6. InstanceKept'
    BY <1>4 DEF IInv, InstanceKept
  <1>7. EntriesDescribe' /\ MapPointsBack' /\ HeadersThere' /\ DataThere'
    BY <1>4 DEF EntriesDescribe, MapPointsBack, PointBack, HeadersThere, Headers, DataThere
  <1> QED BY <1>3, <1>5, <1>6, <1>7 DEF IInv

(* A File instance is made.                                                *)
LEMMA InstanceStep ==
    ASSUME IInv, NEW f, NEW list \in Seq(Entries), NEW what, NEW current,
           current \in BOOLEAN, current => Describe(list, kws, length),
           Instance(f, list, what, current)
    PROVE  IInv'
  <1>1. /\ UNCHANGED <<kws, length, index>> /\ open' /\ read_size' = length /\ kw_list' = list
        /\ heap' = [a \in Addresses |-> Free] /\ inv_map' = <<>> /\ trusted' = current
    BY DEF Instance, disk
  <1>2. InstanceKept'
    <2>1. heap' \in [Addresses -> Keywords \cup {Free}]
      BY <1>1
    <2>2. read_size' \in Nat /\ read_size' <= length'
      BY <1>1 DEF IInv, FileKept
    <2> QED BY <1>1, <2>1, <2>2 DEF InstanceKept
  <1>3. EntriesDescribe'
    BY <1>1 DEF EntriesDescribe
  <1>4. MapPointsBack' /\ HeadersThere' /\ DataThere'
    BY <1>1 DEF MapPointsBack, PointBack, HeadersThere, Headers, DataThere, Coherent
  <1> QED BY <1>1, <1>2, <1>3, <1>4, Frame DEF IInv

LEMMA OpenStep ==
    ASSUME IInv, NEW f, Open(f)
    PROVE  IInv'
  <1> DEFINE list == Scanned("WRITABLE" \in f)
  <1>1. list \in Seq(Entries) /\ Describe(list, kws, length)
    BY ScanDescribes DEF IInv
  <1>2. Instance(f, list, "open", TRUE)
    BY DEF Open
  <1> HIDE DEF list
  <1> QED BY <1>1, <1>2, InstanceStep

LEMMA FastOpenStep ==
    ASSUME IInv, NEW f, FastOpen(f)
    PROVE  IInv'
  <1> DEFINE entries == index.entries
             list == [n \in DOMAIN entries |-> [entries[n] EXCEPT !.name = NameInIndex(@)]]
  <1>1. CASE file_time > index.time
    <2>1. UNCHANGED <<kws, length, index, instance>>
      BY <1>1 DEF FastOpen, disk
    <2> QED BY <2>1, StutterStep
  <1>2. CASE ~(file_time > index.time)
    <2>1. Instance(f, list, "fast_open", index.current)
      BY <1>2 DEF FastOpen
    <2>2. entries \in Seq(Entries) /\ DOMAIN entries = 1 .. Len(entries) /\ Len(entries) \in Nat
      BY LenProperties DEF IInv, IndexKept
    <2>3. ASSUME NEW n \in 1 .. Len(entries)
          PROVE  /\ list[n] \in Entries
                 /\ list[n].size = entries[n].size /\ list[n].offset = entries[n].offset
      <3>1. entries[n] \in Entries
        BY <2>2, ElementOfSeq
      <3>2. NameInIndex(entries[n].name) \in Names
        <4>1. entries[n].name \in Seq(STRING) /\ entries[n].name # <<>>
          BY <3>1 DEF Entries, Names
        <4>2. Head(entries[n].name) \in STRING
          BY <4>1, HeadTailProperties
        <4> HIDE DEF entries
        <4> QED BY <4>2 DEF NameInIndex, Names
      <3>3. list[n] = [entries[n] EXCEPT !.name = NameInIndex(@)]
        BY <2>2
      <3> HIDE DEF list, entries
      <3> QED BY <3>1, <3>2, <3>3 DEF Entries
    <2>4. DOMAIN list = 1 .. Len(entries)
      BY <2>2
    <2>5. list \in Seq(Entries)
      <3>1. list = [n \in 1 .. Len(entries) |-> list[n]]
        BY <2>2
      <3>2. list \in [1 .. Len(entries) -> Entries]
        <4> HIDE DEF list
        <4> QED BY <2>3, <3>1
      <3> HIDE DEF list
      <3> QED BY <2>2, <3>2, WrittenOut
    <2>6. ASSUME Describe(entries, kws, length) PROVE Describe(list, kws, length)
      <3> HIDE DEF list, entries
      <3> QED BY <2>2, <2>3, <2>4, <2>6 DEF Describe
    <2>7. index.current => Describe(list, kws, length)
      BY <2>6 DEF IInv, IndexKept
    <2>8. index.current \in BOOLEAN
      BY DEF IInv, IndexKept
    <2> HIDE DEF list
    <2> QED BY <2>1, <2>5, <2>7, <2>8, InstanceStep
  <1> QED BY <1>1, <1>2

LEMMA WriteIndexStep ==
    ASSUME IInv, WriteIndex
    PROVE  IInv'
  <1> DEFINE list == [n \in DOMAIN kw_list |-> [kw_list[n] EXCEPT !.kw = NoAddress]]
  <1>1. UNCHANGED <<kws, length, open, flags, read_size, kw_list, heap, inv_map, touched, trusted>>
    BY DEF WriteIndex, disk, instance
  <1>2. /\ DOMAIN index' = {"entries", "time", "current"}
        /\ index'.entries = list /\ index'.current = trusted /\ trusted \in BOOLEAN
    BY DEF WriteIndex, IInv, InstanceKept
  <1>3. /\ kw_list \in Seq(Entries) /\ DOMAIN kw_list = 1 .. Len(kw_list) /\ Len(kw_list) \in Nat
    BY LenProperties DEF IInv, InstanceKept
  <1>4. ASSUME NEW n \in 1 .. Len(kw_list)
        PROVE  /\ list[n] \in Entries
               /\ list[n].size = kw_list[n].size /\ list[n].offset = kw_list[n].offset
    <2>1. kw_list[n] \in Entries
      BY <1>3, ElementOfSeq
    <2>2. list[n] = [kw_list[n] EXCEPT !.kw = NoAddress]
      BY <1>3
    <2> HIDE DEF list
    <2> QED BY <2>1, <2>2 DEF Entries
  <1>5. DOMAIN list = 1 .. Len(kw_list)
    BY <1>3
  <1>6. list \in Seq(Entries)
    <2>1. list = [n \in 1 .. Len(kw_list) |-> list[n]]
      BY <1>3
    <2>2. list \in [1 .. Len(kw_list) -> Entries]
      <3> HIDE DEF list
      <3> QED BY <1>4, <2>1
    <2> HIDE DEF list
    <2> QED BY <1>3, <2>2, WrittenOut
  <1>7. ASSUME trusted PROVE Describe(list, kws, length)
    <2>1. Describe(kw_list, kws, read_size) /\ open /\ read_size \in Nat /\ read_size <= length
      BY <1>7 DEF IInv, EntriesDescribe, InstanceKept
    <2>2. length \in Nat /\ kws \in Seq(Keywords) /\ Len(kws) <= Len(kws)
      BY ListShape DEF IInv, FileKept
    <2>3. Describe(kw_list, kws, length)
      BY <2>1, <2>2, GrowthKeeps
    <2> HIDE DEF list
    <2> QED BY <1>3, <1>4, <1>5, <2>3 DEF Describe
  <1>8. IndexKept'
    <2> HIDE DEF list
    <2> QED BY <1>1, <1>2, <1>6, <1>7 DEF IndexKept
  <1> QED BY <1>1, <1>8, Frame DEF IInv

LEMMA DiscardStep ==
    ASSUME IInv, Discard
    PROVE  IInv'
  <1>1. /\ UNCHANGED <<kws, length, index>> /\ open' = FALSE /\ read_size' = 0 /\ kw_list' = <<>>
        /\ heap' = [a \in Addresses |-> Free] /\ inv_map' = <<>> /\ trusted' = FALSE
        /\ flags' = {}
    BY DEF Discard, disk
  <1>2. InstanceKept'
    <2>1. heap' \in [Addresses -> Keywords \cup {Free}]
      BY <1>1
    <2>2. <<>> \in Seq(Entries)
      BY EmptySeq
    <2> QED BY <1>1, <2>1, <2>2 DEF InstanceKept
  <1>3. EntriesDescribe' /\ MapPointsBack' /\ HeadersThere' /\ DataThere'
    BY <1>1 DEF EntriesDescribe, MapPointsBack, PointBack, HeadersThere, Headers, DataThere
  <1> QED BY <1>1, <1>2, <1>3, Frame DEF IInv

(* A keyword is read where its entry says, unless a file opened for        *)
(* reading only is shorter than that.                                      *)
LEMMA StartIsOffset ==
    ASSUME IInv, NEW i \in DOMAIN kw_list, NEW start \in StartsAt(kw_list[i].offset),
           trusted \/ "WRITABLE" \in flags
    PROVE  start = kw_list[i].offset
  <1>1. CASE "WRITABLE" \in flags
    BY <1>1 DEF StartsAt
  <1>2. CASE trusted
    <2>1. kw_list[i].offset < read_size /\ kw_list[i].offset = OffsetIn(kws, i) /\ i \in DOMAIN kws
      BY <1>2 DEF IInv, EntriesDescribe, Describe
    <2>2. kws \in Seq(Keywords) /\ read_size \in Nat
      BY DEF IInv, FileKept, InstanceKept
    <2>3. DOMAIN kws = 1 .. Len(kws) /\ Len(kws) \in Nat
      BY <2>2, ListShape
    <2>4. i \in 1 .. Len(kws) + 1
      BY <2>1, <2>3
    <2>5. OffsetIn(kws, i) \in Nat
      BY <2>2, <2>4, Positions
    <2>6. kw_list[i].offset <= read_size
      BY <2>1, <2>2, <2>5
    <2> QED BY <2>6 DEF StartsAt
  <1> QED BY <1>1, <1>2

(* A keyword is loaded; the map learns of it, or does not.                 *)
LEMMA LoadedStep ==
    ASSUME IInv, open, NEW i \in DOMAIN kw_list, kw_list[i].kw = NoAddress,
           NEW start \in StartsAt(kw_list[i].offset),
           NEW n \in At(start), NEW a \in Addresses, heap[a] = Free,
           heap' = [heap EXCEPT ![a] = kws[n]], kw_list' = [kw_list EXCEPT ![i].kw = a],
           \/ inv_map' = inv_map
           \/ HasHeaderOf(kws[n], kw_list[i]) /\ inv_map' = InvMapWith(inv_map, a, i),
           UNCHANGED <<kws, length, index, open, flags, read_size, touched, trusted>>
    PROVE  IInv'
  <1>1. /\ kws \in Seq(Keywords) /\ kw_list \in Seq(Entries)
        /\ DOMAIN kw_list = 1 .. Len(kw_list) /\ Len(kw_list) \in Nat
        /\ heap \in [Addresses -> Keywords \cup {Free}]
    BY LenProperties DEF IInv, FileKept, InstanceKept
  <1>2. n \in There(kws, length, start) /\ kws[n] \in Keywords /\ kws[n] # Free
    <2>1. n \in There(kws, length, start)
      BY DEF At, There, Offset, DataOnDisk
    <2>2. kws[n] \in Keywords
      BY <1>1, <2>1, ListShape DEF There
    <2>3. Free \notin Keywords
      BY DEF Free, Keywords, Names
    <2> QED BY <2>1, <2>2, <2>3
  <1>3. \A j \in DOMAIN kw_list : kw_list[j] \in Entries
    BY <1>1, ElementOfSeq
  <1>4. /\ DOMAIN kw_list' = DOMAIN kw_list /\ kw_list'[i].kw = a
        /\ \A j \in DOMAIN kw_list :
               /\ kw_list'[j] \in Entries
               /\ kw_list'[j].name = kw_list[j].name /\ kw_list'[j].size = kw_list[j].size
               /\ kw_list'[j].offset = kw_list[j].offset
               /\ j # i => kw_list'[j] = kw_list[j]
    <2>1. kw_list' = [j \in DOMAIN kw_list |->
                        IF j = i THEN [kw_list[i] EXCEPT !.kw = a] ELSE kw_list[j]]
      BY <1>1
    <2> QED BY <1>3, <2>1 DEF Entries
  <1>5. InstanceKept'
    <2>1. kw_list' \in Seq(Entries)
      <3>1. kw_list' = [j \in 1 .. Len(kw_list) |-> kw_list'[j]]
        BY <1>1
      <3>2. kw_list' \in [1 .. Len(kw_list) -> Entries]
        BY <1>1, <1>4, <3>1
      <3> QED BY <1>1, <3>2, WrittenOut
    <2>2. heap' \in [Addresses -> Keywords \cup {Free}]
      BY <1>1, <1>2
    <2> QED BY <2>1, <2>2 DEF IInv, InstanceKept
  <1>6. EntriesDescribe'
    <2>1. ASSUME Describe(kw_list, kws, read_size) PROVE Describe(kw_list', kws, read_size)
      BY <1>4, <2>1 DEF Describe
    <2> QED BY <2>1 DEF IInv, EntriesDescribe
  <1>7. a \notin DOMAIN inv_map
    BY DEF IInv, MapPointsBack, PointBack
  <1>8. ASSUME NEW b \in DOMAIN inv_map
        PROVE  /\ b \in Addresses /\ b # a /\ heap'[b] = heap[b] /\ heap[b] # Free
               /\ inv_map[b] \in DOMAIN kw_list /\ inv_map[b] # i
               /\ kw_list'[inv_map[b]] = kw_list[inv_map[b]] /\ kw_list[inv_map[b]].kw = b
    <2>1. /\ b \in Addresses /\ heap[b] # Free
          /\ inv_map[b] \in DOMAIN kw_list /\ kw_list[inv_map[b]].kw = b
      BY DEF IInv, MapPointsBack, PointBack
    <2>2. b # NoAddress
      BY <2>1, ResultFileAssumption
    <2> QED BY <1>1, <1>4, <1>7, <2>1, <2>2
  <1>9. /\ DOMAIN inv_map \subseteq DOMAIN inv_map'
        /\ \A b \in DOMAIN inv_map : inv_map'[b] = inv_map[b]
        /\ \A b \in DOMAIN inv_map' \ DOMAIN inv_map :
               b = a /\ inv_map'[b] = i /\ HasHeaderOf(kws[n], kw_list[i])
    BY <1>7 DEF InvMapWith
  <1>10. heap'[a] = kws[n]
    BY <1>1
  <1>11. MapPointsBack'
    <2> SUFFICES ASSUME NEW b \in DOMAIN inv_map'
                 PROVE  /\ b \in Addresses /\ heap'[b] # Free
                        /\ inv_map'[b] \in DOMAIN kw_list' /\ kw_list'[inv_map'[b]].kw = b
      BY DEF MapPointsBack, PointBack
    <2>1. CASE b \in DOMAIN inv_map
      BY <1>4, <1>8, <1>9, <2>1
    <2>2. CASE b \notin DOMAIN inv_map
      BY <1>2, <1>4, <1>9, <1>10, <2>2
    <2> QED BY <2>1, <2>2
  <1>12. trusted \/ "WRITABLE" \in flags => start = kw_list[i].offset
    BY StartIsOffset
  <1>13. HeadersThere'
    <2> SUFFICES ASSUME trusted \/ "WRITABLE" \in flags, NEW b \in DOMAIN inv_map'
                 PROVE  \E m \in There(kws, length, kw_list'[inv_map'[b]].offset) :
                            HasHeaderOf(kws[m], kw_list'[inv_map'[b]])
      BY DEF HeadersThere, Headers
    <2>1. CASE b \in DOMAIN inv_map
      <3>1. \E m \in There(kws, length, kw_list[inv_map[b]].offset) :
                HasHeaderOf(kws[m], kw_list[inv_map[b]])
        BY <2>1 DEF IInv, HeadersThere, Headers
      <3> QED BY <1>8, <1>9, <2>1, <3>1
    <2>2. CASE b \notin DOMAIN inv_map
      <3>1. /\ inv_map'[b] = i /\ HasHeaderOf(kws[n], kw_list'[i])
            /\ n \in There(kws, length, kw_list'[i].offset)
        BY <1>2, <1>4, <1>9, <1>12, <2>2 DEF HasHeaderOf
      <3> QED BY <3>1
    <2> QED BY <2>1, <2>2
  <1>14. DataThere'
    <2> SUFFICES ASSUME trusted, NEW b \in DOMAIN inv_map' \ touched
                 PROVE  \E m \in There(kws, length, kw_list'[inv_map'[b]].offset) :
                            heap'[b] = kws[m]
      BY DEF DataThere, Coherent
    <2>1. CASE b \in DOMAIN inv_map
      <3>1. \E m \in There(kws, length, kw_list[inv_map[b]].offset) : heap[b] = kws[m]
        BY <2>1 DEF IInv, DataThere, Coherent
      <3> QED BY <1>8, <1>9, <2>1, <3>1
    <2>2. CASE b \notin DOMAIN inv_map
      <3>1. /\ inv_map'[b] = i /\ heap'[b] = kws[n]
            /\ n \in There(kws, length, kw_list'[i].offset)
        BY <1>2, <1>4, <1>9, <1>10, <1>12, <2>2
      <3> QED BY <3>1
    <2> QED BY <2>1, <2>2
  <1> QED BY <1>5, <1>6, <1>11, <1>13, <1>14, Frame DEF IInv

LEMMA GetKwStep ==
    ASSUME IInv, NEW i \in DOMAIN kw_list, GetKw(i)
    PROVE  IInv'
  <1>1. CASE UNCHANGED <<disk, index, instance>>
    <2>1. UNCHANGED <<kws, length, index, instance>>
      BY <1>1 DEF disk
    <2> QED BY <2>1, StutterStep
  <1>2. CASE ~UNCHANGED <<disk, index, instance>>
    <2>1. open /\ kw_list[i].kw = NoAddress /\ \E start \in StartsAt(kw_list[i].offset) : Load(i, start)
      BY <1>2 DEF GetKw, ReopenFails
    <2>2. PICK start \in StartsAt(kw_list[i].offset) : Load(i, start)
      BY <2>1
    <2>3. PICK n \in At(start), a \in {b \in Addresses : heap[b] = Free} :
              /\ heap' = [heap EXCEPT ![a] = kws[n]]
              /\ kw_list' = [kw_list EXCEPT ![i].kw = a]
              /\ \/ inv_map' = inv_map
                 \/ HasHeaderOf(kws[n], kw_list[i]) /\ inv_map' = InvMapWith(inv_map, a, i)
              /\ UNCHANGED <<disk, now, index, open, flags, read_size, touched, trusted>>
      BY <1>2, <2>2 DEF Load
    <2>4. UNCHANGED <<kws, length, index, open, flags, read_size, touched, trusted>>
      BY <2>3 DEF disk
    <2> QED BY <2>1, <2>3, <2>4, LoadedStep
  <1> QED BY <1>1, <1>2

(* What a save finds: one keyword on disk, with the header of the one that *)
(* is saved.                                                               *)
SavedTo(a, n) ==
    /\ a \in DOMAIN inv_map /\ n \in There(kws, length, kw_list[inv_map[a]].offset)
    /\ \A m \in There(kws, length, kw_list[inv_map[a]].offset) : m = n
    /\ HasHeaderOf(heap[a], kws[n])
    /\ kws' = [kws EXCEPT ![n].data = heap[a].data]
    /\ touched' = touched \ {a}
    /\ UNCHANGED <<length, now, index, open, flags, read_size, kw_list, heap, inv_map, trusted>>

LEMMA SaveFindsOne ==
    ASSUME IInv, NEW a \in Addresses, SaveKw(a), ~UNCHANGED <<disk, index, instance>>
    PROVE  \E n : SavedTo(a, n)
  <1> DEFINE offset == kw_list[inv_map[a]].offset
  <1>1. /\ open /\ "WRITABLE" \in flags /\ a \in DOMAIN inv_map
        /\ HasHeaderOf(heap[a], kw_list[inv_map[a]])
        /\ kws' = [n \in DOMAIN kws |->
                      IF n \in At(offset) THEN [kws[n] EXCEPT !.data = heap[a].data] ELSE kws[n]]
        /\ touched' = touched \ {a}
        /\ UNCHANGED <<length, now, index, open, flags, read_size, kw_list, heap, inv_map, trusted>>
    BY DEF SaveKw, ReopenFails
  <1>2. At(offset) = There(kws, length, offset)
    BY DEF At, There, Offset, DataOnDisk
  <1>3. PICK n \in There(kws, length, offset) : HasHeaderOf(kws[n], kw_list[inv_map[a]])
    BY <1>1 DEF IInv, HeadersThere, Headers
  <1>4. kws \in Seq(Keywords)
    BY DEF IInv, FileKept
  <1> HIDE DEF offset
  <1>5. \A m \in There(kws, length, offset) : m = n
    BY <1>3, <1>4, AtMostOneThere
  <1>6. n \in DOMAIN kws
    BY <1>3 DEF There
  <1>7. kws' = [kws EXCEPT ![n].data = heap[a].data]
    <2>1. DOMAIN kws = 1 .. Len(kws) /\ kws \in [1 .. Len(kws) -> Keywords]
      BY <1>4, LenProperties
    <2>2. kws' = [m \in DOMAIN kws |->
                     IF m = n THEN [kws[n] EXCEPT !.data = heap[a].data] ELSE kws[m]]
      BY <1>1, <1>2, <1>3, <1>5
    <2> QED BY <1>6, <2>1, <2>2
  <1>8. HasHeaderOf(heap[a], kws[n])
    BY <1>1, <1>3 DEF HasHeaderOf
  <1>9. SavedTo(a, n)
    BY <1>1, <1>3, <1>5, <1>7, <1>8 DEF SavedTo, offset
  <1> QED BY <1>9

LEMMA SavedStep ==
    ASSUME IInv, NEW a, NEW n, SavedTo(a, n)
    PROVE  IInv'
  <1>1. /\ kws \in Seq(Keywords) /\ length \in Nat /\ length <= Extent(kws)
        /\ Len(kws) \in Nat /\ DOMAIN kws = 1 .. Len(kws)
        /\ \A m \in 1 .. Len(kws) : kws[m] \in Keywords
    BY ListShape DEF IInv, FileKept
  <1>2. n \in 1 .. Len(kws)
    BY <1>1 DEF SavedTo, There
  <1>3. heap[a] \in Keywords
    BY DEF SavedTo, IInv, InstanceKept, MapPointsBack, PointBack
  <1>4. /\ DOMAIN kws' = 1 .. Len(kws)
        /\ \A m \in 1 .. Len(kws) :
               /\ kws'[m] \in Keywords /\ kws'[m].name = kws[m].name /\ kws'[m].size = kws[m].size
               /\ m # n => kws'[m] = kws[m]
        /\ kws'[n] = heap[a]
    <2>1. kws' = [m \in 1 .. Len(kws) |->
                    IF m = n THEN [kws[n] EXCEPT !.data = heap[a].data] ELSE kws[m]]
      BY <1>1 DEF SavedTo
    <2>2. kws[n] \in Keywords /\ heap[a].name = kws[n].name /\ heap[a].size = kws[n].size
      BY <1>1, <1>2 DEF SavedTo, HasHeaderOf
    <2>3. [kws[n] EXCEPT !.data = heap[a].data] = heap[a]
      BY <1>3, <2>2 DEF Keywords
    <2> QED BY <1>1, <1>2, <1>3, <2>1, <2>2, <2>3
  <1>5. kws' \in Seq(Keywords) /\ Len(kws') = Len(kws)
    <2>1. kws' = [m \in 1 .. Len(kws) |-> kws'[m]]
      BY <1>1, <1>4 DEF SavedTo
    <2>2. kws' \in [1 .. Len(kws) -> Keywords]
      BY <1>4, <2>1
    <2> QED BY <1>1, <2>2, WrittenOut
  <1>6. length' = length /\ length' <= Extent(kws') /\ length <= length'
    <2>1. length' = length /\ length <= length
      BY <1>1 DEF SavedTo
    <2>2. Extent(kws) <= Extent(kws') /\ Extent(kws) \in Nat /\ Extent(kws') \in Nat
      <3>1. Len(kws) + 1 \in 1 .. Len(kws) + 1
        BY <1>1
      <3> QED BY <1>1, <1>4, <1>5, <2>1, <3>1, GrowthKeeps, Positions DEF Extent
    <2> QED BY <1>1, <2>1, <2>2
  <1>7. UNCHANGED <<index, open, flags, read_size, kw_list, heap, inv_map, trusted>>
    BY DEF SavedTo
  <1>8. /\ FileKept' /\ IndexKept' /\ InstanceKept' /\ EntriesDescribe' /\ MapPointsBack'
        /\ HeadersThere'
    BY <1>1, <1>4, <1>5, <1>6, <1>7, FileStep
  <1>9. DataThere'
    <2> SUFFICES ASSUME trusted, NEW b \in DOMAIN inv_map \ touched'
                 PROVE  \E m \in There(kws', length, kw_list[inv_map[b]].offset) : heap[b] = kws'[m]
      BY <1>6, <1>7 DEF DataThere, Coherent
    <2>1. \A offset : There(kws, length, offset) \subseteq There(kws', length, offset)
      BY <1>1, <1>4, <1>5, <1>6, GrowthKeeps
    <2>2. CASE b = a
      <3>1. n \in There(kws', length, kw_list[inv_map[b]].offset)
        BY <2>1, <2>2 DEF SavedTo
      <3> QED BY <1>4, <2>2, <3>1
    <2>3. CASE b # a
      <3>1. b \in DOMAIN inv_map \ touched
        BY <2>3 DEF SavedTo
      <3>2. PICK m \in There(kws, length, kw_list[inv_map[b]].offset) : heap[b] = kws[m]
        BY <3>1 DEF IInv, DataThere, Coherent
      <3>3. m # n
        <4> SUFFICES ASSUME m = n PROVE FALSE
          OBVIOUS
        <4> DEFINE i == inv_map[a]
                   j == inv_map[b]
        <4>1. /\ i \in DOMAIN kw_list /\ j \in DOMAIN kw_list
              /\ kw_list[i].kw = a /\ kw_list[j].kw = b
          BY <3>1 DEF SavedTo, IInv, MapPointsBack, PointBack
        <4>2. kw_list[i].offset = kw_list[j].offset
          BY <3>2 DEF SavedTo, There
        <4> HIDE DEF i, j
        <4>3. /\ i \in DOMAIN kws /\ j \in DOMAIN kws
              /\ OffsetIn(kws, i) = OffsetIn(kws, j)
          BY <4>1, <4>2 DEF IInv, EntriesDescribe, Describe
        <4>4. i = j
          BY <1>1, <4>3, SamePosition
        <4> QED BY <2>3, <4>1, <4>4
      <3>4. m \in 1 .. Len(kws)
        BY <1>1, <3>2 DEF There
      <3> QED BY <1>4, <2>1, <3>2, <3>3, <3>4
    <2> QED BY <2>2, <2>3
  <1> QED BY <1>8, <1>9 DEF IInv

LEMMA SaveKwStep ==
    ASSUME IInv, NEW a \in Addresses, SaveKw(a)
    PROVE  IInv'
  <1>1. CASE UNCHANGED <<disk, index, instance>>
    <2>1. UNCHANGED <<kws, length, index, instance>>
      BY <1>1 DEF disk
    <2> QED BY <2>1, StutterStep
  <1>2. CASE ~UNCHANGED <<disk, index, instance>>
    BY <1>2, SaveFindsOne, SavedStep
  <1> QED BY <1>1, <1>2

LEMMA ModifyStep ==
    ASSUME IInv, NEW a \in Addresses, NEW kw \in ChangedKw(a), Modify(a, kw)
    PROVE  IInv'
  <1>1. /\ UNCHANGED <<kws, length, index, open, flags, read_size, kw_list, inv_map, trusted>>
        /\ open /\ heap[a] # Free /\ heap' = [heap EXCEPT ![a] = kw]
        /\ touched' = touched \cup {a}
    BY DEF Modify, disk
  <1>2. heap \in [Addresses -> Keywords \cup {Free}]
    BY DEF IInv, InstanceKept
  <1>3. heap[a] \in Keywords
    BY <1>1, <1>2
  <1>4. kw \in Keywords
    BY <1>3 DEF ChangedKw, Keywords
  <1>5. kw # Free
    BY <1>4 DEF Keywords, Free, Names
  <1>6. InstanceKept'
    BY <1>1, <1>2, <1>4 DEF IInv, InstanceKept
  <1>7. EntriesDescribe' /\ HeadersThere'
    BY <1>1 DEF IInv, EntriesDescribe, HeadersThere
  <1>8. MapPointsBack'
    BY <1>1, <1>2, <1>5 DEF IInv, MapPointsBack, PointBack
  <1>9. DataThere'
    <2> SUFFICES ASSUME trusted, NEW b \in DOMAIN inv_map \ touched'
                 PROVE  \E n \in There(kws, length, kw_list[inv_map[b]].offset) : heap'[b] = kws[n]
      BY <1>1 DEF DataThere, Coherent
    <2>1. b \in DOMAIN inv_map \ touched /\ b # a
      BY <1>1
    <2>2. heap'[b] = heap[b]
      BY <1>1, <1>2, <2>1 DEF IInv, MapPointsBack, PointBack
    <2> QED BY <2>1, <2>2 DEF IInv, DataThere, Coherent
  <1> QED BY <1>1, <1>6, <1>7, <1>8, <1>9, Frame DEF IInv

(* Keywords are freed: the map forgets those that it knew.                 *)
LEMMA FreeStep ==
    ASSUME IInv, NEW S, FreeKeywords(S), open,
           UNCHANGED <<kws, length, index, open, flags, read_size, trusted>>
    PROVE  IInv'
  <1> DEFINE freed == Cached(S)
  <1>1. /\ heap' = [a \in Addresses |-> IF a \in freed THEN Free ELSE heap[a]]
        /\ kw_list' = [i \in DOMAIN kw_list |->
                          IF i \in S THEN [kw_list[i] EXCEPT !.kw = NoAddress] ELSE kw_list[i]]
        /\ touched' = touched \ freed
        /\ inv_map' = [a \in DOMAIN inv_map \ freed |-> inv_map[a]]
    BY DEF FreeKeywords
  <1>2. \A i \in S : kw_list[i].kw \in Addresses => kw_list[i].kw \in freed
    BY ResultFileAssumption DEF Cached
  <1> HIDE DEF freed
  <1>3. /\ kw_list \in Seq(Entries) /\ DOMAIN kw_list = 1 .. Len(kw_list) /\ Len(kw_list) \in Nat
        /\ heap \in [Addresses -> Keywords \cup {Free}]
    BY LenProperties DEF IInv, InstanceKept
  <1>4. \A i \in DOMAIN kw_list :
           /\ kw_list'[i] \in Entries
           /\ kw_list'[i].size = kw_list[i].size /\ kw_list'[i].offset = kw_list[i].offset
           /\ i \notin S => kw_list'[i] = kw_list[i]
    <2>1. \A i \in DOMAIN kw_list : kw_list[i] \in Entries
      BY <1>3, ElementOfSeq
    <2> QED BY <1>1, <2>1 DEF Entries
  <1>5. DOMAIN kw_list' = DOMAIN kw_list
    BY <1>1
  <1>6. InstanceKept'
    <2>1. kw_list' \in Seq(Entries)
      <3>1. kw_list' = [i \in 1 .. Len(kw_list) |-> kw_list'[i]]
        BY <1>1, <1>3
      <3>2. kw_list' \in [1 .. Len(kw_list) -> Entries]
        BY <1>3, <1>4, <3>1
      <3> QED BY <1>3, <3>2, WrittenOut
    <2>2. heap' \in [Addresses -> Keywords \cup {Free}]
      BY <1>1, <1>3
    <2> QED BY <2>1, <2>2 DEF IInv, InstanceKept
  <1>7. EntriesDescribe'
    <2>1. ASSUME Describe(kw_list, kws, read_size) PROVE Describe(kw_list', kws, read_size)
      BY <1>4, <1>5, <2>1 DEF Describe
    <2> QED BY <2>1 DEF IInv, EntriesDescribe
  <1>8. ASSUME NEW a \in DOMAIN inv_map'
        PROVE  /\ a \in DOMAIN inv_map /\ a \notin freed /\ a \in Addresses
               /\ inv_map'[a] = inv_map[a] /\ heap'[a] = heap[a] /\ heap[a] # Free
               /\ inv_map[a] \in DOMAIN kw_list /\ kw_list[inv_map[a]].kw = a
               /\ kw_list'[inv_map[a]] = kw_list[inv_map[a]]
    <2>1. a \in DOMAIN inv_map /\ a \notin freed /\ inv_map'[a] = inv_map[a]
      BY <1>1
    <2>2. /\ a \in Addresses /\ heap[a] # Free
          /\ inv_map[a] \in DOMAIN kw_list /\ kw_list[inv_map[a]].kw = a
      BY <2>1 DEF IInv, MapPointsBack, PointBack
    <2>3. inv_map[a] \notin S
      BY <1>2, <2>1, <2>2
    <2> QED BY <1>1, <1>4, <2>1, <2>2, <2>3
  <1>9. MapPointsBack'
    BY <1>5, <1>8 DEF MapPointsBack, PointBack
  <1>10. HeadersThere'
    <2> SUFFICES ASSUME trusted \/ "WRITABLE" \in flags, NEW a \in DOMAIN inv_map'
                 PROVE  \E n \in There(kws, length, kw_list'[inv_map'[a]].offset) :
                            HasHeaderOf(kws[n], kw_list'[inv_map'[a]])
      BY DEF HeadersThere, Headers
    <2>1. \E n \in There(kws, length, kw_list[inv_map[a]].offset) :
              HasHeaderOf(kws[n], kw_list[inv_map[a]])
      BY <1>8 DEF IInv, HeadersThere, Headers
    <2> QED BY <1>8, <2>1
  <1>11. DataThere'
    <2> SUFFICES ASSUME trusted, NEW a \in DOMAIN inv_map' \ touched'
                 PROVE  \E n \in There(kws, length, kw_list'[inv_map'[a]].offset) :
                            heap'[a] = kws[n]
      BY DEF DataThere, Coherent
    <2>1. a \in DOMAIN inv_map \ touched
      BY <1>1, <1>8
    <2>2. \E n \in There(kws, length, kw_list[inv_map[a]].offset) : heap[a] = kws[n]
      BY <2>1 DEF IInv, DataThere, Coherent
    <2> QED BY <1>8, <2>2
  <1> QED BY <1>6, <1>7, <1>9, <1>10, <1>11, Frame DEF IInv

-----------------------------------------------------------------------------
LEMMA StepKeeps ==
    ASSUME IInv, [Next]_vars
    PROVE  IInv'
  <1>1. CASE Simulator
    <2>1. CASE Tick
      <3>1. UNCHANGED <<kws, length, index, instance>>
        BY <2>1 DEF Tick, disk
      <3> QED BY <3>1, StutterStep
    <2> QED BY <1>1, <2>1, GrowStep, RewriteStep DEF Simulator
  <1>2. CASE Opening
    BY <1>2, OpenStep, FastOpenStep DEF Opening
  <1>3. CASE Client
    <2>1. CASE Close \/ \E i \in DOMAIN kw_list : IndexFloadKw(i)
      <3>1. UNCHANGED <<kws, length, index, instance>>
        BY <2>1 DEF Close, IndexFloadKw, ReopenFails, disk
      <3> QED BY <3>1, StutterStep
    <2>2. CASE LoadWells
      <3>1. /\ FreeKeywords(DOMAIN kw_list) /\ open
            /\ UNCHANGED <<kws, length, index, open, flags, read_size, trusted>>
        BY <2>2 DEF LoadWells, disk
      <3> QED BY <3>1, FreeStep
    <2>3. ASSUME NEW first \in DOMAIN kw_list, NEW last \in DOMAIN kw_list, Clear(first, last)
          PROVE  IInv'
      <3>1. /\ FreeKeywords(first .. last) /\ open
            /\ UNCHANGED <<kws, length, index, open, flags, read_size, trusted>>
        BY <2>3 DEF Clear, disk
      <3> QED BY <3>1, FreeStep
    <2>4. ASSUME NEW i \in DOMAIN kw_list, GetKw(i) PROVE IInv'
      BY <2>4, GetKwStep
    <2>5. ASSUME NEW a \in Addresses, SaveKw(a) PROVE IInv'
      BY <2>5, SaveKwStep
    <2>6. ASSUME NEW a \in Addresses, NEW kw \in ChangedKw(a), Modify(a, kw) PROVE IInv'
      BY <2>6, ModifyStep
    <2> QED BY <1>3, <2>1, <2>2, <2>3, <2>4, <2>5, <2>6, DiscardStep, WriteIndexStep DEF Client
  <1>4. CASE UNCHANGED vars
    <2>1. UNCHANGED <<kws, length, index, instance>>
      BY <1>4 DEF vars, disk
    <2> QED BY <2>1, StutterStep
  <1> QED BY <1>1, <1>2, <1>3, <1>4 DEF Next

LEMMA InductiveInvariant == Spec => []IInv
  <1>1. Init => IInv
    <2> SUFFICES ASSUME Init PROVE IInv
      OBVIOUS
    <2>1. kws \in Seq(Keywords) /\ length = Extent(kws)
      BY KeywordsAssumption DEF Init
    <2>2. FileKept
      <3>1. Len(kws) + 1 \in 1 .. Len(kws) + 1
        BY <2>1, ListShape
      <3>2. Extent(kws) \in Nat
        BY <2>1, <3>1, Positions DEF Extent
      <3> QED BY <2>1, <3>2 DEF FileKept
    <2>3. <<>> \in Seq(Entries) /\ DOMAIN <<>> = {}
      BY EmptySeq
    <2>4. heap \in [Addresses -> Keywords \cup {Free}]
      BY DEF Init
    <2>5. InstanceKept
      BY <2>3, <2>4 DEF Init, InstanceKept
    <2>6. IndexKept
      BY <2>3 DEF Init, IndexKept, NoIndex
    <2>7. EntriesDescribe /\ MapPointsBack /\ HeadersThere /\ DataThere
      BY <2>3 DEF Init, EntriesDescribe, MapPointsBack, PointBack, HeadersThere, Headers, DataThere
    <2> QED BY <2>2, <2>5, <2>6, <2>7 DEF IInv
  <1>2. IInv /\ [Next]_vars => IInv'
    BY StepKeeps
  <1> QED BY <1>1, <1>2, PTL DEF Spec

(* For files of any length, keywords of any size and any number of File    *)
(* instances one after the other: a keyword that was loaded, and that the  *)
(* client did not change, is the one on disk at its offset.                *)
THEOREM CacheStaysCoherent == Spec => []CacheCoherent
  <1>1. IInv => CacheCoherent
    BY DEF IInv, DataThere, Coherent, CacheCoherent, At, There, Offset, DataOnDisk
  <1> QED BY <1>1, InductiveInvariant, PTL

(* Whatever the client saves, with or without an index that is trusted: a  *)
(* save changes the data of the one keyword that the saved one was loaded  *)
(* from.                                                                   *)
THEOREM SavesWhereItLoaded == Spec => SavesInPlace
  <1> DEFINE InPlace ==
          (kws' # kws /\ open) =>
              \/ \E kw \in Appended : kws' = Append(kws, kw)
              \/ \E n \in DOMAIN kws, a \in DOMAIN inv_map :
                     /\ n \in At(kw_list[inv_map[a]].offset)
                     /\ HasHeaderOf(heap[a], kws[n])
                     /\ kws' = [kws EXCEPT ![n].data = heap[a].data]
  <1>1. IInv /\ [Next]_vars => InPlace
    <2> SUFFICES ASSUME IInv, [Next]_vars, kws' # kws, open PROVE InPlace
      OBVIOUS
    <2>1. Grow \/ \E a \in Addresses : SaveKw(a)
      BY DEF Next, Simulator, Opening, Client, Tick, Rewrite, Open, FastOpen, Close, Discard,
         WriteIndex, LoadWells, GetKw, Load, ReopenFails, IndexFloadKw, Modify, Clear, vars, disk
    <2>2. CASE Grow
      BY <2>2 DEF Grow
    <2>3. ASSUME NEW a \in Addresses, SaveKw(a) PROVE InPlace
      <3>1. ~UNCHANGED <<disk, index, instance>>
        BY DEF disk
      <3>2. PICK n : SavedTo(a, n)
        BY <2>3, <3>1, SaveFindsOne
      <3>3. n \in DOMAIN kws /\ n \in At(kw_list[inv_map[a]].offset)
        BY <3>2 DEF SavedTo, There, At, Offset, DataOnDisk
      <3> QED BY <3>2, <3>3 DEF SavedTo
    <2> QED BY <2>1, <2>2, <2>3
  <1> QED BY <1>1, InductiveInvariant, PTL DEF Spec, SavesInPlace

=============================================================================
