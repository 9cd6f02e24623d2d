# A verification of resdata in TLA+

resdata reads, holds and writes the result files of a reservoir simulator:
grids, restart and summary files.  It is a C++ library (`src/lib/resdata`,
`src/lib/util`, `src/lib/geometry`) with a Python package on top.  There are no
threads and no messages in it.  What is hard is state that is kept in two
places: an index of a file beside the file, a cached list beside the mask it was
made from, a map beside its inverse, a cursor beside the list it walks.  Each
is updated by a dozen operations that a client calls in any order, some of them
failing half way, while the simulator that writes the files may still be
running.  The modules here model those pieces of state and every operation that
touches them.

Paths below are relative to `src/lib/resdata/` unless they begin with `src/`.

## 1. The system

| Component | State | Operations | What makes it correct |
|---|---|---|---|
| Region selection (`rd_region.cpp`, `rd_box.cpp`) | a mask over the cells; three lists of indices made from it on demand, two flags that say whether they are current | some thirty ways to select, set operations with another region, reset, queries, keyword operations over the selected cells | a list that is handed out enumerates the mask; the two lists for active cells pair up |
| Active cell numbering (`rd_grid.cpp`, `rd_coarse_cell.cpp`) | `active` of each cell, `index_map` and `inv_index_map` for matrix and fractures, coarse groups with their own record of active cells | load, `rd_grid_reset_actnum`, `rd_grid_alloc_copy` | the maps are inverse to one another, dense, a coarse group counts as one cell |
| Result files (`rd_file.cpp`, `rd_file_view.cpp`, `rd_file_kw.cpp`) | an index (name, size, offset) of the keywords of a file, a cache of those loaded, a map from loaded keyword to index entry, flags, the stream; on disk the data file and an index file | open, fast open, write index, get, save, free, clear, well loading, close | a cached keyword is what is on disk; saving writes over the keyword it was loaded from |
| Views and report steps (`rd_file_view.cpp`, `rd_file_view_pybind.cpp`, `rd_file_pybind.cpp`) | a list of keywords of a file and an index by name of it | block views, restart views by report step, date, days; `restart_get_kw` | the step found is the one the structure of the file defines |
| Summary data (`rd_sum_data.cpp`, `rd_sum_file_data.cpp`, `rd_unsmry_loader.cpp`) | time steps of each file, an index from report step to range of steps, files of a chain of restarts, where each is cut off | write, read whole or through the loader, join with a history, search by time, by report step | one ordered timeline; searches find the first step; report steps are numbered alike by all paths |
| Summary headers (`rd_smspec.cpp`, `smspec_node.cpp`) | nodes, an index by key, by position, by well, group, region, block; for a history a mapping from the columns of the run to its own | add a node while writing, read a header, write it | every key leads to its node and every node to its column of the data |
| Summary cases (`rd_sum.cpp`, `rd_sum_vector.cpp`, `src/python/resdata/summary/rd_sum.py`) | a header and data, the restart case | open, write, resample, values at a time or between steps, vectors, frames, searches for a value | a key has at a step the value that the file of that step has for it; all ways of asking for a value agree |
| Grid geometry and files (`rd_grid.cpp`) | cells, corners, local grids and their parents, connections, units | read, copy and write EGRID and GRID; GRDECL; cell of a point | what is written is read back; a local grid finds its host; a connection keeps its number; a point is in one cell, and found |
| Fortran records (`FortIO.cpp`) | a stream of records with their length before and after, open for reading, writing, both or appending | read and write a record, skip, seek, truncate, close and reopen | a reader never leaves a record half read |
| Keywords (`rd_kw.cpp`, `rd_kw_functions.cpp`, `rd_kw_grdecl.cpp`) | a typed array with a header | slices, arithmetic, copies, reading and writing in blocks or as text, spreading over a grid, mending of regions | what is written is read back, and nothing is read of half a keyword |
| Layers and fault blocks (`layer.cpp`, `fault_block*.cpp`) | cells with values, edges where blocks end, barriers, a sum over all cells; blocks by place and a map from ids to places | set, flood fill, collect and outline a block, scan, load, delete | blocks are the connected components, map and vector agree, no pointer outlives its layer |
| NNC (`nnc_info.cpp`, `nnc_vector.cpp`) | vectors of connections, by lgr number | add, lookup | the index finds the vector of the grid |
| Wells (`well_*.cpp`) | time lines of well states, connections by grid, segments and branches | load a unified or a single restart file | one state for each report step that lists the well, made of the arrays of the right grid; every branch has a start |
| Gravimetry, subsidence (`rd_grav*.cpp`, `rd_subsidence.cpp`, `rd_grid_cache.cpp`) | surveys by name, densities by PVT region, a cache of the grid | set densities, add a survey by one of five methods, evaluate for a region | each cell of the region counts once, with its own mass, volume and pore volume |
| File names (`rd_util.cpp`, `rd_sum.cpp`) | a directory | the type and report step of a file from its name, lists of files, the files of a case | what was written last is what is loaded; header and data go together |
| Containers (`src/lib/util`) | vectors with a default value, hash tables, lists of strings | get, set, resize, insert | size, content and default agree |
| Geometry (`src/lib/geometry`) | points, polygons, surfaces | containment, intersection, regions of points | a point is in, on or outside a polygon |
| Utilities, applications, Python package, viewer | see PROJECT.json | | |

How they interact.  Everything is a call in one thread; shared state is
reached through pointers.  A `rd_file` owns the keywords that its views hand
out, and its views share its index entries (`rd_file_kw`) and its stream.  A
region reads the maps and the number of active cells of its grid, the latter
once, when it is allocated.  The wells are loaded from views of a file and free
all keywords of the file when they are done.  A summary case reads its data
through a `rd_file`, whole or by the columns of a loader, and holds the files of
the cases it was restarted from by shared pointers.  The simulator is the one
actor that is really concurrent: it appends to files that are open, and replaces
them.  The Python package wraps all of it and keeps parents alive by references.

What is hard, with its lines, is the list of hazards in `PROJECT.json`; in short:

- caches and their flags: lists of a region, keywords of a file, index files,
  the record of a coarse group;
- maps with inverses rebuilt by hand: `index_map`/`inv_index_map`,
  `kw_index` and `inv_map` of a file, the index from report steps to ranges;
- positions that belong to one list used in another: the number of a keyword in
  a view, in the file, among its namesakes; internal indexes of a summary;
- a file that grows, is replaced, or ends in the middle of a keyword; a directory
  with the files of several writes of a case;
- the same value computed by several functions, with their own rules at the ends,
  for rates and for flat parts;
- half done operations: a keyword that is cached before its header is checked,
  a report step without data, a survey whose second phase fails, a well state
  that is appended before the next one throws;
- loops whose exit depends on data: the search for a report step.

## 2. The modules and the code

State variables and operators have the names of the fields and functions they
stand for; `map` in `PROJECT.json` gives the lines of each.  One call of the
library is one action, with everything the call changes.  Loops are cut into
steps where what they change is looked at half way or where their end is a
property: the two searches of the summary, the recursive walks over a layer, the
scan and the load of fault blocks.

### Region, and its abstraction Selection

`active_mask`, the lists, the flags and `preselect` are those of
`rd_region_struct`.  `answer` is the last list a client was given.  `stale` is a
history variable: a polygon selection has changed the mask while a list was
valid.

- `SelectByKeyword`, `SelectByPosition`, `SelectByGeometry` are the selecting
  functions, grouped by their input.  Each ends in `Replace`, which sets the mask
  and clears both flags, as the functions do.  The keyword functions take global
  and active keywords (`IsGlobal`); a float keyword is compared with the limit
  itself and an integer one with the limit cut to an integer (`Truncated`), which
  is what the cast in the code does.
- `CombineRegions` are copy, select all, invert, reset and the set operations.
- `Query` are the three lists of indices; `EnsureGlobal`/`EnsureActive` build
  them if the flag is not set.
- `SelectByPolygon` changes the mask without clearing a flag.

Grid data are constants: the index maps, depth, volume and thickness of each
cell, in halves.  Geometry that is floating point (planes, cylinders, polygons)
is a choice of an arbitrary set of cells: nothing is claimed of which cells they
contain.

`Selection` is what the documentation at the head of `rd_region.cpp` promises: a
set of cells, and queries that list that set in order.  It has no lists and no
flags.

### GridIndex

The numbering of active cells.  `UpdateIndex` is `rd_grid_update_index`: the
coarse groups collect their active members, the cells outside take an index in
order, a group takes one where its first member stands, and the inverse map is
written for cells and groups.  `Load`, `ResetActnum` and `AllocCopy` differ in
what is left from before: after a reset the groups still have the record of
active cells of the earlier actnum, because `rd_coarse_cell_reset_active_index`
(`rd_coarse_cell.cpp:233`) resets the indices only; a copy has new groups.
`status` is "aborted" after `util_abort` and "undefined" after a write before
the start of a vector.

### GridFile

Extends GridIndex with what surrounds the numbering: `lgrs` is `LGR_list` with
the parent of each, `cell_lgr` the pointers of refined cells, `nnc` the connections
of each grid, `unit`, `axes` and `scale` the units.  `dir` has a file of each kind,
with a section for each grid.  `LoadCase` and `LoadFile` build the main grid and its
local grids in the order of the file and install each in its host; `WriteEGRID`
and `WriteGRID` write them; `CopyGrid` is `rd_grid_alloc_copy`, with the pointers of
the original until the copied local grids are installed; `SetActnum` composes the
rebuild of GridIndex with what it leaves stale; `AddSelfNnc` is a client numbering
connections.  Coordinates are the factors they were multiplied with: a coordinate
in feet that is multiplied for metres twice is seen.  `saved` is a history
variable, the grid as it was when each file was written.

### GridGeometry and CellGeometry

`grid` is a grid with its corners: `CellsOfPillars` is `rd_grid_init_GRDECL_data_jslice`,
`CellsOfCorners` is `rd_grid_set_cell_GRID`, `CellsOfVectors` is
`rd_grid_alloc_regular`.  `coord` is `coord_kw`, the pillars a grid keeps; a copy has
none, and `coord_kw(g)` leads new ones through the ends of a column.  `WriteEGRID` and
`WriteGRID` write and `LoadSaved` loads, with or without the map axes, so that corners
go there and back through `Transform` and `Invtransform`.  `FindXYZ`, `FindXY` and
`FindDepth` are the searches, which change nothing that a later call sees
(`visited` is cleared by each).  `saved` is a history variable.

`CellGeometry` is what a search asks of one cell: on which faces a point is, whose the
points of a face are (`on_cell_face`), what is inside (`concave_cell_contains`), the
volume, and polygons.  Coordinates are integers, and volumes are multiplied by 6 or
216 so that they are too.  The code compares sums of areas and volumes with a
tolerance; here they are compared exactly, for areas by the directions of the
vectors (`Along`).

`CellsTile` is about grids that fill a box (`Fills`): cells that are not folded, whose
neighbours share corners, with sides in those of the box.  It is defined from the
corners only, by other means than the search.

### ResultFile

One file on disk, one `rd_file`, one index file, one simulator.  A keyword takes
one unit for its header and `size` units of data, so a file that is cut short in
a header or in data is told apart.  `heap` is memory: addresses are used again
when a keyword is freed, which is why `inv_map` could go wrong.

- Simulator: `Tick`, `Grow` (append a keyword, in units, so that a keyword may
  be half there), `Rewrite` (replace the file).
- `Open` scans the file; `FastOpen` takes the index file if it is not older than
  the file; `WriteIndex` cuts names at a blank as `fscanf("%s")` reads them back.
- `GetKw` and `IndexFloadKw` load a keyword if it is not cached: the seek may
  fail silently (`StartsAt`), the header may differ from the index (the keyword
  is then cached, and the exception leaves it out of the inverse map).
- `SaveKw` looks the address up and writes at the offset of the entry.
- `Modify` is the client changing a keyword it holds; `Clear`, `Discard`,
  `LoadWells`, `Close` free.

`touched` and `trusted` are history variables: what a client has changed since
it was loaded or saved, and whether the index was made of the file that is there.

### FileView, and its abstraction RestartSteps

Every sequence of keywords up to a bound is a file (`Scan` adds a keyword before
the first view is taken), every block view of it, and of views of it, is an
action, with the index by name that the view builds.  `FindBlock` is the template
of `rd_file_view.hpp`: two index lists walked with one cursor.  `RestartSteps`
defines the same answers by the structure of the file: a step is what lies
between one SEQNUM and the next, its header is the first INTEHEAD in it.
`FileView` has indexes, positions and cursors; `RestartSteps` has contents only.

### WellInfo and WellSegments

`WellInfo` extends FileView: a client opens a restart file and loads its wells
through views, block by block.  The value of a keyword is the block of data it is
of, so that an array taken from another step or another local grid is seen in the
wells made of it.  `LoadRstfile` is `load_rstfile`: a unified file by
`AddUNRSTWells`, one SEQNUM after the other, a single one by its report step; each
`AddWell` appends at once, and what was appended stays when a later well throws.
What the files say is defined beside it by their blocks alone (`EntriesOf`): an entry
for each well of each step, and the property asks the states for these entries.
`WellFilesAssumption` is what the simulator writes and the code relies on.  The global
part of a step comes first, and has each array that a local grid has, apart from the
name LGR: the code does not cut the global part off from the parts of the local grids,
so an array that only those have would be read for the global one.  Each step of a
unified file begins with SEQNUM, and a single restart file is one step.

`WellSegments` has the pure parts: connections from ICON, the fracture layers, the
segments in use, which of them begins a branch.  Names, positions and parts of a
step are looked up as the code does, through the n-th local grid.

### Keyword and KeywordFile

`Keyword` has the formats: records with a mark before and after, blocks of
`NumericBlock` (1000 in the code) or `CharBlock` (105) elements, lines of columns,
headers of the name, size and type; a file is a sequence of words, or of tokens if
formatted.  `KeywordFile` is a stream in one of four modes: `Open`, `Close`,
`fclose_stream`, `fopen_stream`, `SeekTo`, `ftruncate`, `fwrite`, `fread`, `fskip`,
`fseek_kw`, `fread_indexed`, and `Load`, which reads where an index says.  `LoseTail`
cuts the file anywhere between two calls, also under an open reader: the writer
was stopped, or the disk was full.  `content` and `halves` are history variables:
what was written and is whole, or half there.

### KeywordCalls and Grdecl

Two keywords and a text file.  Actions are the operations of `rd_kw.py` and what
they call: resize, names, slices with any step, assignment to slices, copies,
in-place arithmetic with a keyword or a number, `scatter_copy`, `create_actnum`,
`fix_uninitialized`, and `write_grdecl`, `fseek_grdecl`, `read_grdecl`.  `Grdecl` is
the text: names, numbers, repeats, comments and slashes as tokens of one or more
cells, because the walk back of the search (`rd_kw_grdecl_fseek_next_kw`) goes by
bytes.  Real numbers are halves; division and roots are exact or left out.

### SummaryData

A file is its keywords (`SEQHDR` is 0, a ministep is the time at which it ends)
or its time steps; times in a file rise (`SimulatorAssumption`), as the loader of a
unified file takes for granted.  `Fread` and `AddCase` take a file read whole or through the
loader; `BuildIndex` sorts the files of a chain by their start and cuts each
where the next begins.  `index` is `rd_sum_data::index`.  `Garbage` stands for the
uninitialised fields of a node of length 0.  The binary search and the search
for a report step are loops: `call` holds their local variables and `Search`,
`CompareReport` are one round of each.

Values are not in it: they are SummaryCase's.

### SummaryNode, SummaryHeader, SummaryCase, SummaryValues

`SummaryNode` is a variable: its kind from the letters of its keyword
(`identify_var_type`), its keys, whether it is a rate or a total, the order in which
variables are written, and the way back from a key to the arguments of
`add_variable`.  A key is a tuple of its parts: what is compared and taken apart is
the parts, and two strings are equal when their parts are.  `SummaryHeader` is
`rd_smspec`: the maps from keys, the index from variables to columns, the columns
written and read, and the mapping from a run to its history (`alloc_mapping`).

`SummaryCase` is one client: `Create`, `AddVariable`, `AddTStep`, `SetValue`, `Save`,
`Close`, `LoadCase`, `Resample` and `FromPandas` (through `pandas_frame`).  `disk` has
the cases, among them one that a simulator wrote, with a key twice, a local grid,
columns that are not read and a step of another size.  A value is a number, a
tuple of default or a fraction of two steps; `Interpolated` is
`init_interp_from_sim_time` with `vector_iget`.  A case may have dates in place of
times (`TimeOf`, with `DateHours` as what a date is in hours); when the header of a
history cannot be read nothing of the case is loaded, and a history without steps is
left out (`FilesFrom`).  What a resampled step has where nothing is written is what was
there before (`ResampledSteps`).  `SummaryValues` adds the queries:
values in rows, in frames and one by one, solutions, the first step above a limit.
They change nothing, so they are operators and the properties quantify over their
arguments.

### Gravity

`surveys`, `densities`, the cache of the grid (`gi`, `volume`) and `region` are those
of `rd_grav_struct`, `rd_subsidence_struct` and `rd_grid_cache`.  `Change` are the
calls that set a density, add a survey by `RPORV`, `PORMOD`, `FIP`, `RFIP` or pressure,
renumber the grid or select a region of it; `Ask` are the evaluations, and a client
who asks for the indices of the region.  A region has no indices until it is first
asked, by a client or by an evaluation, and the volumes of cells are read at the first
evaluation that needs them: both take the numbering that the grid has at that moment
(`Listed`, `VolumesRead`).  An evaluation that is sent past the end of the arrays is
`undefined`; past the end of the grid's volumes any volume is read.  An evaluation is the function from places to terms that the code adds up, without
the factor that depends on the distance, so that a cell that counts twice, with the
volume of another, or not at all is seen and rounding is not.  `given` and `told` are
history variables: the densities a client gave (none until it gives one, which is
where they part from `default_density`), and what each survey was made of; `grid` in
`volume` and `region` is the numbering they were made in.

### CaseFiles

A directory of names.  `Words` is what `rd_inspect_extension` knows, `filename` what
`rd_alloc_filename` makes, `rd_select_filelist` the lists of files.  `Write` is
`rd_sum_fwrite` with the times of its files, `Put` and `Delete` are others at work,
`SearchFiles` is `rd_alloc_summary_files`.  A base name is a model value, and `Beginning`
says which begin with which.  Time goes on by whole seconds, and two writes may
fall into one.  The specification is `FilesSpec`.

### Layer and LayerCalls

A layer is a record with the fields of `layer_struct`: the values of the cells,
what each cell keeps on its four edges, barriers, the sum.  `Layer` has what
the functions of `layer.cpp` compute, as operators: `IsetCellValue` with the
edges it sets and cancels, `AddIjBarrier`, the staircases of
`layer_add_interp_barrier` (`Off` is the distance to the line but for a factor;
where both sides are equally near, either may be taken, because rounding decides;
barriers only ever come to be, so a way is the set of its sides),
`FollowEdge` for one step round a block.  The `active` flags are not in it.

`LayerCalls` is a client with one layer, `client_layer`.  `Set`, `Replace`, `Assign` and
`AddInterpBarrier` are the calls that end at once.  The three recursive functions
are walks, `walk` the one that runs or ran last: `Visit` and `Leave` are the calls and
returns of `layer_update_connected_cells` and of `BlockTracer`, with `walk.stack` as
their stack, `Follow` is one call of `layer_trace_block_edge__`.  `laid` and
`overwritten` are history variables: the sides of cells that barriers were put on,
in the way a client would draw them, and the cells a value was taken from.  The
specification is `LayerSpec`.

### FaultBlocks

`blocks` and `block_map` are the vector and the map of
`fault_block_layer_struct`; `heap` is every block there is, `attached` its
pointer back.  `AddBlock`, `DelBlock`, `InsertBlockContent`, `AddCell`,
`AddBarrier` are the calls of a client, `Free` is the destructor.  `ScanLayer`
and `ScanKw` go on with `ScanBlock`, `LoadKw` with `LoadCell`: a block found, or a
cell loaded, is a step.  What `layer_trace_block_content` collects is the
component of the cell (`Piece`), in row order (`InRowOrder`): the order in which the
recursion meets cells is left out.  A cell outside the grid is on the
lists of i and j when `rd_grid_get_global_index3` refuses it (`Listed`,
`Accepted`).

## 3. The runs

| Run | What it shows | Bounds | Distinct states |
|---|---|---|---|
| `regions` | cached lists agree with the mask, and Region implements Selection but for polygons; densities are weighed as given, evaluations are over the cells of the region | a 2x1x2 grid with an inactive cell, all operations in any order (18,752 states); four models of four cells, three calls, in one of them four (259,852) | 278,604 |
| `region_polygon` | with polygons Region does not implement Selection: a client is given the list of an earlier selection (expected violation) | as above | |
| `gravity_density` | a phase without a default is weighed with 0 (expected violation) | as above | |
| `gravity_grid` | a grid renumbered after the surveys changes what is summed (expected violation) | as above | |
| `grid_file` | index maps, local grids and connections come back from files; cells share out space, places are found, corners come back | four cells and two local grids, one write, three renumberings; ten grids of up to eight cells with places, four changes | 64,242 |
| `files` | cache, map of pointers, index file and disk agree, with a simulator at work; header and data of a case go together, the last write is loaded | two kinds of keywords, two addresses, two seconds (505,057 states); two cases, a stranger, three changes (413,502) | 918,559 |
| `wells` | report steps are those of the structure of the file; time lines, connections and branches are those of the blocks | files of four keywords with views of views; two loads of seven restart files | 271,590 |
| `summary` | indexes, the joined time line, both searches and report steps | three written steps; chains of three files | 571,480 |
| `layers` | flood fill, outline, and that the walks end; vector and map of blocks, attachment, scans, neighbours | three by three cells, two calls on a layer (214,841 states) and four on a fault block layer (220,248) | 435,089 |
| `summary_case` | a value is that of its key through save, load, history, resampling and frames, by every way of asking | two variables, two steps, one history; a case with dates, and one whose history is bad | 190,723 |
| `summary_clamps` | a case with dates in place of times is resampled before its start with the values of other variables (expected violation) | as above | |
| `keywords` | what is read was written whole; searches find the first; mending settles; text comes back | two keywords in blocks of two, one cut; two rows of three cells | 812,140 |

Why the bounds are enough.  In `regions` every pair of operations meets with a
valid and an invalid list; a list has no memory beyond the mask it was made from,
so longer histories repeat.  In `grid_file` four cells are the least with a group
that is not contiguous, a group of one cell and a cell between; two local grids, one
within the other, with a gap in their numbers, and two connections are the least
that can change places; one write is followed by any loads, copies and rebuilds.
In `files` two keywords of one name and size are the least that can be taken
for one another, two addresses the least that can be swapped, and two seconds the
least that can tell an old index from a new one.  In `wells` four keywords are the
least for two steps with headers, or one step with two; two loads are the least
that can meet in one time line, and the files have a step with two local grids in
either order, fractures, laterals, and wells that cannot be read.  In `summary` three
files are the least with one cut on both sides.  In `summary_case` two variables,
two steps and one history are the least with values between steps and on both sides
of the restart, and with columns that differ in order.  Beside them are a
case with dates that is restarted from one with times, and a history whose header is
bad: whether a header has times or dates, and whether it is read, is all that the
code asks.  Nothing is written beside these (`MaxOnDisk`).  In `keywords` blocks are of
two numbers or three strings, so that every case of a block that is empty, begun,
full and followed by another is there, and two keywords are the least for a tail of
one that is taken for the other; region keywords are of all values on two rows
of three cells, and one of twelve with a second layer.  In the models of gravity four cells, one
inactive and one a numerical aquifer, are the least with two numberings that differ
in their middle; renumberings have as many, one more and one fewer active cells; three
calls make a survey, select a region and renumber, and evaluations and lists between
them are not counted.  In a directory three
changes are two writes and a stranger between.  In `layers` three by three cells are
the least with a block that has a hole, or that touches itself at a corner; in two
calls a cell is taken from a block and another walk meets it.  In a fault block layer
three calls make a hole in the map with a block behind it, and the fourth adds,
scans or asks.

For the geometry in `grid_file` eight cells are the least with a corner inside a
grid and both ways to split on every face; the pillar through it leans and the
surface round it is nowhere flat.  Other grids have a row of four columns, of which
one may be missing, a column that is further down with a gap, a cell without height,
a twisted cell, pillars without height, vectors that are at no right angles.  Places
are corners, points on edges and faces, inside and outside; a search begins anywhere
or at cell 3.  Of the 125 points of the lattice in the box of the tilted grids the run
takes 27; with all of them it holds too.  Four changes are load, save, load, save, or
load, copy, save, load.

`regions`, `grid_file`, `files`, `layers` and `keywords` each run two machines that share no
state; `part` says which of them a behaviour is of, and the other rests where it began.

Deadlock is checked except in `grid_file`, `wells`, `keywords` and the run of summary cases: there a
client has a bounded number of calls and may stop, or the program does
(`util_abort`, a call that hangs).

Fairness is assumed in two places: `WF_vars(Loop)` of SummaryData, for the two
search loops, and `WF_vars(Loop)` of LayerCalls, for the recursive walks.  The
code is sequential: a loop that was entered goes on until it ends.  No client, and no simulator, is assumed to do anything.

## 4. What is proved

Each theorem is about the specification that the runs check, for every value of its
constants that satisfies the assumptions beside it.  The assumptions say of which
type the inputs are, and where they say more it is named here.

`Induction` has what the proofs share.  The theorems on induction of the library take
a predicate, which none of the provers can instantiate; so the lemmas here take a set,
the numbers of which a claim holds (`UpToInduction`, `SetInduction` over subsets of a
finite set), and the step of a recursion is a function (`RecursionSolved`).  With them
the loops that the models write as recursive functions, by counting, or as a least
element are proved for any length: positions in a file, numbering, connections,
sums.

### Regions

`RegionProofs`, for every size of grid and all index maps that lead somewhere
(`GridAssumption` has their types only), all keywords and every geometry:

- `RegionTypeCorrect`: `Spec => []TypeOK`
- `RegionListsCurrent`: `Spec => []ListsCurrent`
- `RegionActiveListsPaired`: `Spec => []ActiveListsPaired`
- `RegionAnswersCurrent`: `Spec => []AnswerCurrent`
- `RegionImplementsSelection`: `NumberedInOrder` implies `Spec => CacheInvisibleUnlessStale`

`IInv` is the conjunction of the first four.  None but `ActiveListsPaired` is inductive
alone: that an answer is current follows from the list being current before the query
returns it, and that a list stays current needs `stale`, the one way in which a mask
changes under a valid list.  There is a lemma per group of operations; those that end in
`Replace` share `ReplaceStep`.  Up to there a list is the list of the right set,
whatever `CellList` is.

That a region implements `Selection` needs more: that the list has the cells in order
and each once (`CellListEnumerates`, by induction over the cells the loop has
visited), and that active indices are in the order of cells (`NumberedInOrder`).  A
grid numbers its cells so, except where a coarse group takes one index for several
cells; then the active list repeats the index (section 5), and of such grids the
theorem says nothing.

### Grids and their files

`GridFileProofs`, for single and dual porosity and any number of cells, coarse groups,
local grids, connections and files, with loads, copies, writes and new active cells in
any order and any number:

- `NumberingRoundTrips`: `GridSpec => []RoundTrip`
- `WholeGridsComeBack`: `GridSpec => []GridsComeBack`
- `ConnectionsReturn`: `GridSpec => []ConnectionsComeBack`

`GridFileAssumption` says what a file is (`IsFile`): units, scales of two axes, hosts
that begin at the first of their cells, an actnum for each cell.

Numbering is by counting: the index of a cell is the number of cells before it that
take one (`Takers`), so indices are dense and two cells have different ones.  For a
group the invariant is about its record of active cells (`RecordsKept`), because the
code goes by the first cell on record: the record outlives a reset and may hold cells
that are inactive now, and only has to hold cells of the group.

That grids come back needs `GridInv`: that the grid in memory fits (`GridFits`:
connections lead to grids that are there, no two on a list have a place and index in
common), that the numbering is that of the active cells where the record is
(`NumberedRight`), that the pointers to local grids are those that an installation
makes (`cell_lgr`), and that every file was written from a grid that fits
(`SavedFit`).  A load is then the inverse of a write, section by section, and for
connections link by link (`LinkedUpTo`): a list is written in the order of its
indices, and what is appended to one of two lists of a link leaves the other.
`BackInv` carries the properties through the steps that touch neither file nor grid.

### Result files

`ResultFileProofs`, for files of any length, keywords of any size and data, any
number of addresses and any time, with a simulator that appends and replaces:

- `CacheStaysCoherent`: `Spec => []CacheCoherent`
- `SavesWhereItLoaded`: `Spec => SavesInPlace`, an action property

`KeywordsAssumption` has the types of keywords, with a name of one word at least.
`IInv` says that entries of an index that is trusted describe the keywords of their
numbers (`EntriesDescribe`), that the map and the entries point at each other
(`MapPointsBack`: so two addresses are never saved at one position), that where an
entry of the map leads there is a keyword with its header (`HeadersThere`), also
without trust if the file is open for writing, and that what was not touched is what
is there (`DataThere`).  Positions grow from keyword to keyword (`Positions`, by
recursion over the list), so a save at one leaves the others; what is appended comes
behind all of them.

### Views

`FileViewProofs`, for files of any length, any names and values, and views of views:

- `ViewsFollowTheFile`: `Spec => StepsFound`, that is, FileView implements
  `RestartSteps`
- `KeywordsAtTheirTime`: `Spec => []KwAtTimeWhenRegular`
- `TimelinesOfReports`: `WellSpec => []TimelineOfReports`

The specification of the first two is that of FileView, by which `WellSpec` of the run
goes as long as no file is opened for its wells; opening one replaces the file and
starts over.  `FileViewAssumption` says that a keyword is a name and a value, and that `NoName` is
none of the names.  `FileInv` says that the file and the views the client works with
have their own index (`ViewFits`), and that an answer is a list of keywords of the file.

The rest of the first two is about one state.  `make_index` lists where a name is, in order
(`PlacesListed`, by induction over the list); so the n-th entry of an index is the place
with n such places before it (`NthPlace`), which is how `RestartSteps` counts.  A block
ends at the first end after it (`BlockEnds`), and a step where the next entry of the
index is (`StepEnds`).  `find_block` is by induction over the blocks (`FirstFound`): all
headers before the cursor lie before the block, as they did for the blocks before, so
that the cursor stops at the first header of the block or behind it.  Then there is a
lemma for each query (`ViewAsked`, `StepAsked`, `DateAsked`), and a step maps to the step
of the same name; entering a view, returning and scanning map to `Turn`, and
`restart_get_kw` to no step.

The third is for any blocks of data, any number of files, steps, wells and local grids
with `WellFilesAssumption`, and after any loads that went well.  A file is the sequence
of the keywords of its steps (`FlattenCut`, `FileShape`), and its SEQNUMs are the first
keywords of the steps, no other (`UnifiedSteps`).  So the view of the n-th block ends
where the n-th step does, and the first keyword of each name in it is one of the step's
global part (`BlockOfStep`, `Reads`); for a single restart file the whole file is that
view (`FileOfStep`).  A well that is read adds one state, which tells what its entry
says (`StateTells`, `WellAdded`, `StateAppended`); by induction over the wells of a step
(`WellsAdded`) and over the steps (`UnifiedAdded`) a load adds those of all its entries
(`FileAdded`).  `WellInv` is that the file is the one that is open with its index
(`Opens`), and that the time lines say what was entered, in order (`Says`), as long as
nothing raised or crashed: the n-th state of a well is that of its n-th entry.

That a keyword is at its time is by counting: were a step to begin between the i-th
INTEHEAD and the i-th keyword, the keywords that belong to i INTEHEADs would be among
the i - 1 before it (`NoStepBetween`).

### Summary data

`SummaryProofs`, for any number of files in a chain and of steps in a file, any
times, and any steps a writer adds:

- `FirstIsFound`: `Spec => []SearchFindsFirst`
- `DataIsFollowed`: `Spec => []IndexFollowsData`
- `OneTimeline`: `Spec => []TimelineJoined`
- `ReportsAreFound`: `Spec => []ReportsWhenRegular`

`SimulatorAssumption` says that the times in a unified file, and from one separate file
to the next, rise: the loader of a unified file does not sort, and a search over steps
out of order finds nothing.  Steps that a writer adds may come in any order and at equal
times.  `SummaryDataAssumption` says that a node that is not filled in has length 0,
which `CaseIndex::add` sees to.

None of the four is inductive.  `IInv` (theorem `InvariantHolds`) says that the files
are in the order of where they start and each in the order of time, that an age goes
with a start, that the index is the one of these files (`ChainOK`), and that a search has
the first step that is not before the time between its ends (`Narrowing`, in `CallOK`).
TLC has checked it on the bounds of `summary`.

The timeline is a list of lists, and offsets are where they begin (`Laid`, `Offsets`:
by induction over the files).  So an internal index is a place in the timeline
(`LookupFinds`), and the timeline is in the order of time: within a file by `ChainOK`,
from file to file because each is cut before the start of the next (`TimelineInOrder`).  The
middle of the ends of a search lies between them, hence each round keeps `Narrowing`,
and where it stops one of two steps is left.

For report steps a file is read in turns: its reports rise, so the end of a report is
where the next begins (`RangeEndFinds`); none is missing, so they count up by ones
(`ReportsByOne`) and the k-th entry of `get_time_report` is the k-th report; no step
that was cut off has a report that was kept, so that no entry is lost (`EndIsKept`).  Then
the entries of all files follow one another as the reports of the timeline do
(`ReportTimesAre`).

### Files of cases

`SummaryProofs`, for any cases with any names, any sets of reports, any files of others
and any number of writes, puts and removals:

- `FoundFilesGoTogether`: `FilesSpec => []FilesGoTogether`
- `WrittenLastIsLoaded`: `FilesSpec => []LastWriteIsLoaded`

`CaseFilesAssumption` says that a set of reports is finite, that the missing base is no
case, and that a file of somebody else with the name of a simulator's file is formatted as
that name tells.  Without the last the code cannot know better: it reads the name only.

`FilesInv` adds to the two that a file is formatted as its name tells and no later than
the clock (`DirShape`), and that the last write of a case named its files by that case,
format and reports (`LatestShape`); a search stands until a file changes.  So the
list of single files has names of one word, hence of one type and format, and the header
that decides the format is one of the two names that are looked for.  For the second: a
header of the other format is missing, so the format is that of the last write.  A unified
file written last is older than no single file, and is taken alone.  Single files
written last have four digits and are all listed; a unified file is older than they are,
and there is at least one, or nothing has to be listed.

### Layers

`LayerProofs`, for every size of grid, all values, layouts and lines, and any number of
calls in any order:

- `FillsWhatIsConnected`: `LayerSpec => []UpdatesConnected`

`LayerCallsAssumption` says of which type the inputs are: values are integers, layouts
and lines are of the grid.  The invariant is `LInv`.

Its first part says that barriers lie exactly on the sides that were drawn
(`BarriersAsLaid`): in the code a barrier is on the left or the bottom of a cell,
and `layer_cell_contact` looks at one of two cells, whereas `laid` has a side by its two
corners.  `StaircaseStraight` shows that each side of a staircase is one step along a
row or a column, whatever line it follows; `SideBetween` that two cells have one side
between them; `ContactIsOpen` puts these together.

The second part is `Flooding`, of a fill that runs.  The cells that were entered have
the new value, all others the value they had before; each that was entered had the old value and
is connected with the first; and each cell that is open to one that was entered is entered
too, or still to be tried at some depth of the stack (`Pending`).  The walk reads
values that it changes itself: a cell that has been entered no longer has the old value
because the new one differs, which the caller tests first.  At the end nothing
is pending, so what was entered has all its neighbours, and a set of cells with the
first in it that leads nowhere else has everything connected with the first
(`InContactCloses`, on the same steps as `SpreadCloses` below).

### Fault blocks

`LayerProofs` too, for every size of grid, every set of ids, keywords, added cells and
barriers, and any number of calls:

- `MapAndVectorAgree`: `Spec => []BlockMapExact`
- `NoBlockOutlivesItsLayer`: `Spec => []AttachedWhileStored`
- `NeighboursOfOneAnother`: `Spec => []NeighboursMutual`
- `ScanFindsPieces`: `Spec => []ScanPartitions`

The assumptions are those of `FaultBlocksAssumption` and `LayerAssumption`: ids
and numbers in keywords are natural numbers, a keyword has a number for each
cell.  Neither of the first two is inductive alone.  That a deleted block is detached, and
no other, needs that its pointer is in the vector once, which `BlockMapExact`
gives (`IdsDiffer`: two places never hold blocks of one id).  That a new block
finds its id free needs the map to be exact, except where the id is the next one
(`NextIdFree`).  `IInv` adds that pointers lead into the heap.  A load takes ids
from a keyword, and needs to know that what it has left is positive where it goes
on (`IdToLoad`); `CallShape` keeps that.
There is a lemma per change: a block is added, deleted, changed, all are freed.
`NeighboursMutual` is about one state and holds in any: a way from a cell to the next
leads back (`WayBack`), a barrier stands between two cells seen from either
(`ContactSymmetric`), and the cells of both blocks are known by their value.

A scan takes the first cell in row order that is not done, and all that it reaches
among those of its number.  A step from the cells reached so far adds a cell or is the
last, so that as many steps as there are cells reach everything (`SpreadCloses`), and
what is reached falls into no two parts (`SpreadConnects`): a block is a piece, and
nothing of its number is left beside it (`PieceIsWhole`).  The row order meets each cell
once (`RowOrderCells`), so a block lists its cells once (`InRowOrderLists`).  `Scanning`
is the invariant: what is done of a scan is in blocks, each cell in one.  Cells that are
connected are done together (`DoneTogether`), hence a piece that is begun is whole.

### Gravimetry

`GravityProofs`, for all models, steps, densities and renumberings that satisfy
`FilesAssumption` (a cell is active once; an array has a value for each active cell) and
`ClientAssumption`; renumberings (`Actives`) are any:

- `SurveysWeighAsGiven`: `GravitySpec => []DensitiesAsGiven`
- `EvaluationsAreOfCells`: `GravitySpec => []EvaluationsOfCells`

`DensitiesKept` is why the first holds: the vector of a phase has what was added for a
region where something was added, and elsewhere the default of a phase whose default was
given before its densities and not again after; of other phases the theorem says
nothing, and `gravity_density` shows why.  The second theorem is about evaluations for
which the numbering was that of the surveys when the region was listed and the volumes
were read (`InNumbering`), however the grid is numbered by then; without it the claim is
false (`gravity_grid`).  It needs that surveys, the cache of volumes and a region have a
value by place in the numbering on record, and each place one cell.  That the difference of two surveys is the sum of
the differences of their phases is by induction over the phases.

### What is only model-checked

The runs check each of these properties on small instances too, under the names given.
`RegionTypeCorrect`, `RegionListsCurrent` and `RegionActiveListsPaired` are the lemmas of
the others and were checked there before they were proved.

Only model-checked are:

- liveness (`CallsReturn` of LayerCalls and of SummaryData), which is out of reach of the
  prover;
- what is defined with `RECURSIVE` operators, which the prover does not take: formats of
  keywords and texts (`Keyword`, `KeywordFile`, `KeywordCalls`, `Grdecl`), and summary
  cases, whose history is a chain (`SummaryCase`, `SummaryValues`);
- what is selected from sequences with `SelectSeq`, which the prover cannot expand: the
  connections that `WellInfo` reads, and the segments and branches that hang on them
  (`ConnectionsOfGrid`, `BranchesFromStart`);
- that the outline of a block is its border (`OutlineOfBlock`): it rests on the
  topology of the plane, that one closed line of sides has an inside and an outside;
- geometry (`MCGridFile.CellsTile`, `PlacesFound`, `GeometryComesBack`), which is products
  of coordinates: non-linear arithmetic.

## 5. Where code and documentation part

With a run (`findings` in PROJECT.json):

- `rd_region.cpp:899`: a polygon selection leaves the lists valid (`region_polygon`).
- `rd_sum.cpp:723`: values beyond the ends of a case are put one place ahead, as if TIME
  were always the first variable; in a case that has dates in place of times each
  variable gets the value of the next one (`summary_clamps`).
- `rd_grav.cpp:744`: the default of a phase that was given none is 0, and regions in the
  gap are weighed with it; lines 706-709 promise a hard failure (`gravity_density`).
- `rd_grid_cache.cpp:37`: volumes, and the indices of a region that nobody asked
  for before, are taken from the grid at the evaluation, in its numbering of then;
  comments say that the grid is used during construction only (`gravity_grid`).

Without a run, met while translating.  The models do what the code does, and the
properties are stated around it.

Result files, regions, layers and summary data:

- `rd_file_kw.cpp:47`: a keyword is cached before its header is checked against the
  index; the exception of lines 33-35 comes the first time only, and the next call
  returns the keyword.
- `rd_file_pybind.cpp:528`: `restart_get_kw` uses the occurrence number of the INTEHEAD
  with the date asked for as that of the keyword; when an earlier step lacks the
  keyword, or has a second INTEHEAD, a keyword of another step is returned; lines
  551-552 say "exactly at the time @dtime".  `KwAtTimeWhenRegular` is about files whose
  steps are alike.
- `rd_sum_data.cpp:534`: files of a chain are sorted by the start of their data and by
  nothing else, so a history that begins with its run may replace it;
  `src/tests/rd_tests/test_rd_sum.py:1806` compares lengths only.  `HistoryDropped` is the
  premise of `TimelineJoined`.
- `fault_block.cpp:219`: the neighbours of a block include numbers of deleted blocks,
  which are looked up as None; `fault_block_pybind.cpp:165-166` promises blocks.
- `rd_region.cpp:1094`: `rd_region_xor` computes `mask ^= !new_mask`, the
  complement of the exclusive or; lines 1089-1092 say `A ^= B`.
- `rd_coarse_cell.cpp:238`: the value of an active cell is compared with the last
  one on record, which after `rd_grid_reset_actnum` is one of the earlier actnum,
  so that a reset aborts although all active cells of the group have one value;
  lines 261-263 require no more than that.
- `rd_sum_data.cpp:621`: of two files that have time steps of a report step the
  first is asked only, so the end of its part is returned; line 618 says "The
  last index included in report step @report_step", and
  `src/tests/rd_tests/test_rd_sum.py:2025-2026` takes the last of all.
- `layer.cpp:131`: when a cell is taken from a block, the edge of the neighbour
  that stays in it is not set again.  The outline of that block
  (`fault_block.hpp`: "Traces the outer edge of this block") may then throw or,
  in three by three cells already, go round for ever: in the code, until the stack
  is full.  `OutlineOfBlock` and `CallsReturn` are stated for
  layers in which no cell was taken from a block.
- `layer.cpp:589`: `layer_assign` clears the edges on the border too, so that an
  outline throws after it.
- `fault_block.cpp:118`: the outline is traced from the first cell of the list; for a
  block that a client made cell by cell that may be one beside a hole, and the
  outline is that of the hole.
- `fault_block.cpp:33`: a cell outside the grid stays on the lists of i and j when
  it is refused, so that the size of the block and of its list of global indices
  differ; `src/tests/rd_tests/test_fault_blocks.py` compares them.
- `fault_block.cpp:174`: inactive cells are neighbours of nobody, but active cells are
  neighbours of them: neighbours of blocks with inactive cells are not mutual.
- `rd_region.cpp:544` takes the active indices of a box for global ones; see the comment
  at line 538.
- `rd_region.cpp:334` cuts the limit to an integer for integer keywords;
  `src/python/resdata/grid/rd_region.py:515` says that elements are compared with
  the limit.
- `rd_region.cpp:150`: in a grid with coarse groups the active list repeats the
  index of a group for each of its cells.
- `rd_coarse_cell.cpp:233`: a group that is reset keeps its record, so the
  inverse map leads to the first cell of the earlier actnum
  (`rd_grid.cpp:1507-1511`), which may be inactive now; RoundTrip still holds.
- `rd_file.cpp:145`: a file opened for writing is indexed up to and including a
  keyword that is cut off.
- `rd_file_view.cpp:96`: `index_fload_kw` leaves the stream open in spite of
  `CLOSE_STREAM` (`src/lib/include/resdata/rd_file_flag.hpp:7-9`).
- `rd_file.cpp:229`: an index file is taken if it is not older than the file in
  whole seconds, so a file replaced within a second is read with an old index.
- Names with a blank are cut when an index file is read back.
- `rd_sum_file_data.cpp:676-690`: a search for a report step by time runs forever
  when a report step is missing between the first and the last.
- A report step that no file has makes `rd_sum_data_iget_report_end` answer -1,
  which `get_time_report` and `get_data_report` then use as an index.
- When a run is restarted inside a report step, the vector of report times has
  two entries for it and is longer than what is allocated.
- `rd_sum_data_lookup_time` compares with the untruncated end of a history, so
  that in an overlap the step of the history is found.
- A unified file that does not begin with SEQHDR is read differently whole and
  through the loader.

Summaries:

- `rd_sum.cpp:380`: of two headers the formatted one is taken if it is the older
  (`src/lib/util/util.cpp:1689-1691`); the comment in line 378 says "we take the
  newest."  Files of another case are listed if its name begins alike; files of an
  earlier, longer write stay and are listed; reports from 10000 on are written and not
  listed; files of one second are not told apart.
- A history is read with keys joined by ":", whatever joins those of the case.
- A NETWORK variable without a name has no key and makes loading with a history, and
  resampling, throw.  Variables of local grids are written without their grid and
  cannot be read.
- `rd_sum_file_data.cpp:517-520` multiplies days by 86400 once more, so that a value
  asked for by days is refused unless the first step is at the start of the
  simulation; the end is compared in the unit of TIME and not in days.
- A key of two regions that is joined by ":" and read as a name is classified
  otherwise than the comment in `smspec_node.cpp:83-90` says.
- Solutions (`rd_sum_data_alloc_solution`) divide by zero where two steps have one
  value; a rate that takes the value at the first step has it a second after, where it
  has the value of the next step.
- `solve_dates` counts from the start of each file, so that dates of a chain whose files
  start on different days are not those of its times.
- `rd_sum_data_get_interp_vector` empties the vector before it fills it, so that
  invalid keys at its end shorten it; the comment above it says that their elements
  are not updated.
- `smspec_node::cmp` is no order on variables of kind MISC.
- In a case that has dates in place of times a second counts as minus one unit
  (`rd_sum_file_data.cpp:274-277` asks for the length in the unit of TIME), so that every
  number of days is refused.
- A chain of restarts that comes back to itself is loaded until the stack is full.

Keywords:

- GRDECL: numbers of type DOUB are written with a D and read back without their
  exponent; comments are not recognised inside data; a number with a slash behind it
  takes the slash along; the walk back before a search looks at every second blank
  only, and in front of the first word of a file with an odd number of blanks it does
  not end.
- An assignment to a slice that goes backwards sets every element and raises then;
  assignment of a keyword to one of strings does nothing.
- Data of type MESS longer than a block are written in several records and read as
  one; a formatted file gets the header of them and then an exception.
- Formatted strings whose file is cut are read as empty ones.  What is written behind
  half a keyword is taken for its tail.
- `FortIO` accepts a file whose last record is cut, though the comment says that all
  records are checked.  A stream for writing that is closed and opened again empties
  its file.
- A long name leaves the old eight letters in the header that `rd_kw_equal` compares.
- `/=` on keywords is not defined in Python 3.

Grids and wells:

- `rd_grid.cpp:4552`: an EGRID file of a grid in feet scales the local grids, which are
  metric by then, once more (2487-2505); a GRID file gets the corners as they are,
  whatever the unit asked for, and loses the parents of nested local grids and all
  connections; the map axes are not scaled with their unit.
- The i-th ACTNUM of an EGRID file is taken for the i-th grid also when an earlier one
  has none.
- `rd_grid.cpp:2340-2350`: connections after the first one to a fracture cell are left
  out, those between matrix cells too; the comment says fracture cells only.
- A copy gives every local grid the number 0; a number that no local grid has leads to
  the first one (`lgr_index_map`).
- `rd_grid.cpp:3483`: the comment has the linear search begin at `start_index`; it begins
  at 0 (3511).
- `rd_grid_locate_depth` (`rd_grid.cpp:3907`) answers -1 above the grid and `-nz` below it,
  which is -1 too in a grid of one layer.
- The cells that searches leave out are chosen when a grid is loaded from a file:
  `rd_grid_reset_actnum` does not choose again, and a grid made of vectors has none
  until it is saved and loaded, when the cell at the origin becomes one.
- `rd_grid.cpp:4794`: pillars of a column without height are written all the same
  (`force_set`), so that after a copy slanting pillars may become vertical ones; and of
  two columns that meet at a pillar one decides.
- A point on the side of a fault may be in no cell, and one on an edge where a cell
  collapses in none either; the comment above `rd_grid_on_cell_face` says so of the
  second.  `CellsTile` is about grids without faults.
- The pillars of a column without any cell of the file end the program
  (`rd_grid.cpp:4769`) after the headers are written.
- Connections to other grids are read and not written.
- Time lines of wells are in the order in which files are loaded.  The n-th part of a
  step is taken for the n-th local grid of the grid.  When a well throws, the wells
  before it stay and come twice in a second attempt.
- `add_UNRST_wells` on a file that is not unified does nothing;
  `src/lib/include/resdata/well_info.hpp:202-203` says that it fails.
- A segment whose outlet is not in use dereferences a null pointer.

Gravimetry:

- `rd_grav.cpp:362` takes the phase number of INTEHEAD bit by bit, with 2 for gas and 4
  for water; the comment in lines 344-350 has water as 2 and gas as 4.
- `rd_grav.cpp:268`: a survey of fluids in place throws for a phase that has a default
  and no densities of regions, and for a cell whose PVT region is above the highest one
  added; `src/python/resdata/gravimetry/rd_grav.py:184-185` promises the default.
- A default density that is changed does not reach the PVT regions that took it.
- Without SGAS the gas is taken as what water leaves, though SOIL is given.

## 6. Plan

The modules of the first plan are written but for three: TypedVector (the containers
of `src/lib/util`), RegionOfGrid (a region whose grid is renumbered under it; Gravity
has that for evaluations), and the generators of grids with variable spacings.

Theorems to come: that the states of wells have the connections of their grids
(`ConnectionsOfGrid`), once what is selected is a recursive function; the shape of a
stream in KeywordFile (`content` and `halves` never overlap), once the recursive
operators of Keyword are functions.

Properties to add when others make room: that loading, renumbering and copying leave
the active indices dense; that the sum of a layer is that of its cells; that the phases
of a survey fill the pores; that scattered data are gathered where they were; that the
search of a GRDECL text ends where the name is.  All of them held on the bounds
above.

## 7. What is not modelled, and why

- Floating point.  The geometry of cells is over integers and exact: what happens
  within the tolerance of the code, or when corners are rounded to four bytes in a
  file, is not seen.  Regions take any set of cells for one that is chosen by
  geometry; gravimetry has the terms of its sums; interpolated values are exact
  fractions.
- The contents of keywords beyond what tells them apart.
- Memory: freed keywords that a client still holds (`well_info.cpp:36`), sharing
  of file data between cases.  ResultFile models addresses as far as the map of
  `save_kw` depends on them.
- Failures of the operating system other than a seek that fails and a file that
  is cut short.
- Containers, surfaces and lists of points, the applications, RFT files and the viewer.
- `PROJECT.json` lists each remaining part with its reason.
