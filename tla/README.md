# A TLA+ model of hidefix

hidefix reads HDF5 files without the HDF5 library. It asks the library once
where the chunks of each dataset are, keeps that as an index, and from then on
reads, decodes and copies chunks itself, from many threads if asked to. Nothing
checks it at run time: if the index or the arithmetic on it is wrong, a caller
gets the wrong values and no error.

This directory holds TLA+ modules that model that code, configurations with
which TLC checks them on small instances, and proofs, checked by TLAPS, that
indexing, extents and subscripts, the caching reader, the two direct readers, typed values,
streams and the handling of index files are right for every instance, and the slicer for
every slice of a kind that is described exactly (it is wrong for others, see 4).
Source paths below are relative to `src/` of the repository, where the crate is;
`PROJECT.json` maps each definition to its lines.

## 1. The system

| component | state | operations | what makes it correct |
|---|---|---|---|
| Dataset layout (`idx/dataset/dataset.rs`, `idx/chunk.rs`) | shape, chunk shape, three arrays of strides, the sorted chunks | `Dataset::new`, `chunk_at_coord`, `Chunk::contains`, order of chunks | the chunk found by arithmetic is the one that holds the coordinate |
| Indexing a dataset (`Dataset::index`) | filters seen, chunks visited | filters, layout, `chunks_visit`, sort, count | what is indexed is complete, is found again, and can be decoded; what is not is refused |
| Chunk slicer (`ChunkSlicer`) | position as a count *and* as coordinates | `chunk_slices`, `next` | the runs, joined, are the slice; it ends; it does not panic |
| Extents (`extent.rs`) | none | conversions, `get_counts`, `get_start_count`, the bounds check | what is read is what was written down; the buffer is sized for it |
| Reader contract (`reader/dataset.rs`) | none | `read_to`, `read_to_par` | a successful call has filled the buffer with the slice |
| Caching reader (`reader/cache.rs`) | a file descriptor, an LRU cache of decoded chunks that outlives the calls | `read_to` | contract; the cache is coherent and keeps the right chunks |
| Direct reader, serial (`reader/direct.rs`) | the last chunk | `read_to`, `group_chunk_slices` | contract; the file is read front to back, no chunk twice |
| Direct reader, parallel (`reader/direct.rs`) | one buffer, raw pointers into it, a descriptor per piece of work | `read_to_par` | contract; threads never write to the same bytes nor outside of the buffer |
| Reading a chunk (`reader/chunk.rs`) | none | `read_chunk`, `decode_chunk` | the chunk at the address, with the filters undone that it was written with |
| Streaming reader (`reader/stream.rs`) | per stream: a generator driven by its consumer, a file, a cache | `stream`, `stream_xdr`, `stream_values` | what is delivered is the beginning of the slice, in the form asked for; an end without an error means all of it |
| Typed values (`reader/dataset.rs`) | none | `values_to`, `values`, `values_par`, `values_dyn_par` | values in native order, for the types that fit; the rest of the caller's buffer as it was |
| Filters (`filters/*.rs`) | none | shuffle, byte order, XDR, gzip | each undoes what was done |
| Group index (`idx/index.rs`, `idx/dataset/any.rs`) | the walk; then a tree of groups and datasets | `Index::index`, `DatasetD::index`, lookup of datasets and groups by path | every dataset is indexed or none is, and each is found under its path |
| Index files (`bin/hfxidx.rs`, `bin/hfxlst.rs`, `idx/serde.rs`) | the index file, the data file it is of | write, stop, load, open the data file by its path | parts of two indices are not taken for one; a run leaves a whole index; a call reads one data file, and none older than the index |
| Python module (`python.rs`) | none | `__getitem__` | the array returned is the Python slice |
| Command line tools (`bin/*.rs`) | none | index to a file, load and print | as index files |
| Data types (`idx/types.rs`) | none | a table | – |

How they interact: `Extents` turns what a caller writes into start indices and
counts. Each reader calls it through the dataset, once to check the size of the
buffer and once more to make a `ChunkSlicer`. The slicer is lazy; the caching
reader pulls run after run from it and looks the chunk of each up in its cache;
the direct reader collects all runs first, gives each the place in the buffer
it goes to, and sorts them by the address of the chunk. The parallel one hands
the groups to a rayon pool, whose threads share nothing but the buffer, which
each gets as a raw pointer. All of them rely on the layout that `Dataset::index` made, on
its chunks being sorted, and on the slicer's runs joining to the slice.
`values` and the like call a reader and then turn the whole buffer round;
`stream_values` does so with each item. `index_group` walks the groups of a file and
indexes dataset after dataset. The index keeps the path of the data file, not
the file: each reader opens it anew, at a moment of its own, and `hfxidx` writes
the index to a file that others may be loading. `__getitem__` makes extents of
the items of a Python subscript, an array for them, and reads into it.

What is hard here:

* the arithmetic at edges: chunks cut at the end of the dataset, chunks of one
  index, scalars, carries from one dimension into the next, sums that wrap;
* order: the library visits chunks in the order of the file's index, the sort by
  address is unstable, filters have an order that two flags do not keep;
* sharing: threads write to one buffer with nothing but arithmetic to keep them
  apart, and seek and read in two steps;
* partial failure: a read may fail at every miss, with the buffer partly
  written, and the reader and its cache are used again afterwards; one dataset that
  cannot be indexed ends the walk over all of them;
* files that change: an index is written in place, and may be cut short, and the
  data file may be another one by the time it is opened, once or once per thread;
* bytes turned round by the size of the type asked for, in the order of the
  dataset and of the machine, whatever the type that the values were stored as.

`PROJECT.json` lists these as hazards, each at its line, with the properties
that would find them going wrong.

## 2. The modules

    Arrays, Dataset ─┬─ ChunkSlicer ── SlicerSupport ─┬─ MCChunkSlicer (Grid)
                     │                                └─ ChunkSlicerProofs
                     ├─ DatasetIndex (Filters) ── GroupIndex ─┬─ MCGroupIndex (Grid)
                     │                                        └─ GroupIndexProofs
                     ├─ Extents ─┬─ MCExtents ───┬─ MCPythonSlice
                     │           └─ PythonSlice ─┴─ ExtentsProofs
                     └─ ArrayLemmas (lemmas of these proofs)

    ReadRequests ─┬─ Reader                       the abstract specification
                  ├─ CacheReader (Lru) ──┬─ MCCacheReader
                  │                      └─ TypedReader (ByteOrder) ─┬─ MCTypedReader
                  │                                                  └─ CacheReaderProofs
                  ├─ DirectCall ─┬─ DirectSerial ─┬─ Direct ── MCDirect
                  │              └─ DirectPar ────┴─ DirectProofs
                  └─ MCReadRequests: the requests of all the readers' instances

    Lru, ByteOrder ── StreamReader ─┬─ MCStreamReader
                                    └─ StreamReaderProofs

    IndexFile ─┬─ MCIndexFile
               └─ IndexFileProofs

**Arrays**, **Dataset**: rows of indices, products, the strides, finding a chunk
by coordinates, and `SliceOf`, the reference definition of a slice: the places of its
values in row-major order, found coordinate by coordinate and without the
slicer's arithmetic.

**ChunkSlicer**: one call of `next()` is `Locate`, then `PassSingle` or
`PassAdvance` per dimension of the loop, `CarryOver` per dimension of the second
loop, and `Return`; `Exhausted` and `NextScalar` are the early returns. State:
the iterator's `offset` and `offset_coords`, the locals of `next`, and
`emitted`, all values returned so far. This is a debug build: a failed
assertion or a subtraction below zero leads to `panicked`. Only an advance of zero, which a
release build does not notice, may also go on (`Return`), so that whether an iterator ends does
not rest on that assertion. The requests are a constant:
indices and counts are any of the dataset's rank, and the dataset is one as `Dataset::index`
leaves it (`LaidOut`, in `RequestsAssumption`): the chunk that `chunk_at_coord` computes for a
coordinate holds it, and no other does. `SortedIsLaidOut` proves this of the datasets that
DatasetIndex makes.

**SlicerSupport** describes the requests for which the slicer is right (`Supported`), and states
its properties for them; see 3.

**Filters**: shuffling and unshuffling as permutations of bytes, and
`decode_chunk`. A chunk as stored is the value of `Stored`, to which the library
has applied the pipeline's filters in their order; a chunk may have been written with some of
them left out (the filter mask). The code undoes what its two flags say.

**DatasetIndex**: one action per filter, for the layout, per visited chunk, for
the sort and the count; `LibraryFails` wherever an error of the library is
passed on. What the library answers is a record per dataset, of which `FileOk` says what
may be relied on: each chunk begins at a point of the grid, inside of the dataset, and comes
once. The sort leaves some order in which no chunk precedes one before it.

**GroupIndex** is the walk that these steps belong to. `stack` is the recursion
of `index_group`: `OpenMember` and `Collect` begin and end the indexing of a
dataset, `Skip` leaves one out, `Descend` and `Ascend` enter and leave a group,
`Finish` ends the walk; `ListFails` and `RankPanics` end it otherwise. `IndexAlone` is
`DatasetD::index` called directly. `LookupDataset` and `LookupGroup` are the
two lookups by path, folds over the parts of a path split at its slashes. The
files are the constant `Trees`, of groups with names from `GroupNames`, at most `Depth` deep
(`DepthAssumption`), in which the library's answers are as `FileOk` says (`FilesAssumption`)
and no name is empty (`NamesAssumption`).

**Extents**: conversion, sizing the buffer, slicing, with indices of `Width` bits
whose sums wrap (a release build). **PythonSlice** adds `__getitem__`: `GetItem`
makes a start and a count per item, and an array, and reads; `Raise` is where an
item has no such form. Its state is that of Extents, so that the read is the
read of that module.

**Reader** is the abstract specification: a call fails, or in one step fills the
buffer. For requests that leave the dataset it promises only the number
returned, which is what the code delivers (finding 3). **ReadRequests** has what
readers share. The runs of each request are a constant there, assumed to
join to the slice (`RunsAssumption`, `CurrentAssumption`, `JoinAssumption`). The
readers are so shown to be right for *every* slicer that keeps those
assumptions. That the slicer of the code does is proved for supported requests
(`RunsJoin`, `SupportedIsRight`); for the others it does not, and no reader can help it.

**Lru** is the cache of the `lru` crate, modelled from its use (`Promote` is a
`get` that finds the entry, `Put` a `put` of one that is not there).

**CacheReader**: `Refuse`, `Accept`, then per run `Hit`, `Miss` or `MissFails`, and
`Finish`; `CallAgain` is the caller, with the same reader and cache. `used` is
history.

**ByteOrder**: turning numbers round, to native and to big-endian order, and XDR,
for both kinds of machine, as the code's index arithmetic; beside it, where each
byte should come from by its significance (`NativeFrom`, `StoredAt`).

**TypedReader** puts `values_to`, `values` and `values_dyn_par` on top of
CacheReader: which calls of `read_to` they lead to (`Leads`), its steps
(`Read`), and `Convert`, which turns the whole buffer round. A byte of the
buffer that was not written is named as the buffer's own.

**StreamReader**: the consumer polls (`Poll`), drops the stream between two polls
(`Drop`) or makes another (`Again`); a poll runs the generator, through `Open` or
`OpenFails` the first time, to the next item: `Hit`, `Miss`, `MissFails` or `End`.
`Answer` is the item on its way to the consumer, converted by `stream_values`,
which may fail for an item without ending the stream; `Withheld` then stands in `out`, for
the bytes that the consumer did not get. The three forms of stream differ in what
is cached of a chunk (`Prepared`), how places in it are scaled (`Scale`) and in that last
conversion, which are those of ByteOrder; they are compared with `Form`, which
is written from the significance of each byte.

**DirectCall** is the beginning of both direct calls: the checks, and the scan of
`group_chunk_slices`. **DirectSerial** goes through the segments, with the last
chunk kept; its definitions have names of their own where **DirectPar** has the same, as the
proofs are about both, and **Direct** puts them together: one reader, which a caller asks
for a serial read or a parallel one, call after call. **DirectPar** has per thread `Take`, `Seek`, `Read`, `StartCopy`,
`EndCopy`, `GroupDone`, `GroupFails` and `Drop`, and `Join`. A copy has a
beginning and an end, so that two can be under way at once. Rayon is
modelled from its use: a thread takes any group, opens a descriptor for each
piece of work, keeps it for an unknown number of groups; after a failure the
groups left may be skipped or not; the call returns when no thread is at work.

**IndexFile**: four programs around two files. The data file is replaced or
removed at any time (`Replace`, `Remove`). `hfxidx` indexes it (`Index`), empties the
output file (`Truncate`), writes it a part at a time (`WritePart`), and may be
stopped anywhere (`Stop`). A program loads the index (`LoadOpen`, `LoadPart`, `Load`,
`LoadFails`) at any time, also while it is written. A whole index (`Whole`) is accepted; of
anything else that was read nothing is assumed: it may be loaded or refused (a panic of a
deserializer ends the program that loads, which is a refusal). A reader of any of the four
kinds then opens the data file when it does in the code, the caching one when it is made, the
others in the call, the parallel one once per thread (`OpenFile`), and reads
chunks through its descriptor (`Read`, `ReadCached`, `ReadFails`). Chunks and parts
of an index are named by the version of the data file they are of.

The definitions whose comment begins "As a mutant" are not part of any
specification. Each is a plausible bug of the definition it precedes, and is
there to show that a property notices it.

## 3. The runs

| run | instance | question |
|---|---|---|
| `slicer` | all slices in two dimensions, extents and chunks up to 4; in one dimension everything with numbers up to 6, out of bounds too; scalars; supported slices in three dimensions, extents up to 3, chunks up to 2 | for exactly which requests do the runs join to the slice, without a panic, and with count and coordinates of the position in agreement; and does the iterator end for all of them? |
| `slicer_fixed_size`, `slicer_contiguous` | violations | findings 1 and 2 |
| `cache_reader` | seven requests on a 2×6 dataset of three chunks, room for two; three entry points, five types, three byte orders, both machines | contract, coherence, most-recent, and native values, over any sequence of calls |
| `cache_reader_outside` | violation | finding 3 |
| `direct` | the same requests, no cache; any sequence of serial and parallel calls of one reader, two threads | contract; the serial read front to back; no overlap, nothing outside, no byte changed once written |
| `stream_reader` | the same requests; three forms of stream; eight datasets with values of one to four bytes, asked for as four types, both machines | is what is delivered right wherever the consumer stops and whatever failed before, does an end without an error mean all of it, is every poll answered? |
| `stream_big_endian` | violation | finding 4 |
| `dataset_index` | single datasets of up to two dimensions, four chunks, any allocated, up to three filters; and trees of groups | is what is indexed right, is exactly the right thing indexed, is it all or nothing, and found by path? |
| `index_unallocated` | violation | finding 5 |
| `extents` | every form of range, three-bit numbers, up to two dimensions; Python subscripts | is what is read what was meant, by each of the two languages? |
| `index_file` | a data file replaced or removed, an index written, cut short and loaded, four kinds of reader | when are parts of two indices loaded as one, does a run leave a whole index whatever was there before, and what can a call come to read? |

Why these bounds are enough for the cases that matter:

* *Slicer.* Carrying needs two dimensions, going on past a carried dimension
  needs three. An extent of 4 with chunks of 3 has a full chunk and a cut one;
  chunks of 4 on extents of 1 to 3 are chunks larger than the (extendible)
  dataset. In three dimensions, extent 3 and chunk 2 give a full chunk, a cut
  one, and one of a single index.
* *Readers.* With 2×2 chunks a row of the 2×6 dataset visits every chunk, and the
  second row comes back to each: the cache with room for two evicts a
  chunk and misses it again. A request for the middle chunk alone uses it again
  out of that order. The other requests begin and end inside chunks,
  leave the dataset, are empty, or have the wrong rank. The buffers are too small,
  exact or too long. Values have two bytes, so that a mix-up of bytes and values
  shows, and four under `cache_reader`, where they are turned round. Two threads
  and three groups: one thread takes a second group while the other is at its first.
* *Typed values.* Against values of four bytes there are types that are smaller, of
  the same size in two kinds, and larger; the buffers have the lengths these come to, one
  that is no multiple of most, and one that is longer than any request.
* *Streams.* Values of one and two bytes are widened by XDR, those of four only
  swapped; values that are no numbers are left alone. The cache has room for
  four, two or one of the three chunks, as the size of a value goes. The types are
  of sizes that fit some datasets and not the others.
* *Indexing.* Four chunks are a 2×2 grid, where row-major order differs from
  others; every subset of them may be unallocated. Three filters are one
  more than the flags can stand for, and any may have been left out for one chunk; a
  chunk of three values is the least that shuffling twice does not restore.
* *Groups.* The root has two datasets and two groups, and one of these may have
  another inside: the walk goes down twice, comes back up, and goes on. Each kind
  of dataset (chunked, incomplete, contiguous, in its header) is in the root and in each of
  the groups below it; one that does not open is in a group, one of too high a rank in
  the root. Paths have up to
  four parts, empty ones among them, one more than the tree is deep.
* *Extents.* Three bits wrap around at 8, within reach of every sum. Python's numbers
  go from −4 to 4, past either end of an extent of at most 3.
* *Index files.* Two replacements of the data file and two runs of `hfxidx`, one
  of which may be cut short, are enough for an old index under a new file, a new index
  under an old descriptor, and an index written while another is loaded. Two chunks and two
  calls with one reader: the cached one has one chunk from its cache and
  one from the file, the parallel one two threads that open the file at different
  times.

Bounds: `NDims`, `MaxExtent`, `MaxChunk`, `MaxPlane`, `MaxFlat`, `MaxChunks`, `MaxFilters`, `Depth`
(groups that the walk may be inside of), `Width`, `Some` (largest number in pairs of ranges),
`MaxNumber`, `MaxVersion`, `MaxRuns`, `MaxStops`, `MaxCalls`, `Parts`. The readers' state is finite
without bounds: `used` has no repetitions.

**Which requests the slicer is right for.** `Supported` (module SlicerSupport)
says so in terms of the request. That it is sufficient is proved for every rank (see 5), and
checked in three dimensions besides (`JoinsIfSupported`, `PositionsAgreeIfSupported`).
`RightExactlyIfSupported` shows it exact in two dimensions; in one everything is supported, and in
three it is not quite exact: a chunk of shape (2, 1, 1) may be read right by accident. It
describes the loop as it is: which dimensions it passes, where it stops, and that what it
advances over is one block of the chunk. In short: a slice that does not cover its chunk in the
last dimension is safe (`PartlyInLastIsSupported`); one that does is safe if the chunk is not cut
there, or only one row of a chunk is read, or the rows are skipped one by one; and not if, below a
dimension with several indices, the innermost one that it does not cover ends in a chunk of which the
slice has a single index (finding 2).

**Fairness.** `ChunkSlicer`: weak fairness of the steps, because each consumer
drives the iterator to its end. The serial readers: weak fairness of a call's own
steps, which are sequential code; none for the caller, who may stop. With
`TypedReader` the same holds of the read and of the conversion after it. The stream: weak
fairness of the generator, which awaits nothing, so a poll runs it to its answer; none for
the consumer.
The pool: weak fairness of taking a group, and of the work of each thread
that has one; dropping a descriptor is not work and has none. Failing counts
among the steps of the work, as there is no retry. `Direct` has the one or the other, as the
call is serial or parallel. `IndexFile`: weak fairness of an
indexer that has been started and of a load that has begun; none for starting
either, for stopping the indexer, or for the data file being replaced. Being stopped
counts as an end of the indexer's run. Extents and indexing
have no liveness properties; every behaviour is a short walk.

**Deadlock** is checked for the readers and streams, which can always be called again. The
slicer, indexing and extents end, and index files come to the end of their bounds: these
runs say `CHECK_DEADLOCK FALSE`.

## 4. Findings

1. *Cut chunks* (`slicer_fixed_size`, `idx/dataset/dataset.rs:594`). If a slice
   covers a chunk up to the end of the dataset, the slicer passes over several
   of the chunk's rows at once. On disk a cut chunk still has full rows, so what
   lies between them comes out as values. The doc of `chunk_slices` says the runs
   joined make up the slice.
2. *A single index in the middle* (`slicer_contiguous`, `idx/dataset/dataset.rs:587`). When the
   loop carries into a dimension of which the slice has one index, that dimension is exhausted and
   begins again, and the loop advances over it once more: it runs on into the next row of the
   chunk, and counts it as that of the next outer index. So a contiguous dataset of three
   dimensions, read with all of the first and last and one index of the middle one, gives
   the wrong rows, in release builds as well, and no assertion notices.
3. *Out of bounds* (`cache_reader_outside`, `reader/cache.rs:91`). A request that
   leaves the dataset is answered with `Ok(n)` and nothing written; the trait
   says it "Returns bytes read".
4. *Byte order of a stream* (`stream_big_endian`, `reader/stream.rs:79`). The doc of `stream()`
   says "Always in Big Endian"; the bytes come as they are stored. `stream_values` relies on what
   the code does, so it is the comment that is wrong. `DeliversPrefix` asks for the stored order of
   this form of stream.
5. *Datasets that are not allocated* (`index_unallocated`, `idx/index.rs:109`). The comment at the
   filter says that it skips them. It does so for those without chunks and address; one that
   is chunked, with none of its chunks allocated, is kept, has too few chunks, and so
   ends the walk over the whole file with an error.

## 5. The proofs

`tlapm` checks every leaf; nothing is assumed but named `ASSUME`s, which TLC evaluates on
the instances:

* of `ReadRequests`: the types of the parameters; runs that lie within their chunks and join to
  the slice. Of `StreamReader`: the same of its runs, and which numbers there are.
* `WorkersAssumption` (a pool has a thread), `CacheAssumption` (the cache's size is a
  number), `PartsAssumption` (an index has at least one part).
* of `TypedReader`: a type has a size, and no byte of a dataset comes twice in a slice
  (`DistinctAssumption`; only because of it can what was read be told from what was
  turned round).
* of `Extents` and `PythonSlice`: the forms of ranges and items, and sizes that have their
  width. `WidthAssumption` says of the width also how its power of two grows, as the provers know no
  exponentiation.
* `DepthAssumption`, `FilesAssumption` and `NamesAssumption` of `GroupIndex`, and
  `RequestsAssumption` of `ChunkSlicer`, as in 2.

**ArrayLemmas** is what the proofs about datasets rest on, for arrays of any rank.

* `SetInduction` is induction over the natural numbers, stated with a set instead of an
  operator, since the library's cannot be instantiated. With it `Recursion` shows that a recursive
  function on an interval exists and obeys its equation; so the products and strides of `Arrays` are
  known by the equations they are written with.
* `PlaceOrder`: of two coordinates the one that precedes has the lower place in
  row-major order. `CoordinatesAre`: every place below the product has its coordinates, by dividing it by
  the strides, so that places and coordinates are one to one.
* `ChunksCover` and `ChunkFound`: a list of chunks on the grid, sorted, without repetition and as long as
  the grid is large, has at each place the chunk of that place; `chunk_at_coord` computes the place of
  the chunk that a coordinate is in. This is a count: an increasing map of `0..n-1` into itself is
  the identity.

**ChunkSlicerProofs**, for every dataset that `Dataset::index` makes, of any rank, with chunks that
are cut at its end or larger than it, and for every supported request:

* `RunsJoin` (`JoinsIfSupported`): at every moment what has been returned is the beginning of the slice.
  `PositionsStayTogether` (`PositionsAgreeIfSupported`): between two calls count and coordinates name
  the same value. `SupportedIsRight`: no assertion fails, nothing underflows, and at the end
  all of the slice has been returned.
* `SlicerInv`, which TLC checked on the instance of `slicer` before, is what they follow from
  (`SlicerInvariant`). None of the three is inductive: nothing in them says where a run begins, nor what
  `advance`, `carry` and the coordinates are during a call. `Calling` does. What was advanced over is
  consecutive in the chunk and next in the slice (`Consecutive`). The coordinates are not those of the
  next value before the carry is through: they are if the carry is added at the stride of
  the dimension it has come to (`Odometer`).
* The loop is in one of two phases. `Passing`: every dimension so far was covered by the slice, has come
  round to where it began, and the carry is one; the chunk is the slice there. `Skipping`: the innermost
  dimension not covered is behind, and those left have one index in the chunk, so that the loop only
  carries over. Where the phases change, the three cases of `MayStop` say why the advance is one block.
* `StartsRun` links one call to the next: a run begins at zero in the dimensions that the slice
  covers, and at a chunk or the beginning in the next. Without it `Consecutive` could not be shown, since a call
  that begins inside of a covered dimension would advance over less than a block.
* A pass adds to the place of the coordinates what it adds to the count (`CarriedOver`,
  `Turned`): the strides of `ArrayLemmas`, of which each is the one below times a count, are all that is needed of
  the products.
* `PartlyInLastIsSupported`: what is not covered in the last dimension is supported.
  `EveryCallAdvances`: a run is never empty, for any request, supported or not; it is why a release
  build cannot stay where it is.
  `SortedIsLaidOut`: the assumption on datasets is met by sorted chunks, as many as the grid
  has, which is what `DatasetInv` says of an indexed dataset.

**GroupIndexProofs**, for every file, any number of groups at any depth, any rank, any order
in which the library visits chunks and any order that the sort leaves equal ones in:

* `IndexedDatasetIsFound` (`FindsEveryChunk`): what is indexed is found by arithmetic at every
  coordinate. `IndexedExactlyIfIndexable` (`IndexedIfIndexable`). `WalkIsAllOrNothing`
  (`AllOrNothing`). `IndexFindsByPath` (`FindsByPath`), for paths of any length with slashes
  anywhere.
* `DatasetInv`, per step of the indexing: the chunks found so far are different ones
  of the file's, and all of them once the visit is over; afterwards they are sorted; the flags are
  those of the filters seen. That the number of chunks is the expected one then says that none is
  missing, which is what `dataset.rs:138` relies on: the offsets are an injection into the grid.
* `WalkInv`: `CallsNest` (the calls on the stack are those of a group, of one in it, and so on), and
  `NoneForgotten`: every dataset of the file that is not left out on purpose either can be indexed
  or waits in a group or among the members that a call of the stack has still to come to. With an
  empty stack none waits. Together they say that the walk does not go back up with a group left out.
* `MapsInv`: the maps of the topmost call are those of its group, without the datasets that are left or being
  indexed and without the groups that are left; each call below it lacks in addition the one group
  that the walk is in. A finished group *mirrors* that of the file (`Mirrors`): at each path below it
  are the datasets there, each with its index, and the names of the groups there. So a map of
  groups can be put into the one above it without a look at what is inside. `FlagsInv` says that
  the flags of a dataset are those of its filters up to the one that is read. The rest is about paths
  alone: what is left of a plain path when the slashes before it are dropped is its names, and what is
  left of any other has a part that is no name, which `get` does not find.
* `UndoneIsDecoded` (`DecodesIfUndone`), for every shape of chunk and size of value: a chunk to which the
  filters were applied that the flags stand for, in that order, is decoded to what was written. Shuffling is
  a transposition, and unshuffling the one that takes it back (`Unshuffles`); a pipeline of
  two filters is unrolled (`StoredTwo`).

**ExtentsProofs**, for any rank, any shape and any width of numbers:

* `RustReadsWhatIsMeant` (`ReadsWhatIsMeant`), exactly: what is read is what the ranges stand for,
  and nothing if they leave the dataset, if and only if the request has not `Slipped`
  through the check, by a start and a count that wrap around to a place inside. The indices read
  are those that the buffer was sized for in either case. `PythonReadsWhatIsMeant` is the same of the
  ranges that a subscript of Python becomes.
* `PythonNeverSlips`: of these ranges no sum wraps around to a place inside, so that what a
  subscript became is read as it stands, without an exception.
* `PythonReadsTheSlice` (`PythonGetsTheSlice`): a subscript is read as Python means it, but for those
  exceptions that the property names. A length that was negative before it was cast is at
  least 2^(Width-1), which no array can have; dropping the dimensions of one index does not change
  the product of the lengths.
* `StepsInv` says of each step what has been computed from `asked`; it holds of both
  specifications, as reading is the same once the ranges are made.

**DirectProofs**, of what both direct reads begin with: `ScanInv` and `SegsInv`. Segments are laid
end to end up to `offset`, and say of each byte what the slice says. It follows that the windows of
different segments are disjoint and in the buffer, and that at the end of the scan the segments
cover the request. Of the parallel read, for any number of threads, chunks, runs and any sizes:

* `TypeCorrect`, `ThreadsNeverOverlap` (`CopiesDisjoint`), `CopiesStayInside`
  (`CopiesInBuffer`), `ParallelReadIsRight` (`OkMeansSlice`), `EachByteOnce`
  (`WritesOnce`), `ParallelReadRefinesReader` (the call implements `Reader`).
* None of these is inductive. That two copies do not overlap rests on two facts:
  the windows of different segments are disjoint, and two threads never have the
  same segment, which is known from how groups are handed out (`GroupsInv`: a
  group is either to be taken or in the hands of one thread). That success means
  the slice is written needs `BufferInv`: a segment that is pending is not in
  the buffer, every other one is, unless something failed. At `Join` nothing is
  pending, and the segments cover the request.
* `Invariance` proves `IInv`, the conjunction of these, one step per action. The
  refinement has a call take effect at `Join`.

Of the serial read, for any dataset and any order of a chunk's segments:

* `SerialReadIsRight` (`OkMeansSlice`), `SerialReadsForward` (`ReadsForward`),
  `SerialReadRefinesReader`.
* Its `BufferInv` is that the segments the loop has been through are in the buffer, and nothing
  else is. `ForwardInv`: the addresses read increase, the last of them is
  that of `last_chunk`, and no segment that is left has a lower one. Without the
  last part a read could go back; without the middle one a chunk could be read twice.

**CacheReaderProofs**, for any capacity and any sequence of calls and failures:

* `TypeCorrect`, `CacheStaysCoherent`, `BufferIsPrefix` (`WrittenIsPrefix`),
  `CachedReadIsRight` (`OkMeansSlice`), `CacheKeepsMostRecent`
  (`KeepsMostRecent`), `CachedReadRefinesReader`.
* The strengthening: `PlaceInv` (in the loop `pos` is where the next run goes, and
  the size check has passed), `PrefixInv` (the buffer is the slice up to `pos`) and
  `LruInv`: the order of the cache is the *beginning* of the order of use, whose
  elements are distinct. That the cache holds the right set is not inductive: which chunk
  goes next is decided by the order, so the order has to be right as well.
* `TypedReadsAreReads`: the typed entry points do with the reader only what `CacheReader` allows, so
  that all of this holds under them; `TypedReadsKeepPromise` and `TypedReadsKeepCacheCoherent` are two
  instances of it.
* `TypedValuesAreNative` (`ValuesAreNative`) and `TypedRestIsTheCallers` (`RestIsTheCallers`), for every size
  of value and of type. Turning a number of bytes round is a permutation of their places which is
  its own inverse; the lemmas name quotient and remainder once, and the rest is linear. That the values
  are *not* native for a type that does not fit needs a place that two turnings move to different
  ones, hence `DistinctAssumption`.

**StreamReaderProofs**: `StreamCacheStaysCoherent`, `StreamDeliversPrefix`
(`DeliversPrefix`) and `StreamEndMeansAll` (`EndMeansAll`). The cache of a stream holds decoded
chunks in the form that the stream converts to, however often it failed; what has been
delivered is, byte by byte and place by place, the beginning of the slice in that form, as long as
the place of the next run says, for a type that fits. This holds after errors too: an item that `stream_values` could not
convert is `Withheld`, as long as the item was, what follows it is at its place, and there
are such gaps in no other form of stream and not without an error. `StrayInv` is what `EndMeansAll`
needs beside this: if the type does not fit, already the first byte delivered is another one, and stays.

**IndexFileProofs**, for any number of runs, stops, replacements, loads and calls:

* `NeverMixesIndexes` (`LoadedIsOfOneFile`), `CallReadsOneFile` (`CallSeesOneFile`),
  `ReadsNothingOlder` (`NeverOlderThanIndex`).
* `DiskInv`: there is at most one version on disk, and what a load has so far is the
  beginning of it unless it was written to meanwhile: from this it follows that parts of two
  indices are loaded only then. `AgeInv`: no index, descriptor or
  cached chunk is of a version that has not been, and what a reader has is not older than its
  index. `SourceInv`: where the chunks of a call and those of the cache
  have been read from; for a parallel call during which the file stayed the same,
  every thread's descriptor is of that file.

## 6. What is only model-checked

* Liveness: `Returns`, `Answers`, `Terminates`, `RunsEnd`. TLAPS does not handle
  fairness and `ENABLED`.
* The composition `Direct`. The proofs are about each of the two reads by itself.
* `DatasetIndex`'s `DecodesExactly`, in one direction: `UndoneIsDecoded` is the other. That no other
  pipeline decodes is true of the instances and not of all parameters: a
  chunk of two values of two bytes is restored by shuffling it again, so that a pipeline may decode that the
  flags do not stand for. The property says that these cases are told apart on chunks of
  three values.
* The slicer's `RightExactlyIfSupported`, in one direction: `SupportedIsRight` is the other, for the end of
  the slice. That the slicer is right for no other request is true of two dimensions only, and stays with
  TLC.

## 7. What is not modelled, and why

* The content of bytes: a byte is named by its chunk and its place in it. Gzip,
  storage sizes and the formats of index files are left to their libraries; of these only that a whole
  index is accepted is assumed.
* An array of an index file that is shorter or longer than the rank (`idx/serde.rs`), which is filled up with zeros or
  cut: a whole file that `hfxidx` wrote has none.
* A data file that is overwritten in place, under the descriptor that reads it; it
  is replaced or removed as a whole. Two indexers with the same output.
* Groups that contain themselves through links: the library's `groups()` are followed as a tree.
* Counts whose product, or product with the size of a value, wraps around. The sums
  of start and count are modelled with their width.
* A panic inside a rayon thread or a decoder, and a poisoned pool: a panic ends the call
  through unwinding and is not caught in the crate.
* A tokio runtime with one thread, in which decoding within a stream panics
  (`block_in_place`): the runtime is the application's.
* `apply_fill_value`, the accessors of the Python classes and the xarray backend, the table of data
  types, what the command line tools print: no state, and no decisions that a
  property could be about.

## 8. Plan

Done: layout, slicer, extents and Python subscripts; indexing of a dataset, of groups and by
path; filters; the caching, direct and streaming readers, and typed values; index files. The
proofs cover all of these. Next, in this order:

1. A composition: the slicer, step by step, inside the caching reader, for
   supported requests, instead of runs as a constant.
2. `Supported` made exact in three dimensions: chunks with trailing dimensions of one index.
3. Index files: arrays and ranks in what is loaded, for indices that were not written by
   `hfxidx`.
