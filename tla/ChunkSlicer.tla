------------------------------ MODULE ChunkSlicer ------------------------------
(***************************************************************************)
(* The iterator that cuts a slice of a dataset into runs of values, each   *)
(* consecutive in one chunk (struct ChunkSlicer in                         *)
(* src/src/idx/dataset/dataset.rs).  Joined, the runs should be the slice; *)
(* every reader relies on it.                                              *)
(*                                                                         *)
(* One call of next() is a series of steps: Locate, a pass of the loop     *)
(* over the dimensions for each one it reaches, a pass of the second loop  *)
(* for each one the left-over carry reaches, and Return.  The build is a   *)
(* debug build: an assertion that fails, or an unsigned subtraction below  *)
(* zero, is a panic.  Only the assertion that a call advances may be left  *)
(* out, as it is in a release build, where an empty run is returned and    *)
(* the consumer calls again.                                               *)
(***************************************************************************)
EXTENDS Dataset

CONSTANT Requests   \* records of a dataset (ds), start indices and counts

VARIABLES
  slice,          \* the dataset, indices and counts of the request, and end
  offset,         \* values produced so far
  offset_coords,  \* coordinates of the next value, from the start of the slice
  chunk,          \* locals of next(): the chunk of the current coordinate,
  chunk_start,    \*   the position in it,
  advance,        \*   the values to advance in it,
  carry,          \*   the carry into the next higher dimension,
  di,             \*   and the dimensions the loop has been through
  emitted,        \* every value returned, as the places they are stored at
  pc              \* where next() is

iterator == <<offset, offset_coords>>
locals   == <<chunk, chunk_start, advance, carry, di>>
vars     == <<slice, iterator, locals, emitted, pc>>

\* A dataset as Dataset::index leaves it, or as one whose index was loaded again: of the
\* chunks, each of which begins at a multiple of the chunk shape, the one that
\* chunk_at_coord names holds a coordinate, and no other does.
LaidOut(ds) ==
  /\ ds.shape \in Seq(Nat)
  /\ ds.chunk_shape \in Seq(Nat \ {0}) /\ Len(ds.chunk_shape) = Len(ds.shape)
  /\ Len(ds.chunks) \in Nat
  /\ ds = New(ds.shape, ds.chunks, ds.chunk_shape)
  /\ \A n \in 1..Len(ds.chunks) :
       LET o == ds.chunks[n].offset
       IN /\ o \in Seq(Nat) /\ Len(o) = Len(ds.shape)
          /\ \A d \in 1..Len(o) : o[d] % ds.chunk_shape[d] = 0
  /\ \A x \in Coordinates(ds.shape) :
       /\ ChunkIndex(ds, x) \in 1..Len(ds.chunks)
       /\ \A n \in 1..Len(ds.chunks) :
            Holds(ds.chunks[n], x, ds.chunk_shape) <=> n = ChunkIndex(ds, x)

\* Indices and counts have the rank of the dataset, by their types.
ASSUME RequestsAssumption ==
  /\ \A ds \in {r.ds : r \in Requests} : LaidOut(ds)
  /\ \A r \in Requests : /\ r.indices \in Seq(Nat) /\ Len(r.indices) = Len(r.ds.shape)
                         /\ r.counts \in Seq(Nat) /\ Len(r.counts) = Len(r.ds.shape)

NoChunk == [addr |-> -1, offset |-> << >>]

-------------------------------------------------------------------------------
\* Dataset::chunk_slices: an iterator for the request, empty when the request
\* leaves the dataset or has a count of zero.
ChunkSlices(r) ==
  LET empty == EmptyRequest(r.ds, r.indices, r.counts)
      zero  == [d \in 1..Len(r.counts) |-> 0]
  IN [ ds      |-> r.ds,
       indices |-> IF empty THEN zero ELSE r.indices,
       counts  |-> IF empty THEN zero ELSE r.counts,
       end     |-> IF empty THEN 0 ELSE Product(r.counts) ]

Rank == Len(slice.counts)

Init ==
  /\ \E r \in Requests :
       /\ slice = ChunkSlices(r)
       /\ offset_coords = [d \in 1..Len(r.counts) |-> 0]
  /\ offset = 0
  /\ chunk = NoChunk
  /\ chunk_start = 0 /\ advance = 0 /\ carry = 0 /\ di = 0
  /\ emitted = << >>
  /\ pc = "next"

-------------------------------------------------------------------------------
\* next() returns None.
Exhausted ==
  /\ pc = "next"
  /\ offset >= slice.end
  /\ pc' = "done"
  /\ UNCHANGED <<slice, iterator, locals, emitted>>

\* next() of a scalar returns its only value, of its only chunk.
NextScalar ==
  /\ pc = "next"
  /\ offset < slice.end
  /\ IsScalar(slice.ds)
  /\ IF Len(slice.ds.chunks) # 1
     THEN pc' = "panicked" /\ UNCHANGED <<offset, emitted>>
     ELSE /\ offset' = offset + 1
          /\ emitted' = Append(emitted, [addr |-> slice.ds.chunks[1].addr, at |-> 0])
          /\ pc' = pc
  /\ UNCHANGED <<slice, offset_coords, locals>>

\* The coordinates of the next value.
Here == [d \in 1..Rank |-> slice.indices[d] + offset_coords[d]]

\* The chunk of the current coordinate is not in the list, or not the right
\* one (the assertion at 518).
Mislocated ==
  \/ ChunkIndex(slice.ds, Here) \notin 1..Len(slice.ds.chunks)
  \/ Contains(ChunkAtCoord(slice.ds, Here), Here, slice.ds.chunk_shape) # "Equal"

\* next() finds the chunk of the current coordinate and the position in it.
Locate ==
  /\ pc = "next"
  /\ offset < slice.end
  /\ ~IsScalar(slice.ds)
  /\ IF Mislocated
     THEN pc' = "panicked" /\ UNCHANGED locals
     ELSE /\ pc' = "loop"
          /\ chunk' = ChunkAtCoord(slice.ds, Here)
          /\ chunk_start' = ChunkStart(Here, chunk'.offset, slice.ds.chunk_dim_sz)
          /\ advance' = 0 /\ carry' = 0 /\ di' = 0
  /\ UNCHANGED <<slice, iterator, emitted>>

-------------------------------------------------------------------------------
\* The dimension of the next pass, the last one first.
Dim == Rank - di

\* As a mutant: the chunk is not cut at the end of the dataset.
ChunkSzUncut(d) == slice.ds.chunk_shape[d]

\* The extent of the chunk in dimension d, cut at the end of the dataset.
ChunkSz(d) ==
  LET chunk_dim_end == chunk.offset[d] + slice.ds.chunk_shape[d]
  IN IF chunk_dim_end > slice.ds.shape[d]
     THEN slice.ds.chunk_shape[d] - (chunk_dim_end - slice.ds.shape[d])
     ELSE slice.ds.chunk_shape[d]

\* As a mutant: the carry is lost.
NotCarried(d) == offset_coords[d]

\* The offset of the slice in dimension d, after the carry into it.
Carried(d) == offset_coords[d] + carry

\* A pass for a dimension in which the chunk has one index: only carry over.
PassSingle ==
  /\ pc = "loop"
  /\ di < Rank
  /\ ChunkSz(Dim) = 1
  /\ slice.ds.chunk_dim_sz[Dim] # 1
  /\ offset_coords' = [offset_coords EXCEPT ![Dim] = Carried(Dim) % slice.counts[Dim]]
  /\ carry' = Carried(Dim) \div slice.counts[Dim]
  /\ di' = di + 1
  /\ UNCHANGED <<slice, offset, chunk, chunk_start, advance, emitted, pc>>

\* As a mutant: the last index of the chunk, for the end behind it.
CountChunkLast(d) == chunk.offset[d] + ChunkSz(d) - slice.indices[d] - 1

\* Where the chunk ends in dimension d, from the start of the slice.
CountChunkEnd(d) == chunk.offset[d] + ChunkSz(d) - slice.indices[d]

\* As a mutant: the slice may begin inside of the chunk.
EndsWithChunk(d) == slice.counts[d] = CountChunkEnd(d)

\* The slice is the chunk in dimension d.
CoversChunk(d) ==
  /\ slice.indices[d] = chunk.offset[d]
  /\ slice.counts[d] = CountChunkEnd(d)

\* A pass for any other dimension: advance to the end of the slice or of the
\* chunk; go on to the next dimension if the slice is the chunk in this one
\* and its end is not reached.
PassAdvance ==
  LET count   == slice.counts[Dim]
      current == Carried(Dim) % count
      upto    == Lesser(count, CountChunkEnd(Dim))
      diff    == (upto - current) * slice.ds.chunk_dim_sz[Dim]
  IN
  /\ pc = "loop"
  /\ di < Rank
  /\ ~(ChunkSz(Dim) = 1 /\ slice.ds.chunk_dim_sz[Dim] # 1)
  /\ IF CountChunkEnd(Dim) < 0 \/ upto < current
     THEN /\ pc' = "panicked"
          /\ UNCHANGED <<iterator, advance, carry, di>>
     ELSE /\ offset_coords' = [offset_coords EXCEPT ![Dim] = upto % count]
          /\ carry' = (Carried(Dim) \div count) + (upto \div count)
          /\ advance' = advance + diff
          /\ offset' = offset + diff
          /\ di' = di + 1
          /\ pc' = IF CoversChunk(Dim) /\ offset + diff < slice.end THEN "loop"
                   ELSE IF offset + diff > slice.end THEN "panicked"
                   ELSE "carry"
  /\ UNCHANGED <<slice, chunk, chunk_start, emitted>>

\* The loop has been through every dimension.
LoopEnds ==
  /\ pc = "loop"
  /\ di = Rank
  /\ pc' = "carry"
  /\ UNCHANGED <<slice, iterator, locals, emitted>>

\* A pass of the second loop: the left-over carry goes into the lowest
\* dimension not reached, until nothing is carried.
CarryOver ==
  /\ pc = "carry"
  /\ di < Rank
  /\ offset_coords' = [offset_coords EXCEPT ![Dim] = Carried(Dim) % slice.counts[Dim]]
  /\ carry' = Carried(Dim) \div slice.counts[Dim]
  /\ di' = di + 1
  /\ pc' = IF carry' = 0 THEN "return" ELSE "carry"
  /\ UNCHANGED <<slice, offset, chunk, chunk_start, advance, emitted>>

\* next() returns the run of values it advanced over, or notices that it has not
\* advanced, if that is asserted.
Return ==
  LET chunk_end == chunk_start + advance
  IN
  /\ pc = "return" \/ (pc = "carry" /\ di = Rank)
  /\ IF chunk_end > Product(slice.ds.chunk_shape)
     THEN pc' = "panicked" /\ UNCHANGED emitted
     ELSE /\ pc' \in {"next"} \cup (IF advance = 0 THEN {"panicked"} ELSE {})
          /\ emitted' = emitted \o
               [k \in 1..advance |-> [addr |-> chunk.addr,
                                      at   |-> chunk_start + k - 1]]
  /\ UNCHANGED <<slice, iterator, locals>>

Next ==
  \/ Exhausted \/ NextScalar \/ Locate
  \/ PassSingle \/ PassAdvance \/ LoopEnds \/ CarryOver \/ Return

Spec == Init /\ [][Next]_vars

\* A consumer drives the iterator until it returns None: every reader collects
\* it or loops over it to the end.
FairSpec == Spec /\ WF_vars(Next)

-------------------------------------------------------------------------------
Wanted == SliceOf(slice.ds, slice.indices, slice.counts)

\* The runs returned so far, joined, are the beginning of the slice, and
\* between two calls the iterator's count of values is the number of values it
\* has returned.  The readers place each run at that count in their buffers
\* (dataset.rs:285, 321).
JoinIsSlice ==
  LET want == Wanted
  IN /\ Len(emitted) <= Len(want)
     /\ \A k \in 1..Len(emitted) : emitted[k] = want[k]
     /\ pc \in {"next", "done"} => Len(emitted) = offset

\* No assertion of the iterator fails (dataset.rs:518, 601, 621, 629), and no
\* subtraction underflows.
NeverPanics == pc # "panicked"

\* Between two calls the coordinates name the next value of the slice: the
\* iterator keeps its position twice, as a count and as coordinates, and the
\* two never part.
PositionsAgree ==
  (pc = "next" /\ offset < slice.end) =>
    offset_coords = Unravel(offset, slice.counts)

\* The iterator ends, for every request, whether or not the build asserts that a
\* call advances: no reader loops for ever over empty runs (dataset.rs:621).
Terminates == <>(pc \in {"done", "panicked"})
===============================================================================
