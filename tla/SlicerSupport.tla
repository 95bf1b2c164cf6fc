----------------------------- MODULE SlicerSupport -----------------------------
(***************************************************************************)
(* For which requests the slicer is right.  The loop of ChunkSlicer::next  *)
(* continues into the next higher dimension when the slice covers the      *)
(* chunk in this one; that is sound as long as what it passes over is      *)
(* consecutive in the chunk.  It is not when the chunk is cut at the edge  *)
(* of the dataset (its rows are still chunk_shape long on disk), nor when  *)
(* a dimension it passed already comes round again.  `Supported` says so   *)
(* in terms of the request.                                                *)
(***************************************************************************)
EXTENDS ChunkSlicer

\* The indices of a slice in dimension d, and the last of them.
IndicesIn(s, d) == s.indices[d]..(s.indices[d] + s.counts[d] - 1)
LastIndex(s, d) == s.indices[d] + s.counts[d] - 1

\* The extent, in dimension d, of the chunks of index x, cut at the edge.
Extent(s, d, x) ==
  LET size == s.ds.chunk_shape[d]
  IN Lesser(size, s.ds.shape[d] - (x \div size) * size)

\* The slice covers, in dimension d, all there is of its chunk.
Covers(s, d) ==
  /\ s.indices[d] % s.ds.chunk_shape[d] = 0
  /\ s.counts[d] = Extent(s, d, s.indices[d])

\* The innermost dimension that the slice covers only partly, 0 if none.
Innermost(s) ==
  LET partial == {d \in 1..Len(s.counts) : ~Covers(s, d)}
  IN IF partial = {} THEN 0 ELSE CHOOSE d \in partial : \A e \in partial : e <= d

\* Of the chunks of index x the slice has no other index.
Alone(s, d, x) ==
  \A y \in IndicesIn(s, d) :
    y \div s.ds.chunk_shape[d] = x \div s.ds.chunk_shape[d] => y = x

\* What is within one index of dimension d is consecutive in the chunk.
Full(s, d) == \A e \in (d + 1)..Len(s.counts) : s.counts[e] = s.ds.chunk_shape[e]

\* There is one index only in the dimensions up to d: with one value of each of the
\* others the slice is at its end.
OneUpTo(s, d) == \A e \in 1..d : s.counts[e] = 1

\* The pass for such a dimension carries over and does nothing else.
Skipped(s, d, x) == Extent(s, d, x) = 1 /\ s.ds.chunk_dim_sz[d] # 1

\* The loop may pass dimension d, which the slice covers.
MayPass(s, d) ==
  IF Extent(s, d, s.indices[d]) = 1 THEN Skipped(s, d, s.indices[d]) ELSE Full(s, d)

\* It may come to index x of dimension d, which the slice covers only partly: the
\* chunk is skipped there, and in each dimension above; or no other index is in it,
\* and so there is nothing to advance; or all of what it advances over is one block.
MayStop(s, d, x) ==
  \/ OneUpTo(s, d - 1) /\ x = LastIndex(s, d)
  \/ Skipped(s, d, x) /\ \A e \in 1..(d - 1) : \A y \in IndicesIn(s, e) : Extent(s, e, y) = 1
  \/ /\ ~Skipped(s, d, x)
     /\ IF Alone(s, d, x) THEN x # LastIndex(s, d) ELSE Full(s, d)

Supported(s) ==
  LET p == Innermost(s)
  IN \A d \in 1..(Len(s.counts) - 1) :
       \/ d < p \/ OneUpTo(s, d)
       \/ d > p /\ MayPass(s, d)
       \/ d = p /\ \A x \in IndicesIn(s, d) : MayStop(s, d, x)

-------------------------------------------------------------------------------
\* For a supported request the runs join to the slice from the first one on, and
\* each belongs where the iterator's count says (dataset.rs:285, 321): a reader
\* that stops half way, and one that places the runs in a buffer, is right too.
JoinsIfSupported == JoinIsSlice \/ ~Supported(slice)

\* The slicer is right, and all of the slice is returned, for exactly the
\* supported requests: for the others it panics in a debug build or returns
\* something else than the slice (dataset.rs:559, 569).
RightExactlyIfSupported ==
  pc \in {"done", "panicked"} =>
    (pc = "done" /\ emitted = Wanted <=> Supported(slice))

\* For a supported request the iterator's two positions, the count and the
\* coordinates, never part, however often a carry ran through the dimensions
\* (dataset.rs:575, 611).
PositionsAgreeIfSupported == PositionsAgree \/ ~Supported(slice)
===============================================================================
