-------------------------------- MODULE Extents --------------------------------
(***************************************************************************)
(* From what a caller writes to the slice that is read                     *)
(* (src/src/extent.rs, and the check in Dataset::chunk_slices): the ranges *)
(* of each dimension are converted to extents, the extents are given the   *)
(* dataset's shape and become start indices and counts, once for the size  *)
(* of the buffer and once more for the slice itself, and a slice that      *)
(* leaves the dataset is replaced by an empty one.  The build is a release *)
(* build: indices have Width bits, and sums wrap around.                   *)
(***************************************************************************)
EXTENDS Dataset

CONSTANTS
  Width,    \* bits of an index: 64 in the code
  Shapes,   \* shapes of datasets
  Asked     \* what callers write: All, or Each with a range per dimension, or
            \*   Pairs with start indices and counts

Forms == {"index", "from", "full", "range", "inclusive", "counted"}
Strange == {"stride", "newaxis", "negative"}

\* An index has Width bits.  (How powers of two grow is stated for the provers,
\* which know no exponentiation.)
ASSUME WidthAssumption ==
  /\ Width \in Nat \ {0}
  /\ 2^(Width - 1) \in Nat \ {0}
  /\ 2^Width = 2 * 2^(Width - 1)

ASSUME ShapesAssumption == Shapes \subseteq Seq(0..(2^Width - 1))

ASSUME AskedAssumption ==
  Asked \subseteq [all : BOOLEAN, uneven : BOOLEAN,
                  each : Seq([form : Forms \cup Strange, start : 0..(2^Width - 1),
                              end : 0..(2^Width - 1)])]

VARIABLES
  asked, shape,
  extents,   \* what `asked` was converted to
  counts,    \* the counts that size the buffer
  window,    \* the start indices and counts of the slice
  pc         \* "asked", "converted", "sized", "sliced" or "refused"

vars == <<asked, shape, extents, counts, window, pc>>

Wrap(n) == n % 2^Width

NoExtents == [all |-> TRUE, each |-> << >>]
NoWindow  == [indices |-> << >>, counts |-> << >>, empty |-> TRUE]

-------------------------------------------------------------------------------
\* The number of elements of start..end.
Elements(start, end) == IF start < end THEN end - start ELSE 0

\* The conversions to Extent, of the forms of range there are; a range without
\* a start has start 0.
Convert(r) ==
  CASE r.form = "index"           -> [kind |-> "Index", start |-> r.start]
    [] r.form \in {"from", "full"} -> [kind |-> "Slice", start |-> r.start]
    [] r.form = "range"           ->
         [kind |-> "SliceEnd", start |-> r.start, end |-> r.end]
    [] r.form = "inclusive"       ->
         [kind |-> "SliceEnd", start |-> r.start, end |-> Wrap(r.end + 1)]
    [] r.form = "counted"         ->
         [kind |-> "SliceCount", start |-> r.start, count |-> r.end]

\* An element of ndarray's s![..] that is not a plain range.
Unsupported(r) == r.form \in Strange

\* As a mutant: an open range is as long as the dimension.
CanonicalCountWhole(e, dimsize) ==
  CASE e.kind = "Index"      -> 1
    [] e.kind = "Slice"      -> dimsize
    [] e.kind = "SliceEnd"   -> Elements(e.start, e.end)
    [] e.kind = "SliceCount" -> e.count

\* Extent::canonicalise, then count.
CanonicalCount(e, dimsize) ==
  CASE e.kind = "Index"      -> 1
    [] e.kind = "Slice"      -> Elements(e.start, dimsize)
    [] e.kind = "SliceEnd"   -> Elements(e.start, e.end)
    [] e.kind = "SliceCount" -> e.count

\* Extents::get_start_count; get_counts is the second part of it.
StartCount(x, dims) ==
  [ indices |-> [d \in 1..Len(dims) |-> IF x.all THEN 0 ELSE x.each[d].start],
    counts  |-> [d \in 1..Len(dims) |->
                   IF x.all THEN dims[d] ELSE CanonicalCount(x.each[d], dims[d])] ]

\* What canonicalise requires.
RankAgrees(x, dims) == x.all \/ Len(x.each) = Len(dims)

\* The check of Dataset::chunk_slices.
Leaves(i, c, s) ==
  \/ \E d \in 1..Len(s) : Wrap(i[d] + c[d]) > s[d]
  \/ \E d \in 1..Len(s) : c[d] = 0

-------------------------------------------------------------------------------
Init ==
  /\ asked \in Asked
  /\ shape \in Shapes
  /\ extents = NoExtents
  /\ counts = << >>
  /\ window = NoWindow
  /\ pc = "asked"

Refuse == pc' = "refused" /\ UNCHANGED <<asked, shape, extents, counts, window>>

ConvertAll ==
  /\ pc = "asked"
  /\ asked.all
  /\ extents' = NoExtents
  /\ pc' = "converted"
  /\ UNCHANGED <<asked, shape, counts, window>>

\* A range per dimension, or a pair of arrays of the same length.
ConvertEach ==
  /\ pc = "asked"
  /\ ~asked.all
  /\ ~asked.uneven
  /\ \A d \in 1..Len(asked.each) : ~Unsupported(asked.each[d])
  /\ extents' = [all |-> FALSE,
                 each |-> [d \in 1..Len(asked.each) |-> Convert(asked.each[d])]]
  /\ pc' = "converted"
  /\ UNCHANGED <<asked, shape, counts, window>>

ConvertFails ==
  /\ pc = "asked"
  /\ ~asked.all
  /\ asked.uneven \/ \E d \in 1..Len(asked.each) : Unsupported(asked.each[d])
  /\ Refuse

\* What a reader does first: the counts, for the size of the buffer.
GetCounts ==
  /\ pc = "converted"
  /\ RankAgrees(extents, shape)
  /\ counts' = StartCount(extents, shape).counts
  /\ pc' = "sized"
  /\ UNCHANGED <<asked, shape, extents, window>>

WrongRank ==
  /\ pc = "converted"
  /\ ~RankAgrees(extents, shape)
  /\ Refuse

\* And then: chunk_slices, with the same extents.
Slice ==
  /\ pc = "sized"
  /\ LET sc == StartCount(extents, shape)
     IN window' = [ indices |-> sc.indices,
                    counts  |-> sc.counts,
                    empty   |-> Leaves(sc.indices, sc.counts, shape) ]
  /\ pc' = "sliced"
  /\ UNCHANGED <<asked, shape, extents, counts>>

Next == ConvertAll \/ ConvertEach \/ ConvertFails \/ GetCounts \/ WrongRank \/ Slice

Spec == Init /\ [][Next]_vars

-------------------------------------------------------------------------------
(***************************************************************************)
(* What a caller means: the indices a range stands for in a dimension of a *)
(* given size, as Rust and ndarray define them, with numbers of any size.  *)
(***************************************************************************)
Denoted(r, size) ==
  CASE r.form = "index"            -> {r.start}
    [] r.form \in {"from", "full"}  -> r.start..(size - 1)
    [] r.form = "range"            -> r.start..(r.end - 1)
    [] r.form = "inclusive"        -> r.start..r.end
    [] r.form = "counted"          -> r.start..(r.start + r.end - 1)

Means(d) == IF asked.all THEN 0..(shape[d] - 1) ELSE Denoted(asked.each[d], shape[d])

Dims == 1..Len(shape)

InDim(d) == Means(d) # {} /\ Means(d) \subseteq 0..(shape[d] - 1)

\* The slice is what the caller meant when all of it is in the dataset, and
\* empty when part of it is outside or nothing was meant.
IsMeant ==
  IF \A d \in Dims : InDim(d)
  THEN /\ ~window.empty
       /\ \A d \in Dims :
            Means(d) = window.indices[d]..(window.indices[d] + window.counts[d] - 1)
  ELSE window.empty

\* Ranges outside of a dimension of any size that the check takes for one inside.
Slips(r, size) ==
  \/ r.form = "index" /\ r.start + 1 = 2^Width
  \/ /\ r.form = "counted"
     /\ r.start + r.end >= 2^Width
     /\ r.start + r.end - 2^Width <= size

Slipped ==
  /\ ~asked.all
  /\ \A d \in Dims : InDim(d) \/ Slips(asked.each[d], shape[d])
  /\ \E d \in Dims : Slips(asked.each[d], shape[d])

\* What is read is what the caller meant, whichever way it was written, unless a
\* start and a count wrap around in the check, in one dimension at least, to a
\* sum within the dataset, and none of the others is refused: the highest index
\* of all is read as if it were there.  The end of an inclusive range wraps
\* around as well, but to a slice of nothing, as it should.  The buffer is sized
\* for just what is sliced (dataset.rs:294, 297, extent.rs:117, 364).
ReadsWhatIsMeant ==
  pc = "sliced" => counts = window.counts /\ (IsMeant <=> ~Slipped)
===============================================================================
