------------------------------ MODULE MCGroupIndex ------------------------------
(***************************************************************************)
(* GroupIndex on two families of files.  Files of one dataset, for what    *)
(* can be said of a dataset: up to two dimensions and MaxChunks chunks     *)
(* with any of them allocated, contiguous ones, and every pipeline of up   *)
(* to MaxFilters filters.  Files of several groups, for the walk: two      *)
(* datasets and two groups in the root, a group in one of these, and each  *)
(* kind of dataset in several places.                                      *)
(***************************************************************************)
EXTENDS GroupIndex, Grid

CONSTANTS MaxExtent, MaxChunk, MaxChunks, MaxFilters

ChunksOf(shape, chunk) ==
  LET ds == GridDataset(shape, chunk)
  IN {ds.chunks[n] : n \in 1..Len(ds.chunks)}

File(shape, chunk, address, allocated, filters, dsize) ==
  [shape |-> shape, chunk |-> chunk, address |-> address, allocated |-> allocated,
   filters |-> filters, dsize |-> dsize, skipped |-> [a \in {c.addr : c \in allocated} |-> {}]]

ChunkedFiles(rank) ==
  UNION {LET grid == ChunksOf(l[1], l[2])
         IN IF Cardinality(grid) > MaxChunks THEN {}
            ELSE {File(l[1], l[2], NoAddress, a, << >>, 2) : a \in SUBSET grid}
           : l \in [1..rank -> 1..MaxExtent] \X [1..rank -> 1..MaxChunk]}

\* Contiguous datasets, scalars among them, and those with their values in the
\* header, or not allocated yet: these have no address.
FlatFiles(rank) ==
  {File(s, NotChunked, a, {}, << >>, 2) : s \in [1..rank -> 1..MaxExtent], a \in {1000, NoAddress}}

Pipelines(n) == UNION {[1..k -> {"shuffle", "deflate", "other"}] : k \in 0..n}

\* Chunks of three values, for with two shuffling is its own inverse; any of the
\* filters may have been left out for the first chunk.
FilteredFiles(n) ==
  UNION {{[File(<<5>>, <<3>>, NoAddress, ChunksOf(<<5>>, <<3>>), p, dsize)
             EXCEPT !.skipped[1] = skipped] : skipped \in SUBSET (1..Len(p))}
         : p \in Pipelines(n), dsize \in {1, 2, 3, 4}}

GroupOf(datasets, broken, groups) ==
  [datasets |-> datasets, broken |-> broken, groups |-> groups]

SingleTrees ==
  {GroupOf([x \in {"x"} |-> d], {}, << >>) :
     d \in UNION {ChunkedFiles(rank) : rank \in 1..2}
             \cup UNION {FlatFiles(rank) : rank \in 0..2}
             \cup FilteredFiles(MaxFilters)}

-------------------------------------------------------------------------------
\* The kinds of dataset in a tree, told apart by where they are stored.
Moved(d, by) ==
  [d EXCEPT !.allocated = {[c EXCEPT !.addr = @ + by] : c \in d.allocated},
            !.skipped   = [a \in {c.addr + by : c \in d.allocated} |-> {}]]

Whole(at)       == Moved(File(<<3>>, <<2>>, NoAddress, ChunksOf(<<3>>, <<2>>), <<"shuffle">>, 2), at)
Incomplete(at)  == [Whole(at) EXCEPT !.allocated = {}]
Contig(at)      == File(<<2>>, NotChunked, at, {}, << >>, 2)
InHeader        == File(<< >>, NotChunked, NoAddress, {}, << >>, 2)
HighRank(at)    == File([d \in 1..10 |-> 1], NotChunked, at, {}, << >>, 2)

Kinds(at) == {Whole(at), Incomplete(at), Contig(at), InHeader}

\* Groups with the datasets of the given names, each of any of its kinds.
WithX(at, groups) ==
  {GroupOf([x \in {"x"} |-> d], {}, groups) : d \in Kinds(at)}
    \cup {GroupOf([x \in {"x"} |-> Contig(at)], {"x"}, groups), GroupOf(<< >>, {}, groups)}

Inner  == WithX(40, << >>)
Nested == UNION {WithX(30, [b \in {"b"} |-> g]) : g \in Inner} \cup WithX(30, << >>)

GroupTrees ==
  {GroupOf([m \in {"x", "y"} |-> IF m = "x" THEN d ELSE Whole(20)], {}, [g \in {"a", "b"} |-> IF g = "a" THEN n ELSE i]) :
     d \in Kinds(10) \cup {HighRank(10)}, n \in Nested, i \in {GroupOf([x \in {"x"} |-> Contig(50)], {}, << >>)}}

MCTrees == SingleTrees \cup GroupTrees
MCPaths == UNION {[1..n -> {"", "a", "b", "x"}] : n \in 1..4}
===============================================================================
