----------------------------- MODULE MCReadRequests -----------------------------
(***************************************************************************)
(* The requests of the readers' bounded instances: a dataset of 2 by 6     *)
(* values in three chunks of 2 by 2, so that a row visits every chunk and  *)
(* a slice of two rows comes back to each; slices that begin and end       *)
(* inside of chunks; one whole chunk, so that a chunk is used again alone; *)
(* and the requests that do not reach the chunks: one that leaves the      *)
(* dataset, an empty one, and one of another rank.                         *)
(***************************************************************************)
EXTENDS Integers, Sequences

LOCAL INSTANCE Grid

DS == GridDataset(<<2, 6>>, <<2, 2>>)

\* Start indices and counts of each request.
Extents ==
  << [indices |-> <<0, 0>>, counts |-> <<2, 6>>],
     [indices |-> <<0, 1>>, counts |-> <<2, 3>>],
     [indices |-> <<1, 0>>, counts |-> <<1, 6>>],
     [indices |-> <<1, 3>>, counts |-> <<2, 2>>],
     [indices |-> <<0, 2>>, counts |-> <<0, 3>>],
     [indices |-> <<0, 0>>, counts |-> <<1, 1>>],
     [indices |-> <<0, 2>>, counts |-> <<2, 2>>] >>

MCAddrs == {DS.chunks[n].addr : n \in 1..Len(DS.chunks)}
MCChunkLen == Product(DS.chunk_shape)
MCRequests == 1..Len(Extents)
MCIllRanked == {6}
CountTable == AsTuple([r \in MCRequests |-> Product(Extents[r].counts)])

Values(r) ==
  IF EmptyRequest(DS, Extents[r].indices, Extents[r].counts) THEN << >>
  ELSE SliceOf(DS, Extents[r].indices, Extents[r].counts)

RunTable == AsTuple([r \in MCRequests |-> LongestRuns(Values(r))])

\* TLC computes a definition without parameters once, but one that a cfg puts
\* for a constant at every use: the tables have a name of their own.
MCRuns == RunTable
MCCounts == CountTable

\* The bytes of the values, of Dsz bytes each.
SliceBytes(dsz) ==
  AsTuple([r \in MCRequests |->
     AsTuple([k \in 1..(dsz * Len(Values(r))) |->
                LET v == Values(r)[((k - 1) \div dsz) + 1]
                IN <<v.addr, dsz * v.at + ((k - 1) % dsz)>>])])
===============================================================================
