---------------------------------- MODULE Grid ----------------------------------
(***************************************************************************)
(* Datasets for the bounded instances, laid out as Dataset::index leaves   *)
(* them, and the cutting of a slice into its longest runs.                 *)
(***************************************************************************)
EXTENDS Dataset
LOCAL Seqs == INSTANCE SequencesExt

\* A dataset as Dataset::index leaves it: all chunks of the grid, sorted.  The
\* addresses run the other way, since the file need not follow the grid.
GridDataset(shape, chunk_shape) ==
  LET grid == [d \in 1..Len(shape) |-> CeilDiv(shape[d], chunk_shape[d])]
      n    == Product(grid)
  IN New(shape,
         [k \in 1..n |->
            [ addr   |-> n - k,
              offset |-> [d \in 1..Len(shape) |->
                            Unravel(k - 1, grid)[d] * chunk_shape[d]] ]],
         chunk_shape)

\* The same sequence; TLC then holds its elements instead of computing each
\* one whenever it is used.
AsTuple(s) == SubSeq(s, 1, Len(s))

\* The runs of a slice: from each value that does not follow the one before it
\* in the same chunk to the next such value.
LongestRuns(s) ==
  LET Follows(k) == k > 1 /\ s[k] = [addr |-> s[k - 1].addr, at |-> s[k - 1].at + 1]
      first == Seqs!SetToSortSeq({k \in 1..Len(s) : ~Follows(k)}, <)
      Until(n) == IF n < Len(first) THEN first[n + 1] - 1 ELSE Len(s)
  IN AsTuple([n \in 1..Len(first) |->
                [ addr    |-> s[first[n]].addr,
                  start   |-> s[first[n]].at,
                  end     |-> s[Until(n)].at + 1,
                  current |-> first[n] - 1 ]])
===============================================================================
