------------------------------ MODULE ReadRequests ------------------------------
(***************************************************************************)
(* What the readers of a dataset share: the requests a caller can make,    *)
(* the runs that Dataset::chunk_slices cuts each of them into, and the     *)
(* bytes a decoded chunk consists of.  The runs are a parameter: the       *)
(* readers are right for every way of cutting a slice that joins to it,    *)
(* which is what ChunkSlicer is checked to deliver.                        *)
(***************************************************************************)
EXTENDS Integers, Sequences

CONSTANTS
  Addrs,      \* file addresses of the dataset's chunks
  ChunkLen,   \* values in a chunk
  Dsz,        \* bytes of a value
  Requests,   \* names of the extents a caller may ask for
  Runs,       \* per request, the runs chunk_slices yields, in values: records
              \*   of addr, start, end and of current, where it goes
  Counts,     \* per request, the product of its counts
  Slice,      \* per request, the sequence of bytes it stands for
  IllRanked,  \* the requests whose rank is not the dataset's
  DstLens     \* lengths of the buffers a caller may pass, in bytes

\* The size in bytes of a decoded chunk, and of what a request asks for.
ChunkSz == ChunkLen * Dsz
Vsz(r)  == Counts[r] * Dsz

\* A byte is named by the chunk it is in and its position there; what the
\* caller's buffer held before the call is one more byte.
Untouched == << -1, -1 >>
Byte      == (Addrs \X Nat) \cup {Untouched}

\* read_chunk followed by decode_chunk: the chunk's bytes.
Decoded(a) == [i \in 0..(ChunkSz - 1) |-> <<a, i>>]

\* A run in bytes.
Start(run)   == run.start * Dsz
End(run)     == run.end * Dsz
Current(run) == run.current * Dsz
Size(run)    == End(run) - Start(run)

Run(r, n) == Runs[r][n]

\* The positions of the buffer the run goes to.
Window(run) == Current(run)..(Current(run) + Size(run) - 1)

\* The buffer after size bytes of src, from position from, are copied to it
\* at position to.
Copied(dst, to, src, from, size) ==
  [k \in DOMAIN dst |->
     IF to <= k /\ k < to + size THEN src[from + (k - to)] ELSE dst[k]]

\* chunk_slices yields no runs for a request that leaves the dataset, whatever
\* the size it asks for.
Within(r) == Runs[r] # << >> \/ Counts[r] = 0

\* The buffer begins with the request's slice; the rest is as the caller left
\* it.
HasSlice(dst, r) == \A k \in 0..(Vsz(r) - 1) : dst[k] = Slice[r][k + 1]

RestUntouched(dst, r) ==
  \A k \in DOMAIN dst : k >= Vsz(r) => dst[k] = Untouched

-------------------------------------------------------------------------------
ASSUME ParameterAssumption ==
  /\ Addrs \subseteq Nat
  /\ ChunkLen \in Nat \ {0}
  /\ Dsz \in Nat \ {0}
  /\ Counts \in [Requests -> Nat]
  /\ IllRanked \subseteq Requests
  /\ DstLens \subseteq Nat

RunType == [addr : Addrs, start : 0..ChunkLen, end : 0..ChunkLen, current : Nat]

\* Every run lies in its chunk and is not empty.
ASSUME RunsAssumption ==
  /\ Runs \in [Requests -> Seq(RunType)]
  /\ \A r \in Requests : \A n \in 1..Len(Runs[r]) :
       Run(r, n).start < Run(r, n).end

\* `current` counts the values of the runs before, and all runs together have
\* as many values as the request has counts.
ASSUME CurrentAssumption ==
  \A r \in Requests :
    \A n \in 1..Len(Runs[r]) :
      LET next == Run(r, n).current + (Run(r, n).end - Run(r, n).start)
      IN /\ n = 1 => Run(r, n).current = 0
         /\ next = IF n < Len(Runs[r]) THEN Run(r, n + 1).current ELSE Counts[r]

\* The runs, joined, are the slice.
ASSUME JoinAssumption ==
  /\ Slice \in [Requests -> Seq(Addrs \X Nat)]
  /\ \A r \in Requests :
    \A n \in 1..Len(Runs[r]) :
      \A k \in Window(Run(r, n)) :
        Slice[r][k + 1] = <<Run(r, n).addr, Start(Run(r, n)) + (k - Current(Run(r, n)))>>
===============================================================================
