------------------------------- MODULE DirectCall -------------------------------
(***************************************************************************)
(* What the two calls of the direct reader (src/src/reader/direct.rs) have *)
(* in common, read_to and read_to_par: the checks they begin with, and     *)
(* Dataset::group_chunk_slices, which goes through the runs of the slice,  *)
(* gives each the place in the buffer it goes to, and sorts them by the    *)
(* address of their chunk.  The sort is unstable: the segments of one      *)
(* chunk come in any order.                                                *)
(***************************************************************************)
EXTENDS ReadRequests

VARIABLES
  call,      \* the request and the buffer's length, of the latest call
  outcome,   \* "busy" during the call, then "ok" or "err"
  returned,  \* the number of bytes a successful call reports
  dst,       \* the caller's buffer
  phase,     \* "check", "scan" or "read"
  offset,    \* the scan's sum of the sizes of the runs before
  scanned,   \* how many runs the scan has been through
  segs       \* the segments: runs, each with the place it goes to

callVars == <<call, outcome, returned, dst>>
scanVars == <<phase, offset, scanned, segs>>

Calls == [request : Requests, len : DstLens]

TheRuns == Runs[call.request]

Fresh(len) == [k \in 0..(len - 1) |-> Untouched]

InitCall ==
  /\ call \in Calls
  /\ outcome = "busy"
  /\ returned = 0
  /\ dst = Fresh(call.len)
  /\ phase = "check"
  /\ offset = 0
  /\ scanned = 0
  /\ segs = {}

Refused == call.request \in IllRanked \/ call.len < Vsz(call.request)

\* The extents do not fit the dataset's rank, or the buffer is too small.
Refuse ==
  /\ outcome = "busy" /\ phase = "check"
  /\ Refused
  /\ outcome' = "err"
  /\ UNCHANGED <<call, returned, dst, scanVars>>

Accept ==
  /\ outcome = "busy" /\ phase = "check"
  /\ ~Refused
  /\ phase' = "scan"
  /\ UNCHANGED <<callVars, offset, scanned, segs>>

\* As a mutant: a segment is placed where it ends.
ScanAfter ==
  /\ outcome = "busy" /\ phase = "scan"
  /\ scanned < Len(TheRuns)
  /\ LET run == TheRuns[scanned + 1]
     IN /\ offset' = offset + (run.end - run.start)
        /\ segs' = segs \cup {[addr |-> run.addr, current |-> offset',
                               start |-> run.start, end |-> run.end]}
  /\ scanned' = scanned + 1
  /\ UNCHANGED <<callVars, phase>>

\* As a mutant: the offset stays where it is.
ScanInPlace ==
  /\ outcome = "busy" /\ phase = "scan"
  /\ scanned < Len(TheRuns)
  /\ LET run == TheRuns[scanned + 1]
     IN segs' = segs \cup {[addr |-> run.addr, current |-> offset,
                            start |-> run.start, end |-> run.end]}
  /\ scanned' = scanned + 1
  /\ UNCHANGED <<callVars, phase, offset>>

\* The scan of group_chunk_slices, for one run.
Scan ==
  /\ outcome = "busy" /\ phase = "scan"
  /\ scanned < Len(TheRuns)
  /\ LET run == TheRuns[scanned + 1]
     IN /\ segs' = segs \cup {[addr |-> run.addr, current |-> offset,
                               start |-> run.start, end |-> run.end]}
        /\ offset' = offset + (run.end - run.start)
  /\ scanned' = scanned + 1
  /\ UNCHANGED <<callVars, phase>>

AllScanned ==
  /\ outcome = "busy" /\ phase = "scan"
  /\ scanned = Len(TheRuns)
  /\ phase' = "read"
  /\ UNCHANGED <<callVars, offset, scanned, segs>>

\* As a mutant: the next call goes on with the scan of the last.
CallAgainScanned ==
  /\ outcome \in {"ok", "err"}
  /\ call' \in Calls
  /\ outcome' = "busy"
  /\ returned' = 0
  /\ dst' = Fresh(call'.len)
  /\ phase' = "check"
  /\ UNCHANGED <<offset, scanned, segs>>

\* The caller calls again, with a buffer of its own.
CallAgain ==
  /\ outcome \in {"ok", "err"}
  /\ call' \in Calls
  /\ outcome' = "busy"
  /\ returned' = 0
  /\ dst' = Fresh(call'.len)
  /\ phase' = "check"
  /\ offset' = 0
  /\ scanned' = 0
  /\ segs' = {}

\* Reading one segment is done: it is copied from its chunk to its place.
CopySegment(seg, data) ==
  dst' = Copied(dst, Current(seg), data, Start(seg), Size(seg))

Return(result) ==
  /\ outcome' = result
  /\ returned' = IF result = "ok" THEN Vsz(call.request) ELSE returned

-------------------------------------------------------------------------------
Segments == [addr : Addrs, current : Nat, start : 0..ChunkLen, end : 0..ChunkLen]

CallTypeOK ==
  /\ call \in Calls
  /\ outcome \in {"busy", "ok", "err"}
  /\ returned \in Nat
  /\ dst \in [0..(call.len - 1) -> Byte]
  /\ phase \in {"check", "scan", "read"}
  /\ offset \in Nat
  /\ scanned \in 0..Len(TheRuns)
  /\ segs \in SUBSET Segments

\* A call within the dataset that reports success has filled the buffer with
\* the slice, and has left the rest of the buffer alone.
OkMeansSlice ==
  (outcome = "ok" /\ Within(call.request)) =>
    /\ returned = Vsz(call.request)
    /\ HasSlice(dst, call.request)
    /\ RestUntouched(dst, call.request)

\* The promise of Reader, of a call that takes effect when it returns.
Promise == INSTANCE Reader WITH
  buffer <- IF outcome = "ok" THEN dst ELSE << >>

KeepsPromise == Promise!Spec
===============================================================================
