------------------------------ MODULE DirectSerial ------------------------------
(***************************************************************************)
(* Direct::read_to (src/src/reader/direct.rs): the segments one after the  *)
(* other, in the order of their chunks in the file, with the last chunk    *)
(* read kept for the segments that follow.  The order within a chunk is    *)
(* chosen as the loop goes.                                                *)
(***************************************************************************)
EXTENDS DirectCall

VARIABLES
  fd,          \* "none" or "open"
  todo,        \* the segments the loop has not been through
  last_chunk,  \* the last chunk read: its address and its bytes
  seeks        \* history: the addresses read in this call, in order

serialVars == <<callVars, scanVars, fd, todo, last_chunk, seeks>>

\* last_chunk before the first read.
None == [addr |-> -1, data |-> << >>]

InitSerial ==
  /\ InitCall
  /\ fd = "none"
  /\ todo = {}
  /\ last_chunk = None
  /\ seeks = << >>

PrepareSerial ==
  /\ Refuse \/ Accept \/ Scan
  /\ UNCHANGED <<fd, todo, last_chunk, seeks>>

\* The segments are sorted; the loop will go through all of them.
SortSegments ==
  /\ AllScanned
  /\ todo' = segs
  /\ UNCHANGED <<fd, last_chunk, seeks>>

Open ==
  /\ outcome = "busy" /\ phase = "read" /\ fd = "none"
  /\ fd' = "open"
  /\ UNCHANGED <<callVars, scanVars, todo, last_chunk, seeks>>

OpenFails ==
  /\ outcome = "busy" /\ phase = "read" /\ fd = "none"
  /\ Return("err")
  /\ UNCHANGED <<call, dst, scanVars, fd, todo, last_chunk, seeks>>

Reading == outcome = "busy" /\ phase = "read" /\ fd = "open"

\* As a mutant: the segments are not sorted.
AnySegments == todo

\* A next segment of the sorted list: one of those of the lowest address.
NextSegments == {s \in todo : \A t \in todo : s.addr <= t.addr}

\* As a mutant: the last chunk is taken for the segment's.
SameChunkAssumed ==
  /\ Reading
  /\ last_chunk # None
  /\ \E seg \in NextSegments :
       /\ CopySegment(seg, last_chunk.data)
       /\ todo' = todo \ {seg}
  /\ UNCHANGED <<call, outcome, returned, scanVars, fd, last_chunk, seeks>>

\* The segment's chunk is the last one read.
SameChunk ==
  /\ Reading
  /\ \E seg \in NextSegments :
       /\ seg.addr = last_chunk.addr
       /\ CopySegment(seg, last_chunk.data)
       /\ todo' = todo \ {seg}
  /\ UNCHANGED <<call, outcome, returned, scanVars, fd, last_chunk, seeks>>

\* It is another one: it is read and kept.
NewChunk ==
  /\ Reading
  /\ \E seg \in NextSegments :
       /\ seg.addr # last_chunk.addr
       /\ last_chunk' = [addr |-> seg.addr, data |-> Decoded(seg.addr)]
       /\ seeks' = Append(seeks, seg.addr)
       /\ CopySegment(seg, Decoded(seg.addr))
       /\ todo' = todo \ {seg}
  /\ UNCHANGED <<call, outcome, returned, scanVars, fd>>

\* Reading or decoding the next chunk fails.
ReadFails ==
  /\ Reading
  /\ \E seg \in NextSegments : seg.addr # last_chunk.addr
  /\ Return("err")
  /\ UNCHANGED <<call, dst, scanVars, fd, todo, last_chunk, seeks>>

Finish ==
  /\ Reading
  /\ todo = {}
  /\ Return("ok")
  /\ UNCHANGED <<call, dst, scanVars, fd, todo, last_chunk, seeks>>

\* The file and the last chunk are gone when the call returns.
AgainSerial ==
  /\ CallAgain
  /\ fd' = "none"
  /\ todo' = {}
  /\ last_chunk' = None
  /\ seeks' = << >>

ReadStep ==
  \/ PrepareSerial \/ SortSegments \/ Open \/ OpenFails
  \/ SameChunk \/ NewChunk \/ ReadFails \/ Finish

NextSerial == ReadStep \/ AgainSerial

SpecSerial == InitSerial /\ [][NextSerial]_serialVars

\* A call, once made, runs to its end: read_to is sequential code.
FairSpecSerial == SpecSerial /\ WF_serialVars(ReadStep)

-------------------------------------------------------------------------------
SerialTypeOK ==
  /\ CallTypeOK
  /\ fd \in {"none", "open"}
  /\ todo \in SUBSET segs
  /\ last_chunk = None \/ \E a \in Addrs : last_chunk = [addr |-> a, data |-> Decoded(a)]
  /\ seeks \in Seq(Addrs)

\* The file is read front to back and no chunk is read twice, however the
\* slice goes back and forth between them: that is what the segments are
\* sorted for ("Sort by chunk file address", dataset.rs:330).
ReadsForward ==
  \A m, n \in 1..Len(seeks) : m < n => seeks[m] < seeks[n]
===============================================================================
