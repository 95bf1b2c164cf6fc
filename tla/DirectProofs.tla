------------------------------- MODULE DirectProofs -------------------------------
(***************************************************************************)
(* The two reads of the direct reader are right for every dataset and      *)
(* every way of cutting a slice into runs that joins to it: the serial     *)
(* read whatever the order in which the segments of a chunk come, and the  *)
(* parallel read for every number of threads.                              *)
(***************************************************************************)
EXTENDS DirectSerial, DirectPar, TLAPS

Arith == INSTANCE ArrayLemmas

-------------------------------------------------------------------------------
(***************************************************************************)
(* What the proofs of the serial and of the parallel read share: the       *)
(* segments that the scan finds tile the slice, and copying one of them    *)
(* writes its own bytes and no others.                                     *)
(***************************************************************************)
\* What the scan has found so far: segments one after the other, that fill
\* the buffer up to `offset`, and say of each byte what the slice says.
ScanInv ==
  /\ phase = "check" => scanned = 0
  /\ phase = "read" => scanned = Len(TheRuns)
  /\ phase # "check" => ~Refused
  /\ scanned = 0 => offset = 0
  /\ scanned < Len(TheRuns) => offset = (IF scanned = 0 THEN 0 ELSE TheRuns[scanned + 1].current)
  /\ (scanned = Len(TheRuns) /\ scanned > 0) => offset = Counts[call.request]

SegsInv ==
  /\ \A s \in segs : Current(s) + Size(s) <= offset * Dsz
  /\ \A s, t \in segs : s # t => Window(s) \cap Window(t) = {}
  /\ \A k \in 0..(offset * Dsz - 1) : \E s \in segs : k \in Window(s)
  /\ \A s \in segs : \A k \in Window(s) :
       Slice[call.request][k + 1] = <<s.addr, Start(s) + (k - Current(s))>>

\* A step as far as the request and what the scan has found are concerned.
CallStep ==
  \/ Accept \/ Scan \/ AllScanned \/ CallAgain
  \/ UNCHANGED <<call, phase, offset, scanned, segs>>

-------------------------------------------------------------------------------
\* Arithmetic of values and bytes: multiplying by the size of a value keeps sums
\* and order.
LEMMA Scaling ==
  ASSUME NEW a \in Nat, NEW b \in Nat
  PROVE  /\ a * Dsz \in Nat
         /\ (a + b) * Dsz = a * Dsz + b * Dsz
         /\ a <= b => a * Dsz <= b * Dsz
         /\ a < b => a * Dsz < b * Dsz
<1>1. Dsz \in Nat \ {0}
  BY ParameterAssumption
<1> QED
  BY <1>1, Arith!ScaledBy

\* A run begins where the run before it ended, and ends within the request.
LEMMA RunFollows ==
  ASSUME NEW r \in Requests, NEW n \in 1..Len(Runs[r])
  PROVE  LET next == Runs[r][n].current + (Runs[r][n].end - Runs[r][n].start)
         IN /\ n = 1 => Runs[r][n].current = 0
            /\ n < Len(Runs[r]) => next = Runs[r][n + 1].current
            /\ n = Len(Runs[r]) => next = Counts[r]
BY CurrentAssumption DEF Run

\* The bytes of a segment are within its chunk, as those of a run are.
LEMMA SegmentBytes ==
  ASSUME NEW s \in Segments
  PROVE  /\ Start(s) \in Nat /\ End(s) \in Nat /\ Current(s) \in Nat
         /\ End(s) <= ChunkSz
         /\ ChunkSz \in Nat
         /\ Size(s) = End(s) - Start(s)
         /\ Window(s) \subseteq Nat
         /\ \A k \in Window(s) : Start(s) + (k - Current(s)) \in 0..(ChunkSz - 1)
<1>1. /\ s.start \in Nat /\ s.end \in Nat /\ s.current \in Nat /\ s.end <= ChunkLen
      /\ ChunkLen \in Nat
  BY ParameterAssumption DEF Segments, RunType
<1>2. /\ Start(s) \in Nat /\ End(s) \in Nat /\ Current(s) \in Nat
      /\ End(s) <= ChunkSz /\ ChunkSz \in Nat
  BY <1>1, Scaling DEF Start, End, Current, ChunkSz
<1>3. Size(s) = End(s) - Start(s)
  BY DEF Size
<1> QED
  BY <1>2, <1>3 DEF Window

\* The checks, the scan and the next call keep the types of what they share.
LEMMA CallTypePreserved ==
  ASSUME CallTypeOK, Refuse \/ Accept \/ Scan \/ AllScanned \/ CallAgain
  PROVE  /\ CallTypeOK'
         /\ ~CallAgain => segs \subseteq segs'
<1> USE DEF CallTypeOK
<1>1. CASE Refuse
  BY <1>1 DEF Refuse, scanVars, TheRuns
<1>2. CASE Accept
  BY <1>2 DEF Accept, callVars, TheRuns
<1>3. CASE Scan
  <2> DEFINE run == TheRuns[scanned + 1]
  <2>1. scanned + 1 \in 1..Len(TheRuns) /\ call.request \in Requests
    BY <1>3, RunsAssumption DEF Scan, TheRuns, Calls
  <2>2. run \in RunType /\ run.start < run.end
    BY <2>1, RunsAssumption DEF TheRuns, Run
  <2>3. /\ [addr |-> run.addr, current |-> offset, start |-> run.start, end |-> run.end] \in Segments
        /\ offset + (run.end - run.start) \in Nat
    BY <2>2, ParameterAssumption DEF RunType, Segments
  <2>4. /\ segs' = segs \cup {[addr |-> run.addr, current |-> offset,
                               start |-> run.start, end |-> run.end]}
        /\ offset' = offset + (run.end - run.start)
        /\ scanned' = scanned + 1
        /\ UNCHANGED <<call, outcome, returned, dst, phase>>
    BY <1>3 DEF Scan, callVars
  <2> HIDE DEF run
  <2>5. segs' \in SUBSET Segments /\ offset' \in Nat /\ scanned' \in 0..Len(TheRuns)
    BY <2>1, <2>3, <2>4
  <2> QED
    BY <2>4, <2>5 DEF TheRuns
<1>4. CASE AllScanned
  BY <1>4 DEF AllScanned, callVars, TheRuns
<1>5. CASE CallAgain
  <2>1. /\ call' \in Calls /\ outcome' = "busy" /\ returned' = 0
        /\ dst' = Fresh(call'.len) /\ phase' = "check" /\ offset' = 0
        /\ scanned' = 0 /\ segs' = {}
    BY <1>5 DEF CallAgain
  <2>2. dst' \in [0..(call'.len - 1) -> Byte]
    BY <2>1 DEF Fresh, Byte
  <2>3. Len(TheRuns') \in Nat
    BY <2>1, RunsAssumption DEF TheRuns, Calls
  <2> QED
    BY <1>5, <2>1, <2>2, <2>3
<1> QED
  BY <1>1, <1>2, <1>3, <1>4, <1>5

\* The scan of group_chunk_slices (dataset.rs:318-327) is always at the place in
\* the buffer where the run it comes to begins.
LEMMA ScanPreserved ==
  ASSUME CallTypeOK, ScanInv, CallStep
  PROVE  ScanInv'
<1> USE DEF ScanInv
<1>0. /\ call.request \in Requests
      /\ Len(TheRuns) \in Nat
      /\ scanned \in 0..Len(TheRuns)
      /\ TheRuns = Runs[call.request]
  BY RunsAssumption DEF CallTypeOK, Calls, TheRuns
<1>1. CASE Accept
  BY <1>0, <1>1 DEF Accept, callVars, TheRuns, Refused
<1>2. CASE Scan
  <2> DEFINE n == scanned + 1
  <2>1. /\ n \in 1..Len(TheRuns) /\ scanned' = n /\ scanned' # 0
        /\ offset' = offset + (TheRuns[n].end - TheRuns[n].start)
        /\ UNCHANGED <<call, phase>> /\ phase = "scan"
    BY <1>0, <1>2 DEF Scan, callVars
  <2>2. offset = TheRuns[n].current
    BY <1>0, <2>1, RunFollows
  <2>3. /\ n < Len(TheRuns) => offset' = TheRuns[n + 1].current
        /\ n = Len(TheRuns) => offset' = Counts[call.request]
    BY <1>0, <2>1, <2>2, RunFollows
  <2> HIDE DEF n
  <2> QED
    BY <1>0, <2>1, <2>3 DEF TheRuns, Refused
<1>3. CASE AllScanned
  BY <1>0, <1>3 DEF AllScanned, callVars, TheRuns, Refused
<1>4. CASE CallAgain
  <2>1. scanned' = 0 /\ offset' = 0 /\ phase' = "check" /\ call'.request \in Requests
    BY <1>4 DEF CallAgain, Calls
  <2> QED
    BY <2>1, RunFollows DEF TheRuns
<1>5. CASE UNCHANGED <<call, phase, offset, scanned, segs>>
  BY <1>5 DEF TheRuns, Refused
<1> QED
  BY <1>1, <1>2, <1>3, <1>4, <1>5 DEF CallStep

\* A run that the scan adds fills the bytes that follow those of the segments
\* before, and no byte of theirs.
LEMMA SegsPreserved ==
  ASSUME CallTypeOK, ScanInv, SegsInv, CallStep
  PROVE  SegsInv'
<1> USE DEF SegsInv
<1>1. CASE Scan
  <2> DEFINE r   == call.request
             run == TheRuns[scanned + 1]
             new == [addr |-> run.addr, current |-> offset, start |-> run.start, end |-> run.end]
  <2>1. /\ r \in Requests /\ offset \in Nat
        /\ scanned + 1 \in 1..Len(TheRuns) /\ TheRuns = Runs[r]
    BY <1>1, RunsAssumption DEF CallTypeOK, Calls, TheRuns, Scan
  <2>2. /\ segs' = segs \cup {new}
        /\ offset' = offset + (run.end - run.start)
        /\ UNCHANGED call
    BY <1>1 DEF Scan, callVars
  <2>3. run \in RunType /\ run.start < run.end
    BY <2>1, RunsAssumption DEF Run
  <2>4. offset = run.current
    BY <2>1, <1>1, RunFollows DEF ScanInv, Scan
  <2>5. /\ Current(new) = Current(run) /\ Start(new) = Start(run) /\ End(new) = End(run)
        /\ Size(new) = Size(run) /\ Window(new) = Window(run)
    BY <2>4 DEF Current, Start, End, Size, Window
  <2>6. \A k \in Window(new) :
          Slice[r][k + 1] = <<new.addr, Start(new) + (k - Current(new))>>
    <3>1. \A k \in Window(run) :
            Slice[r][k + 1] = <<run.addr, Start(run) + (k - Current(run))>>
      BY <2>1, JoinAssumption DEF Run
    <3> QED
      BY <2>5, <3>1
  <2>7. /\ Current(new) = offset * Dsz /\ offset * Dsz \in Nat
        /\ Size(new) \in Nat
        /\ offset' * Dsz = offset * Dsz + Size(new)
    <3> DEFINE len == run.end - run.start
    <3>1. run.start \in Nat /\ run.end \in Nat /\ len \in Nat /\ run.end = run.start + len
      BY <2>3, ParameterAssumption DEF RunType
    <3>2. offset' = offset + len
      BY <2>2
    <3>3. Size(new) = run.end * Dsz - run.start * Dsz
      BY DEF Size, Start, End
    <3> HIDE DEF len
    <3>4. (run.start + len) * Dsz = run.start * Dsz + len * Dsz
      BY <3>1, Scaling
    <3>5. (offset + len) * Dsz = offset * Dsz + len * Dsz
      BY <2>1, <3>1, Scaling
    <3>6. /\ len * Dsz \in Nat /\ offset * Dsz \in Nat
          /\ run.start * Dsz \in Nat /\ run.end * Dsz \in Nat
      BY <2>1, <3>1, Scaling
    <3>7. Size(new) = len * Dsz
      BY <3>1, <3>3, <3>4, <3>6
    <3> QED
      BY <3>2, <3>5, <3>6, <3>7 DEF Current
  <2> DEFINE from == offset * Dsz
             upto == offset' * Dsz
  <2>8. Window(new) = from..(upto - 1) /\ from \in Nat /\ upto \in Nat /\ from <= upto
    BY <2>7 DEF Window
  <2>9. \A s \in segs : /\ Window(s) \subseteq 0..(from - 1)
                        /\ Current(s) + Size(s) <= from
                        /\ Current(s) + Size(s) \in Int
    <3> SUFFICES ASSUME NEW s \in segs
                 PROVE  /\ Window(s) \subseteq 0..(from - 1)
                        /\ Current(s) + Size(s) <= from
                        /\ Current(s) + Size(s) \in Int
      OBVIOUS
    <3>1. s \in Segments
      BY DEF CallTypeOK
    <3>2. Current(s) \in Nat /\ Size(s) \in Int
      BY <3>1, SegmentBytes
    <3>3. Current(s) + Size(s) <= from
      OBVIOUS
    <3> HIDE DEF from
    <3> QED
      BY <2>8, <3>2, <3>3 DEF Window
  <2> HIDE DEF new, from, upto
  <2>10. \A s \in segs' : Current(s) + Size(s) <= upto
    BY <2>2, <2>7, <2>8, <2>9 DEF from, upto
  <2>11. \A s, t \in segs' : s # t => Window(s) \cap Window(t) = {}
    BY <2>2, <2>8, <2>9
  <2>12. \A k \in 0..(upto - 1) : \E s \in segs' : k \in Window(s)
    <3>1. \A k \in 0..(from - 1) : \E s \in segs : k \in Window(s)
      BY DEF from
    <3> QED
      BY <3>1, <2>2, <2>8
  <2>13. \A s \in segs' : \A k \in Window(s) :
           Slice[r][k + 1] = <<s.addr, Start(s) + (k - Current(s))>>
    BY <2>2, <2>6
  <2>14. r' = r /\ upto = offset' * Dsz
    BY <2>2 DEF upto
  <2> HIDE DEF r
  <2> QED
    BY <2>10, <2>11, <2>12, <2>13, <2>14, <2>2
       DEF r, Window, Current, Start, Size, End
<1>2. CASE CallAgain
  <2>1. segs' = {} /\ offset' = 0
    BY <1>2 DEF CallAgain
  <2>2. 0 * Dsz = 0
    BY ParameterAssumption
  <2>3. 0..(offset' * Dsz - 1) = {}
    BY <2>1, <2>2
  <2> QED
    BY <2>1, <2>3
<1>3. CASE UNCHANGED <<call, offset, segs>>
  BY <1>3 DEF Window, Current, Start, Size, End
<1> QED
  BY <1>1, <1>2, <1>3 DEF CallStep, Accept, AllScanned, callVars

\* The windows of the segments do not overlap and lie within the request.
LEMMA WindowsWithin ==
  ASSUME CallTypeOK, ScanInv, SegsInv, scanned = Len(TheRuns)
  PROVE  \A s \in segs : Window(s) \subseteq 0..(Vsz(call.request) - 1)
<1> SUFFICES ASSUME NEW s \in segs
             PROVE  Window(s) \subseteq 0..(Vsz(call.request) - 1)
  OBVIOUS
<1>1. s \in Segments /\ call.request \in Requests
  BY DEF CallTypeOK, Calls
<1>2. Current(s) \in Nat /\ Size(s) \in Int /\ Vsz(call.request) \in Nat
  BY <1>1, SegmentBytes, Scaling, ParameterAssumption DEF Vsz
<1>3. offset * Dsz <= Vsz(call.request)
  <2>1. offset = 0 \/ offset = Counts[call.request]
    BY DEF ScanInv
  <2>2. 0 * Dsz = 0
    BY ParameterAssumption
  <2> QED
    BY <2>1, <2>2, <1>2 DEF Vsz
<1>4. Current(s) + Size(s) <= offset * Dsz /\ offset * Dsz \in Nat
  BY Scaling DEF SegsInv, CallTypeOK
<1> QED
  BY <1>2, <1>3, <1>4 DEF Window

\* So they lie within the buffer, which was checked to be as long.
LEMMA WindowsInBuffer ==
  ASSUME CallTypeOK, ScanInv, SegsInv, phase = "read"
  PROVE  \A s \in segs : /\ Window(s) \subseteq DOMAIN dst
                         /\ Window(s) \subseteq 0..(Vsz(call.request) - 1)
<1>1. call.len \in Nat /\ Vsz(call.request) \in Nat /\ DOMAIN dst = 0..(call.len - 1)
  BY Scaling, ParameterAssumption DEF CallTypeOK, Calls, Vsz
<1>2. Vsz(call.request) <= call.len
  BY <1>1 DEF ScanInv, Refused
<1>3. \A s \in segs : Window(s) \subseteq 0..(Vsz(call.request) - 1)
  BY WindowsWithin DEF ScanInv
<1> QED
  BY <1>1, <1>2, <1>3

\* A segment that is copied writes its own bytes, each the byte of the chunk that
\* it stands for, and the buffer keeps its type.
LEMMA SegmentCopied ==
  ASSUME CallTypeOK, NEW s \in segs, CopySegment(s, Decoded(s.addr))
  PROVE  /\ dst' \in [DOMAIN dst -> Byte]
         /\ \A k \in DOMAIN dst :
              dst'[k] = IF k \in Window(s)
                        THEN <<s.addr, Start(s) + (k - Current(s))>>
                        ELSE dst[k]
<1>1. s \in Segments /\ s.addr \in Addrs /\ s.addr \in Int
  <2>1. s \in Segments
    BY DEF CallTypeOK
  <2>2. s.addr \in Addrs
    BY <2>1 DEF Segments
  <2>3. \A a \in Addrs : a \in Int
    BY ParameterAssumption
  <2> QED
    BY <2>1, <2>2, <2>3
<1>2. dst \in [DOMAIN dst -> Byte] /\ DOMAIN dst \subseteq Int
  BY DEF CallTypeOK
<1>3. \A k \in DOMAIN dst :
        k \in Window(s) <=> (Current(s) <= k /\ k < Current(s) + Size(s))
  BY <1>1, <1>2, SegmentBytes DEF Window
<1>4. dst' = [k \in DOMAIN dst |->
                IF k \in Window(s)
                THEN Decoded(s.addr)[Start(s) + (k - Current(s))] ELSE dst[k]]
  BY <1>3 DEF CopySegment, Copied
<1>5. \A k \in Window(s) :
        /\ Decoded(s.addr)[Start(s) + (k - Current(s))]
             = <<s.addr, Start(s) + (k - Current(s))>>
        /\ <<s.addr, Start(s) + (k - Current(s))>> \in Byte
  <2> SUFFICES ASSUME NEW k \in Window(s)
               PROVE  /\ Decoded(s.addr)[Start(s) + (k - Current(s))]
                           = <<s.addr, Start(s) + (k - Current(s))>>
                      /\ <<s.addr, Start(s) + (k - Current(s))>> \in Byte
    OBVIOUS
  <2> DEFINE i == Start(s) + (k - Current(s))
  <2>1. i \in 0..(ChunkSz - 1) /\ ChunkSz \in Nat
    BY <1>1, SegmentBytes
  <2>2. i \in Nat
    BY <2>1
  <2> HIDE DEF i
  <2>3. Decoded(s.addr)[i] = <<s.addr, i>>
    BY <1>1, <2>1 DEF Decoded
  <2>4. <<s.addr, i>> \in Byte
    BY <1>1, <2>2 DEF Byte
  <2> QED
    BY <2>3, <2>4 DEF i
<1> QED
  BY <1>2, <1>4, <1>5

\* The segments cover the slice of a request within the dataset.
LEMMA SegmentsCover ==
  ASSUME CallTypeOK, ScanInv, SegsInv, phase = "read", Within(call.request),
         \A s \in segs : \A k \in Window(s) : dst[k] = Slice[call.request][k + 1]
  PROVE  HasSlice(dst, call.request)
<1>1. call.request \in Requests /\ Len(TheRuns) \in Nat /\ TheRuns = Runs[call.request]
  BY RunsAssumption DEF CallTypeOK, Calls, TheRuns
<1>2. CASE Counts[call.request] = 0
  <2>1. Vsz(call.request) = 0
    BY <1>2, ParameterAssumption DEF Vsz
  <2> QED
    BY <2>1 DEF HasSlice
<1>3. CASE Runs[call.request] # << >>
  <2>1. scanned = Len(TheRuns) /\ scanned > 0
    BY <1>1, <1>3, RunsAssumption DEF ScanInv
  <2>2. Vsz(call.request) = offset * Dsz
    BY <2>1 DEF ScanInv, Vsz
  <2> QED
    BY <2>2 DEF HasSlice, SegsInv
<1> QED
  BY <1>2, <1>3 DEF Within

\* The step with which a call succeeds, as Reader describes it.
LEMMA TakesEffect ==
  ASSUME CallTypeOK, ~Refused, outcome = "busy", Return("ok"), UNCHANGED <<call, dst>>,
         Within(call.request) =>
           HasSlice(dst, call.request) /\ RestUntouched(dst, call.request)
  PROVE  Promise!Succeed
<1> DEFINE r     == call.request
           after == IF outcome' = "ok" THEN dst' ELSE << >>
<1>1. outcome' = "ok" /\ returned' = Vsz(r) /\ after = dst
  BY DEF Return
<1>2. r \notin IllRanked /\ ~(call.len < Vsz(r))
  BY DEF Refused
<1>3. call.len \in Nat /\ Vsz(r) \in Nat /\ dst \in [0..(call.len - 1) -> Byte]
  BY Scaling, ParameterAssumption DEF CallTypeOK, Calls, Vsz
<1>4. call.len >= Vsz(r)
  BY <1>2, <1>3
<1>5. ASSUME Within(r)
      PROVE  dst = [k \in 0..(call.len - 1) |->
                      IF k < Vsz(r) THEN Slice[r][k + 1] ELSE Untouched]
  <2>1. HasSlice(dst, r) /\ RestUntouched(dst, r)
    BY <1>5
  <2>2. \A k \in 0..(call.len - 1) :
          dst[k] = IF k < Vsz(r) THEN Slice[r][k + 1] ELSE Untouched
    BY <1>3, <2>1 DEF HasSlice, RestUntouched
  <2> QED
    BY <1>3, <2>2
\* Reader's definitions of what both modules share
<1>6. /\ Promise!Vsz(r) = Vsz(r) /\ Promise!Within(r) = Within(r)
      /\ Promise!Untouched = Untouched /\ Promise!Byte = Byte
  BY DEF Promise!Vsz, Vsz, Promise!Within, Within, Promise!Untouched, Untouched,
         Promise!Byte, Byte
<1>7. IF Within(r) THEN after = [k \in 0..(call.len - 1) |->
                                   IF k < Vsz(r) THEN Slice[r][k + 1] ELSE Untouched]
      ELSE after \in [0..(call.len - 1) -> Byte]
  BY <1>1, <1>3, <1>5
<1> QED
  BY <1>1, <1>2, <1>4, <1>6, <1>7 DEF Promise!Succeed

-------------------------------------------------------------------------------
(***************************************************************************)
(* The serial read is right, and reads the file front to back, for every   *)
(* dataset and every way of cutting a slice into runs that joins to it,    *)
(* whatever the order in which the segments of a chunk come.               *)
(***************************************************************************)
(***************************************************************************)
(* The inductive invariant.                                                *)
(***************************************************************************)
\* The loop starts with all segments; those it has been through are in the
\* buffer, and nothing else is.
LoopInv ==
  /\ phase # "read" => /\ fd = "none"
                       /\ \A k \in DOMAIN dst : dst[k] = Untouched
  /\ \A k \in DOMAIN dst : k >= Vsz(call.request) => dst[k] = Untouched
  /\ phase = "read" =>
       \A s \in segs \ todo : \A k \in Window(s) : dst[k] = Slice[call.request][k + 1]

\* The addresses read increase; the last of them is that of the last chunk, and
\* no segment that is left has a lower one.
ForwardInv ==
  /\ phase # "read" => last_chunk = None
  /\ ReadsForward
  /\ IF seeks = << >> THEN last_chunk = None
                      ELSE last_chunk.addr = seeks[Len(seeks)]
  /\ \A s \in todo : last_chunk.addr <= s.addr

SerialInv ==
  /\ SerialTypeOK /\ ScanInv /\ SegsInv /\ LoopInv /\ ForwardInv /\ OkMeansSlice

-------------------------------------------------------------------------------
\* What one pass of the loop does, whether it reads a chunk or has it: it copies
\* a segment from that segment's chunk, one of the lowest address that is left.
LEMMA PassStep ==
  ASSUME SerialTypeOK, SameChunk \/ NewChunk
  PROVE  \E next \in NextSegments :
           /\ next \in segs
           /\ CopySegment(next, Decoded(next.addr))
           /\ todo' = todo \ {next}
           /\ last_chunk' = [addr |-> next.addr, data |-> Decoded(next.addr)]
           /\ \/ next.addr = last_chunk.addr /\ seeks' = seeks /\ last_chunk' = last_chunk
              \/ next.addr # last_chunk.addr /\ seeks' = Append(seeks, next.addr)
           /\ outcome = "busy" /\ phase = "read" /\ fd = "open"
           /\ UNCHANGED <<call, outcome, returned, scanVars, fd>>
<1>1. todo \subseteq segs /\ NextSegments \subseteq segs
  BY DEF SerialTypeOK, NextSegments
<1>2. \A next \in segs : next.addr # None.addr
  <2>1. \A next \in segs : next.addr \in Addrs
    BY DEF SerialTypeOK, CallTypeOK, Segments
  <2>2. -1 \notin Addrs
    BY ParameterAssumption
  <2> QED
    BY <2>1, <2>2 DEF None
<1>3. CASE SameChunk
  <2> PICK next \in NextSegments : /\ next.addr = last_chunk.addr
                                  /\ CopySegment(next, last_chunk.data)
                                  /\ todo' = todo \ {next}
    BY <1>3 DEF SameChunk
  <2>1. last_chunk # None
    BY <1>1, <1>2
  <2>2. last_chunk = [addr |-> next.addr, data |-> Decoded(next.addr)]
    BY <2>1 DEF SerialTypeOK
  <2>3. CopySegment(next, Decoded(next.addr))
    BY <2>2
  <2>4. /\ last_chunk' = last_chunk /\ seeks' = seeks
        /\ outcome = "busy" /\ phase = "read" /\ fd = "open"
        /\ UNCHANGED <<call, outcome, returned, scanVars, fd>>
    BY <1>3 DEF SameChunk, Reading
  <2> QED
    BY <1>1, <2>2, <2>3, <2>4
<1>4. CASE NewChunk
  BY <1>1, <1>4 DEF NewChunk, Reading
<1> QED
  BY <1>3, <1>4

\* As far as the request and the scan are concerned, the serial read makes the
\* steps that all direct reads make.
LEMMA SerialCallSteps ==
  ASSUME [NextSerial]_serialVars
  PROVE  CallStep
BY DEF NextSerial, ReadStep, PrepareSerial, Refuse, SortSegments, Open, OpenFails, SameChunk, NewChunk, ReadFails,
       Finish, AgainSerial, serialVars, callVars, scanVars, CallStep

\* Every step keeps the types of the state.
LEMMA SerialTypePreserved ==
  ASSUME SerialTypeOK, [NextSerial]_serialVars
  PROVE  SerialTypeOK'
<1>0. CallTypeOK /\ call.request \in Requests /\ Vsz(call.request) \in Nat
  BY Scaling, ParameterAssumption DEF SerialTypeOK, CallTypeOK, Calls, Vsz
<1>1. CASE PrepareSerial
  <2>1. CallTypeOK' /\ segs \subseteq segs'
    BY <1>0, <1>1, CallTypePreserved DEF PrepareSerial, CallAgain, Refuse, Accept, Scan
  <2>2. UNCHANGED <<fd, todo, last_chunk, seeks>>
    BY <1>1 DEF PrepareSerial
  <2> QED
    BY <2>1, <2>2 DEF SerialTypeOK, Decoded
<1>2. CASE SortSegments
  <2>1. CallTypeOK' /\ segs' = segs /\ todo' = segs
    BY <1>0, <1>2, CallTypePreserved DEF SortSegments, AllScanned
  <2>2. UNCHANGED <<fd, last_chunk, seeks>>
    BY <1>2 DEF SortSegments
  <2> QED
    BY <2>1, <2>2 DEF SerialTypeOK, Decoded
<1>3. CASE Open \/ OpenFails \/ ReadFails \/ Finish
  <2>1. CallTypeOK'
    BY <1>0, <1>3 DEF Open, OpenFails, ReadFails, Finish, Return, CallTypeOK, callVars, scanVars,
                      TheRuns
  <2>2. /\ fd' \in {"none", "open"}
        /\ UNCHANGED <<segs, todo, last_chunk, seeks>>
    BY <1>3 DEF Open, OpenFails, ReadFails, Finish, scanVars, SerialTypeOK
  <2> QED
    BY <2>1, <2>2 DEF SerialTypeOK, Decoded
<1>4. CASE SameChunk \/ NewChunk
  <2> PICK next \in NextSegments :
           /\ next \in segs
           /\ CopySegment(next, Decoded(next.addr))
           /\ todo' = todo \ {next}
           /\ last_chunk' = [addr |-> next.addr, data |-> Decoded(next.addr)]
           /\ seeks' = seeks \/ seeks' = Append(seeks, next.addr)
           /\ UNCHANGED <<call, outcome, returned, scanVars, fd>>
    BY <1>4, PassStep
  <2>1. dst' \in [0..(call.len - 1) -> Byte]
    BY <1>0, SegmentCopied DEF CallTypeOK
  <2>2. CallTypeOK'
    BY <1>0, <2>1 DEF CallTypeOK, scanVars, TheRuns
  <2>3. next.addr \in Addrs
    BY <1>0 DEF CallTypeOK, Segments
  <2>4. todo' \in SUBSET segs' /\ seeks' \in Seq(Addrs)
    BY <2>3 DEF SerialTypeOK, scanVars
  <2> QED
    BY <2>2, <2>3, <2>4 DEF SerialTypeOK, Decoded
<1>5. CASE AgainSerial
  <2>1. CallTypeOK'
    BY <1>0, <1>5, CallTypePreserved DEF AgainSerial
  <2> QED
    BY <1>5, <2>1 DEF AgainSerial, SerialTypeOK, None
<1>6. CASE UNCHANGED serialVars
  BY <1>0, <1>6 DEF serialVars, callVars, scanVars, SerialTypeOK, CallTypeOK, TheRuns, Decoded
<1> QED
  BY <1>1, <1>2, <1>3, <1>4, <1>5, <1>6 DEF NextSerial, ReadStep

-------------------------------------------------------------------------------
\* A pass of the loop copies bytes of its own segment only, and those bytes are
\* right from then on; no other step writes.
LEMMA LoopPreserved ==
  ASSUME SerialTypeOK, ScanInv, SegsInv, LoopInv, [NextSerial]_serialVars
  PROVE  LoopInv'
<1>0. CallTypeOK /\ \A s : Window(s)' = Window(s)
  BY DEF SerialTypeOK, Window, Current, Size, Start, End
<1>1. CASE PrepareSerial
  <2>1. /\ (phase # "read" /\ phase' # "read") \/ UNCHANGED <<phase, segs>>
        /\ UNCHANGED <<call, dst, fd, todo>>
    BY <1>1 DEF PrepareSerial, Refuse, Accept, Scan, callVars, scanVars
  <2> QED
    BY <1>0, <2>1 DEF LoopInv, Vsz
<1>2. CASE SortSegments
  <2>1. /\ phase = "scan" /\ phase' = "read" /\ todo' = segs
        /\ UNCHANGED <<call, dst, segs, fd>>
    BY <1>2 DEF SortSegments, AllScanned, callVars
  <2> QED
    BY <2>1 DEF LoopInv, Vsz
<1>3. CASE Open \/ OpenFails \/ ReadFails \/ Finish
  <2>1. phase = "read" /\ UNCHANGED <<call, dst, phase, segs, todo>>
    BY <1>3 DEF Open, OpenFails, ReadFails, Finish, Reading, callVars, scanVars
  <2> QED
    BY <1>0, <2>1 DEF LoopInv, Vsz
<1>4. CASE SameChunk \/ NewChunk
  <2> PICK next \in NextSegments :
           /\ next \in segs
           /\ CopySegment(next, Decoded(next.addr))
           /\ todo' = todo \ {next}
           /\ phase = "read"
           /\ UNCHANGED <<call, scanVars, fd>>
    BY <1>4, PassStep
  <2>1. /\ DOMAIN dst' = DOMAIN dst
        /\ \A k \in DOMAIN dst :
             dst'[k] = IF k \in Window(next)
                       THEN <<next.addr, Start(next) + (k - Current(next))>> ELSE dst[k]
    BY <1>0, SegmentCopied
  <2>2. \A s \in segs : Window(s) \subseteq DOMAIN dst /\ Window(s) \subseteq 0..(Vsz(call.request) - 1)
    BY <1>0, WindowsInBuffer
  <2>3. \A k \in Window(next) : dst'[k] = Slice[call.request][k + 1]
    BY <2>1, <2>2 DEF SegsInv
  <2>4. \A s \in segs : s # next => \A k \in Window(s) : dst'[k] = dst[k]
    BY <2>1, <2>2 DEF SegsInv
  <2>5. \A s \in segs \ todo' : \A k \in Window(s) : dst'[k] = Slice[call.request][k + 1]
    BY <2>3, <2>4 DEF LoopInv
  <2>6. \A k \in DOMAIN dst : k >= Vsz(call.request) => dst'[k] = Untouched
    <3>1. DOMAIN dst \subseteq Int /\ Vsz(call.request) \in Nat
      BY <1>0, Scaling, ParameterAssumption DEF CallTypeOK, Calls, Vsz
    <3>2. \A k \in DOMAIN dst : k >= Vsz(call.request) => k \notin Window(next)
      BY <2>2, <3>1
    <3> QED
      BY <2>1, <3>2 DEF LoopInv
  <2>7. Vsz(call.request)' = Vsz(call.request) /\ UNCHANGED <<call, phase, segs>>
    BY DEF Vsz, scanVars
  <2> QED
    BY <1>0, <2>1, <2>5, <2>6, <2>7 DEF LoopInv
<1>5. CASE AgainSerial
  <2>1. phase' = "check" /\ dst' = Fresh(call'.len) /\ fd' = "none"
    BY <1>5 DEF AgainSerial, CallAgain
  <2>2. \A k \in DOMAIN dst' : dst'[k] = Untouched
    BY <2>1 DEF Fresh
  <2> QED
    BY <2>1, <2>2 DEF LoopInv
<1>6. CASE UNCHANGED serialVars
  BY <1>0, <1>6 DEF serialVars, callVars, scanVars, LoopInv, Vsz
<1> QED
  BY <1>1, <1>2, <1>3, <1>4, <1>5, <1>6 DEF NextSerial, ReadStep

\* A chunk that is read comes after all that were read before, because what is
\* left has no lower address, and none that was the last one's is read again.
LEMMA ForwardPreserved ==
  ASSUME SerialTypeOK, ForwardInv, [NextSerial]_serialVars
  PROVE  ForwardInv'
<1>0. /\ seeks \in Seq(Addrs) /\ todo \subseteq segs /\ Addrs \subseteq Int
      /\ \A s \in segs : s.addr \in Addrs
      /\ \A a \in Addrs : -1 <= a
  <2>1. \A s \in segs : s.addr \in Addrs
    BY DEF SerialTypeOK, CallTypeOK, Segments
  <2>2. Addrs \subseteq Int /\ \A a \in Addrs : -1 <= a
    BY ParameterAssumption
  <2> QED
    BY <2>1, <2>2 DEF SerialTypeOK
<1>1. CASE PrepareSerial \/ Open \/ OpenFails \/ ReadFails \/ Finish
  <2>1. /\ phase' = "read" => phase = "read"
        /\ phase = "read" => phase' = "read"
        /\ UNCHANGED <<todo, last_chunk, seeks>>
    BY <1>1 DEF PrepareSerial, Refuse, Accept, Scan, Open, OpenFails, ReadFails, Finish, Reading,
                callVars, scanVars
  <2> QED
    BY <2>1 DEF ForwardInv, ReadsForward
<1>2. CASE SortSegments
  <2>1. phase = "scan" /\ todo' = segs /\ phase' = "read" /\ UNCHANGED <<last_chunk, seeks>>
    BY <1>2 DEF SortSegments, AllScanned
  <2>2. last_chunk = None /\ \A s \in segs : -1 <= s.addr
    BY <1>0, <2>1 DEF ForwardInv
  <2> QED
    BY <2>1, <2>2 DEF ForwardInv, ReadsForward, None
<1>3. CASE SameChunk \/ NewChunk
  <2> PICK next \in NextSegments :
           /\ next \in segs
           /\ todo' = todo \ {next}
           /\ last_chunk' = [addr |-> next.addr, data |-> Decoded(next.addr)]
           /\ \/ seeks' = seeks /\ last_chunk' = last_chunk
              \/ next.addr # last_chunk.addr /\ seeks' = Append(seeks, next.addr)
           /\ phase = "read"
           /\ UNCHANGED scanVars
    BY <1>3, PassStep
  <2>1. phase' = "read" /\ next \in todo /\ \A s \in todo : next.addr <= s.addr
    BY DEF NextSegments, scanVars
  <2>2. \A s \in todo' : last_chunk'.addr <= s.addr
    BY <2>1
  <2>3. CASE seeks' = seeks /\ last_chunk' = last_chunk
    BY <2>1, <2>2, <2>3 DEF ForwardInv, ReadsForward
  <2>4. CASE next.addr # last_chunk.addr /\ seeks' = Append(seeks, next.addr)
    <3> DEFINE n == Len(seeks)
    <3>1. /\ n \in Nat /\ Len(seeks') = n + 1 /\ seeks' # << >>
          /\ seeks'[n + 1] = next.addr /\ next.addr \in Int
          /\ \A m \in 1..n : seeks'[m] = seeks[m] /\ seeks[m] \in Int
      <4>1. seeks \in Seq(Addrs) /\ next.addr \in Addrs
        BY <1>0
      <4>2. \A m \in 1..n : seeks[m] \in Addrs
        BY <4>1
      <4>3. /\ n \in Nat /\ Len(Append(seeks, next.addr)) = n + 1
            /\ Append(seeks, next.addr)[n + 1] = next.addr
            /\ \A m \in 1..n : Append(seeks, next.addr)[m] = seeks[m]
        BY <4>1
      <4>4. next.addr \in Int /\ \A m \in 1..n : seeks[m] \in Int
        BY <1>0, <4>1, <4>2
      <4>5. Append(seeks, next.addr) # << >>
        BY <4>1
      <4> QED
        BY <2>4, <4>3, <4>4, <4>5
    <3>2. seeks # << >> => n >= 1 /\ seeks[n] < next.addr
      BY <1>0, <2>1, <2>4, <3>1 DEF ForwardInv
    <3> HIDE DEF n
    <3>3. \A m \in 1..n : seeks[m] < next.addr
      <4> SUFFICES ASSUME NEW m \in 1..n PROVE seeks[m] < next.addr
        OBVIOUS
      <4>1. seeks # << >> /\ seeks[n] < next.addr /\ n \in 1..n
        BY <3>1, <3>2 DEF n
      <4>2. m < n => seeks[m] < seeks[n]
        BY <4>1 DEF ForwardInv, ReadsForward, n
      <4> QED
        BY <3>1, <4>1, <4>2
    <3>4. \A l, m \in 1..(n + 1) : l < m => seeks'[l] < seeks'[m]
      <4> SUFFICES ASSUME NEW l \in 1..(n + 1), NEW m \in 1..(n + 1), l < m
                   PROVE  seeks'[l] < seeks'[m]
        OBVIOUS
      <4>1. l \in 1..n
        BY <3>1
      <4>2. CASE m = n + 1
        BY <3>1, <3>3, <4>1, <4>2
      <4>3. CASE m \in 1..n
        BY <3>1, <4>1, <4>3 DEF ForwardInv, ReadsForward, n
      <4> QED
        BY <3>1, <4>2, <4>3
    <3>5. ReadsForward'
      BY <3>1, <3>4 DEF ReadsForward
    <3> QED
      BY <2>1, <2>2, <3>1, <3>5 DEF ForwardInv
  <2> QED
    BY <2>3, <2>4
<1>4. CASE AgainSerial
  BY <1>4 DEF AgainSerial, ForwardInv, ReadsForward
<1>5. CASE UNCHANGED serialVars
  BY <1>5 DEF serialVars, scanVars, ForwardInv, ReadsForward
<1> QED
  BY <1>1, <1>2, <1>3, <1>4, <1>5 DEF NextSerial, ReadStep

-------------------------------------------------------------------------------
\* When the loop has been through all segments, the slice is in the buffer.
LEMMA SerialAllCopied ==
  ASSUME SerialInv, phase = "read", todo = {}, Within(call.request)
  PROVE  HasSlice(dst, call.request) /\ RestUntouched(dst, call.request)
<1>1. RestUntouched(dst, call.request)
  BY DEF SerialInv, LoopInv, RestUntouched
<1>2. \A s \in segs : \A k \in Window(s) : dst[k] = Slice[call.request][k + 1]
  BY DEF SerialInv, LoopInv
<1>3. HasSlice(dst, call.request)
  BY <1>2, SegmentsCover DEF SerialInv, SerialTypeOK
<1> QED
  BY <1>1, <1>3

\* A call succeeds at the end of the loop only; and a result, once returned,
\* stays as it is.
LEMMA SerialOkPreserved ==
  ASSUME SerialInv, [NextSerial]_serialVars
  PROVE  OkMeansSlice'
<1>1. CASE Finish
  <2>1. /\ phase = "read" /\ todo = {} /\ returned' = Vsz(call.request)
        /\ UNCHANGED <<call, dst>>
    BY <1>1 DEF Finish, Reading, Return
  <2> QED
    BY <2>1, SerialAllCopied DEF OkMeansSlice, HasSlice, RestUntouched, Vsz
<1>2. CASE outcome' # "ok"
  BY <1>2 DEF OkMeansSlice
<1>3. CASE UNCHANGED <<call, outcome, returned, dst>>
  BY <1>3 DEF SerialInv, OkMeansSlice, HasSlice, RestUntouched, Vsz
<1>4. CASE SameChunk \/ NewChunk
  <2>1. outcome' = "busy"
    BY <1>4 DEF SameChunk, NewChunk, Reading
  <2> QED
    BY <2>1, <1>2
<1> QED
  BY <1>1, <1>2, <1>3, <1>4
     DEF NextSerial, ReadStep, PrepareSerial, Refuse, Accept, Scan, SortSegments, AllScanned, Open, OpenFails,
         ReadFails, Return, AgainSerial, CallAgain, serialVars, callVars

\* The invariant holds of a call that has just been made.
LEMMA InitSerialInv == InitSerial => SerialInv
<1> SUFFICES ASSUME InitSerial PROVE SerialInv
  OBVIOUS
<1> USE DEF InitSerial, InitCall
<1>1. SerialTypeOK
  <2>1. call.request \in Requests /\ Len(TheRuns) \in Nat
    BY RunsAssumption DEF TheRuns, Calls
  <2>2. dst \in [0..(call.len - 1) -> Byte]
    BY DEF Fresh, Byte
  <2>3. CallTypeOK
    BY <2>1, <2>2 DEF CallTypeOK
  <2> QED
    BY <2>3 DEF SerialTypeOK
<1>2. ScanInv
  BY <1>1, RunFollows DEF ScanInv, TheRuns, SerialTypeOK, CallTypeOK, Calls
<1>3. SegsInv
  <2>1. 0 * Dsz = 0
    BY ParameterAssumption
  <2>2. 0..(offset * Dsz - 1) = {}
    BY <2>1
  <2> QED
    BY <2>2 DEF SegsInv
<1>4. LoopInv
  BY DEF LoopInv, Fresh
<1>5. ForwardInv
  BY DEF ForwardInv, ReadsForward
<1> QED
  BY <1>1, <1>2, <1>3, <1>4, <1>5 DEF SerialInv, OkMeansSlice

\* And no step of the reader invalidates it.
LEMMA NextSerialInv == SerialInv /\ [NextSerial]_serialVars => SerialInv'
BY SerialCallSteps, SerialTypePreserved, ScanPreserved, SegsPreserved, LoopPreserved, ForwardPreserved,
   SerialOkPreserved DEF SerialInv, SerialTypeOK

\* The invariant of all that follows, for every run of the reader.
THEOREM SerialInvariance == SpecSerial => []SerialInv
BY InitSerialInv, NextSerialInv, PTL DEF SpecSerial

-------------------------------------------------------------------------------
\* A serial read within the dataset that reports success has filled the buffer
\* with the slice, and nothing else (direct.rs:113-159).
THEOREM SerialReadIsRight == SpecSerial => []OkMeansSlice
BY SerialInvariance, PTL DEF SerialInv

\* The file is read front to back, and no chunk is read a second time, however
\* many segments a chunk has and in whatever order they come (dataset.rs:330).
THEOREM SerialReadsForward == SpecSerial => []ReadsForward
BY SerialInvariance, PTL DEF SerialInv, ForwardInv

\* The serial read keeps the promise of Reader: a call in progress is a call that
\* has not taken effect, and it takes effect at the end of the loop.
THEOREM SerialReadRefinesReader == SpecSerial => KeepsPromise
<1>1. InitSerial => Promise!Init
  BY DEF InitSerial, InitCall, Promise!Init, Calls, Promise!Calls, Promise!NoBuffer
<1>2. SerialInv /\ [NextSerial]_serialVars => [Promise!Next]_(Promise!vars)
  <2> SUFFICES ASSUME SerialInv, [NextSerial]_serialVars
               PROVE  [Promise!Next]_(Promise!vars)
    OBVIOUS
  <2>1. CASE Finish
    <3>1. /\ CallTypeOK /\ ~Refused /\ outcome = "busy" /\ Return("ok")
          /\ UNCHANGED <<call, dst>>
      BY <2>1 DEF Finish, Reading, SerialInv, SerialTypeOK, ScanInv
    <3>2. Within(call.request) =>
            HasSlice(dst, call.request) /\ RestUntouched(dst, call.request)
      BY <2>1, SerialAllCopied DEF Finish, Reading
    <3> QED
      BY <3>1, <3>2, TakesEffect DEF Promise!Next
  <2>2. CASE (PrepareSerial /\ Refuse) \/ OpenFails \/ ReadFails
    BY <2>2 DEF PrepareSerial, Refuse, OpenFails, ReadFails, Reading, Return, scanVars,
                Promise!Next, Promise!Fail
  <2>3. CASE AgainSerial
    BY <2>3 DEF AgainSerial, CallAgain, Calls, Promise!Next, Promise!CallAgain, Promise!Calls,
                Promise!NoBuffer
  <2>4. CASE UNCHANGED <<call, outcome, returned, dst>>
    BY <2>4 DEF Promise!vars
  <2>5. CASE SameChunk \/ NewChunk
    BY <2>5 DEF SameChunk, NewChunk, Reading, Promise!vars
  <2> QED
    BY <2>1, <2>2, <2>3, <2>4, <2>5
       DEF NextSerial, ReadStep, PrepareSerial, Accept, Scan, SortSegments, AllScanned, Open, serialVars, callVars
<1> QED
  BY <1>1, <1>2, SerialInvariance, PTL DEF SpecSerial, KeepsPromise, Promise!Spec

-------------------------------------------------------------------------------
(***************************************************************************)
(* The parallel read is right for every number of threads, every dataset   *)
(* and every way of cutting a slice into runs that joins to it.            *)
(***************************************************************************)
(***************************************************************************)
(* The inductive invariant.                                                *)
(***************************************************************************)
Active(w) == pc[w] # "idle"

\* A segment is pending as long as its group is in nobody's hands, or in the
\* hands of a thread that has still to copy it.
Pending(s) ==
  \/ s.addr \in groups
  \/ \E w \in Workers : Active(w) /\ s \in left[w]

\* Each group is in one place: still to be taken, or in the hands of one thread,
\* which has the chunk that belongs to it.
GroupsInv ==
  /\ \A w \in Workers : Active(w) =>
       /\ outcome = "busy" /\ phase = "read"
       /\ group[w] \in Addrs
       /\ group[w] \notin groups
       /\ \A s \in left[w] : s.addr = group[w]
  /\ \A v, w \in Workers :
       (v # w /\ Active(v) /\ Active(w)) => group[v] # group[w]
  /\ \A w \in Workers : pc[w] = "read" => fds[w] = group[w]
  /\ \A w \in Workers : pc[w] \in {"copy", "copying"} => chunk[w] = Decoded(group[w])
  /\ \A w \in Workers : pc[w] = "copying" => seg[w] \in left[w]

\* Pending segments are not in the buffer yet; unless a thread failed, all
\* others are.
BufferInv ==
  /\ phase # "read" => ~failed /\ groups = {} /\ \A k \in DOMAIN dst : dst[k] = Untouched
  /\ \A k \in DOMAIN dst : k >= Vsz(call.request) => dst[k] = Untouched
  /\ \A s \in segs : Pending(s) => \A k \in Window(s) : dst[k] = Untouched
  /\ (phase = "read" /\ ~failed) =>
       \A s \in segs : ~Pending(s) =>
         \A k \in Window(s) : dst[k] = Slice[call.request][k + 1]

IInv ==
  /\ TypeOK /\ ScanInv /\ SegsInv /\ GroupsInv /\ BufferInv /\ OkMeansSlice

-------------------------------------------------------------------------------
-------------------------------------------------------------------------------
\* The buffer keeps its type when a segment is copied to it.
LEMMA CopyType ==
  ASSUME TypeOK, GroupsInv, NEW w \in Workers, pc[w] = "copying", CopySegment(seg[w], chunk[w])
  PROVE  /\ seg[w] \in segs /\ seg[w] \in Segments
         /\ dst' \in [DOMAIN dst -> Byte]
         /\ \A k \in DOMAIN dst :
              dst'[k] = IF k \in Window(seg[w])
                        THEN <<seg[w].addr, Start(seg[w]) + (k - Current(seg[w]))>>
                        ELSE dst[k]
<1>1. seg[w] \in left[w] /\ chunk[w] = Decoded(group[w])
  BY DEF GroupsInv
<1>2. \A s \in left[w] : s.addr = group[w]
  BY DEF GroupsInv, Active
<1>3. left[w] \in SUBSET segs /\ segs \in SUBSET Segments /\ CallTypeOK
  BY DEF TypeOK, CallTypeOK
<1>4. seg[w] \in segs /\ seg[w] \in Segments /\ seg[w].addr = group[w]
  BY <1>1, <1>2, <1>3
<1>5. CopySegment(seg[w], Decoded(seg[w].addr))
  BY <1>1, <1>4
<1> QED
  BY <1>3, <1>4, <1>5, SegmentCopied

\* Every step of the call and of its threads keeps the types of the state.
LEMMA TypePreserved ==
  ASSUME TypeOK, ScanInv, GroupsInv, [Next]_vars
  PROVE  TypeOK'
<1>1. CASE Prepare
  <2>1. CallTypeOK' /\ segs \subseteq segs' /\ UNCHANGED workVars
    BY <1>1, CallTypePreserved DEF Prepare, TypeOK, CallAgain, Refuse, Accept, Scan
  <2>2. left' \in [Workers -> SUBSET segs']
    BY <2>1 DEF TypeOK, workVars
  <2> QED
    BY <2>1, <2>2 DEF TypeOK, workVars
<1> USE DEF TypeOK, CallTypeOK
<1>2. CASE Group
  <2>1. groups' \in SUBSET Addrs
    BY <1>2 DEF Group, Segments
  <2> QED
    BY <1>2, <2>1 DEF Group, AllScanned, callVars, TheRuns
<1>3. CASE Join
  <2>1. call.request \in Requests /\ Vsz(call.request) \in Nat
    BY Scaling, ParameterAssumption DEF Calls, Vsz
  <2> QED
    BY <1>3, <2>1 DEF Join, Return, scanVars, workVars, TheRuns
<1>4. CASE Again
  <2>1. CallTypeOK'
    BY <1>4, CallTypePreserved DEF Again
  <2> QED
    BY <1>4, <2>1 DEF Again
<1>5. CASE \E w \in Workers : Take(w)
  <2> PICK w \in Workers : Take(w)
    BY <1>5
  <2>1. PICK a \in groups : /\ groups' = groups \ {a}
                          /\ group' = [group EXCEPT ![w] = a]
                          /\ left' = [left EXCEPT ![w] = {s \in segs : s.addr = a}]
    BY DEF Take
  <2>2. fds' \in [Workers -> Nat \cup {Closed, Broken}]
    BY DEF Take
  <2>3. left' \in [Workers -> SUBSET segs] /\ group' \in [Workers -> Addrs \cup {NoGroup}]
    BY <2>1
  <2> QED
    BY <2>1, <2>2, <2>3 DEF Take, callVars, scanVars, TheRuns
<1>6. CASE \E w \in Workers : Drop(w)
  BY <1>6 DEF Drop, callVars, scanVars, TheRuns
<1>7. CASE \E w \in Workers : Seek(w)
  <2> PICK w \in Workers : Seek(w)
    BY <1>7
  <2>1. group[w] \in Addrs /\ Addrs \subseteq Nat
    BY ParameterAssumption DEF Seek, GroupsInv, Active
  <2> QED
    BY <2>1 DEF Seek, callVars, scanVars, TheRuns
<1>8. CASE \E w \in Workers : Read(w)
  <2> PICK w \in Workers : Read(w)
    BY <1>8
  <2>1. fds[w] \in Nat
    BY ParameterAssumption DEF Read, GroupsInv, Active
  <2>2. Decoded(fds[w]) \in [0..(ChunkSz - 1) -> Int \X Nat]
    BY <2>1 DEF Decoded
  <2> QED
    BY <2>1, <2>2 DEF Read, callVars, scanVars, TheRuns
<1>9. CASE \E w \in Workers : GroupFails(w)
  BY <1>9 DEF GroupFails, callVars, scanVars, TheRuns
<1>10. CASE \E w \in Workers : StartCopy(w)
  BY <1>10 DEF StartCopy, callVars, scanVars, TheRuns
<1>11. CASE \E w \in Workers : EndCopy(w)
  <2> PICK w \in Workers : EndCopy(w)
    BY <1>11
  <2>1. dst' \in [DOMAIN dst -> Byte]
    BY CopyType DEF EndCopy
  <2>2. dst' \in [0..(call.len - 1) -> Byte]
    BY <2>1
  <2> QED
    BY <2>2 DEF EndCopy, scanVars, TheRuns
<1>12. CASE \E w \in Workers : GroupDone(w)
  BY <1>12 DEF GroupDone, callVars, scanVars, TheRuns
<1>13. CASE UNCHANGED vars
  BY <1>13 DEF vars, callVars, scanVars, workVars, TheRuns
<1> QED
  BY <1>1, <1>2, <1>3, <1>4, <1>5, <1>6, <1>7, <1>8, <1>9, <1>10, <1>11, <1>12, <1>13
     DEF Next, Caller, Work

-------------------------------------------------------------------------------
\* Only four steps change the request or what the scan has found.
LEMMA CallSteps ==
  ASSUME [Next]_vars
  PROVE  CallStep
BY DEF Next, Caller, Prepare, Refuse, Group, Join, Again, Take, Drop, Work, Seek, Read,
       GroupFails, StartCopy, EndCopy, GroupDone, vars, callVars, scanVars,
       CallStep

-------------------------------------------------------------------------------
\* No step brings a group into the hands of two threads, and the chunk a thread
\* copies from is that of its group: it has seeked on its own descriptor.
LEMMA GroupsPreserved ==
  ASSUME TypeOK, GroupsInv, [Next]_vars
  PROVE  GroupsInv'
<1> USE DEF TypeOK, GroupsInv, Active
<1>1. CASE Caller
  \* no thread is active
  <2>1. CASE Prepare
    BY <2>1 DEF Prepare, Refuse, Accept, Scan, callVars, scanVars, workVars, Decoded
  <2>2. CASE Group
    BY <2>2 DEF Group, AllScanned, callVars, Decoded
  <2>3. CASE Join
    BY <2>3 DEF Join, scanVars, workVars, Decoded
  <2> QED
    BY <1>1, <2>1, <2>2, <2>3 DEF Caller
<1>2. CASE Again
  BY <1>2 DEF Again
<1>3. CASE \E w \in Workers : Take(w)
  <2> PICK w \in Workers : Take(w)
    BY <1>3
  <2>1. PICK a \in groups : /\ groups' = groups \ {a}
                          /\ group' = [group EXCEPT ![w] = a]
                          /\ left' = [left EXCEPT ![w] = {s \in segs : s.addr = a}]
    BY DEF Take
  <2>2. /\ pc' = [pc EXCEPT ![w] = "seek"] /\ pc[w] = "idle"
        /\ UNCHANGED <<outcome, phase, chunk, seg>>
        /\ outcome = "busy" /\ phase = "read"
        /\ \A v \in Workers : v # w => fds'[v] = fds[v]
    BY DEF Take, callVars, scanVars, Working
  <2>3. \A v \in Workers : v # w =>
          pc'[v] = pc[v] /\ group'[v] = group[v] /\ left'[v] = left[v] /\ chunk'[v] = chunk[v]
    BY <2>1, <2>2
  <2>4. pc'[w] = "seek" /\ group'[w] = a /\ a \in Addrs /\ a \notin groups'
        /\ \A s \in left'[w] : s.addr = a
    BY <2>1, <2>2
  <2> QED
    BY <2>1, <2>2, <2>3, <2>4 DEF Decoded
<1>4. CASE \E w \in Workers : Drop(w)
  BY <1>4 DEF Drop, callVars, scanVars, Decoded
<1>5. CASE \E w \in Workers : Seek(w)
  BY <1>5 DEF Seek, callVars, scanVars, Decoded
<1>6. CASE \E w \in Workers : Read(w)
  <2> PICK w \in Workers : Read(w)
    BY <1>6
  <2>1. chunk' = [chunk EXCEPT ![w] = Decoded(group[w])] /\ pc[w] = "read"
    BY DEF Read
  <2>2. /\ pc' = [pc EXCEPT ![w] = "copy"] /\ fds' = [fds EXCEPT ![w] = @ + 1]
        /\ UNCHANGED <<outcome, phase, groups, group, left, seg>>
    BY DEF Read, callVars, scanVars
  <2>3. chunk'[w] = Decoded(group'[w])
    BY <2>1, <2>2
  <2>4. \A v \in Workers : v # w =>
          pc'[v] = pc[v] /\ fds'[v] = fds[v] /\ chunk'[v] = chunk[v] /\ group'[v] = group[v]
    BY <2>1, <2>2
  <2>5. pc'[w] = "copy"
    BY <2>2
  <2>6. \A v \in Workers : pc'[v] \in {"copy", "copying"} => chunk'[v] = Decoded(group'[v])
    BY <2>3, <2>4
  <2>7. \A v \in Workers : Active(v)' <=> Active(v)
    BY <2>1, <2>4, <2>5
  <2> QED
    BY <2>2, <2>4, <2>5, <2>6, <2>7
<1>7. CASE \E w \in Workers : GroupFails(w)
  BY <1>7 DEF GroupFails, callVars, scanVars, Decoded
<1>8. CASE \E w \in Workers : StartCopy(w)
  BY <1>8 DEF StartCopy, callVars, scanVars, Decoded
<1>9. CASE \E w \in Workers : EndCopy(w)
  BY <1>9 DEF EndCopy, scanVars, Decoded
<1>10. CASE \E w \in Workers : GroupDone(w)
  BY <1>10 DEF GroupDone, callVars, scanVars, Decoded
<1>11. CASE UNCHANGED vars
  BY <1>11 DEF vars, callVars, scanVars, workVars, Decoded
<1> QED
  BY <1>1, <1>2, <1>3, <1>4, <1>5, <1>6, <1>7, <1>8, <1>9, <1>10, <1>11
     DEF Next, Work

\* The buffer during a step that does not write to it, from how it changes
\* which segments are pending.
LEMMA BufferKept ==
  ASSUME BufferInv, phase = "read", UNCHANGED <<call, dst, phase, segs>>,
         failed => failed',
         \A s \in segs : Pending(s)' => Pending(s),
         ~failed' => \A s \in segs : Pending(s) => Pending(s)'
  PROVE  BufferInv'
<1>1. Vsz(call.request)' = Vsz(call.request)
  BY DEF Vsz
<1>2. \A s : Window(s)' = Window(s)
  BY DEF Window, Current, Size, Start, End
<1> QED
  BY <1>1, <1>2 DEF BufferInv

\* A copy writes bytes of its own segment only, and those bytes are right from
\* then on; no other step writes.
LEMMA BufferPreserved ==
  ASSUME TypeOK, ScanInv, SegsInv, GroupsInv, BufferInv, [Next]_vars
  PROVE  BufferInv'
<1>1. CASE Prepare
  <2>1. CASE Refuse
    BY <1>1, <2>1
       DEF Prepare, Refuse, scanVars, workVars, BufferInv, Pending, Active, Window,
           Current, Size, Start, End, Vsz
  <2>2. CASE Accept \/ Scan
    <3>1. \A w \in Workers : ~Active(w)
      BY <2>2 DEF GroupsInv, Accept, Scan
    <3>2. /\ phase # "read" /\ phase' # "read"
          /\ UNCHANGED <<call, dst, workVars>>
      BY <1>1, <2>2 DEF Prepare, Accept, Scan, callVars
    <3>3. \A s : ~Pending(s)'
      BY <3>1, <3>2 DEF BufferInv, Pending, Active, workVars
    <3> QED
      BY <3>2, <3>3 DEF BufferInv, workVars, Vsz
  <2> QED
    BY <1>1, <2>1, <2>2 DEF Prepare
<1>2. CASE Group
  <2>1. /\ phase = "scan" /\ phase' = "read" /\ scanned = Len(TheRuns)
        /\ groups' = {s.addr : s \in segs}
        /\ UNCHANGED <<call, dst, segs, failed>>
    BY <1>2 DEF Group, AllScanned, callVars
  <2>2. \A s \in segs : Window(s) \subseteq DOMAIN dst
    <3>1. call.len \in Nat /\ Vsz(call.request) \in Nat /\ DOMAIN dst = 0..(call.len - 1)
      BY Scaling, ParameterAssumption DEF TypeOK, CallTypeOK, Calls, Vsz
    <3>2. Vsz(call.request) <= call.len
      BY <2>1, <3>1 DEF ScanInv, Refused
    <3>3. \A s \in segs : Window(s) \subseteq 0..(Vsz(call.request) - 1)
      BY <2>1, WindowsWithin DEF TypeOK
    <3> QED
      BY <3>1, <3>2, <3>3
  <2>3. \A k \in DOMAIN dst : dst[k] = Untouched
    BY <2>1 DEF BufferInv
  <2>4. \A s \in segs : Pending(s)'
    BY <2>1 DEF Pending
  <2>5. \A s : Window(s)' = Window(s)
    BY DEF Window, Current, Size, Start, End
  <2> QED
    BY <2>1, <2>2, <2>3, <2>4, <2>5 DEF BufferInv
<1>3. CASE Again
  <2>1. /\ phase' # "read" /\ failed' = FALSE /\ groups' = {} /\ segs' = {}
        /\ dst' = Fresh(call'.len)
    BY <1>3 DEF Again, CallAgain
  <2>2. \A k \in DOMAIN dst' : dst'[k] = Untouched
    BY <2>1 DEF Fresh
  <2> QED
    BY <2>1, <2>2 DEF BufferInv
<1>4. CASE Join
  BY <1>4 DEF Join, scanVars, workVars, BufferInv, Pending, Active, Window,
              Current, Size, Start, End, Vsz
<1>5. ASSUME NEW w \in Workers, Take(w)
      PROVE  BufferInv'
  <2>1. PICK a \in groups : /\ groups' = groups \ {a}
                          /\ left' = [left EXCEPT ![w] = {s \in segs : s.addr = a}]
    BY <1>5 DEF Take
  <2>2. /\ pc' = [pc EXCEPT ![w] = "seek"] /\ pc[w] = "idle" /\ phase = "read"
        /\ UNCHANGED <<call, dst, phase, segs, failed>>
    BY <1>5 DEF Take, callVars, scanVars, Working
  <2>3. \A s \in segs : Pending(s)' <=> Pending(s)
    BY <2>1, <2>2 DEF Pending, Active, TypeOK
  <2> QED
    BY <2>2, <2>3, BufferKept
<1>6. ASSUME NEW w \in Workers, Drop(w)
      PROVE  BufferInv'
  BY <1>6, BufferKept DEF Drop, Working, callVars, scanVars, Pending, Active
<1>7. ASSUME NEW w \in Workers, Seek(w) \/ Read(w) \/ StartCopy(w)
      PROVE  BufferInv'
  <2>1. /\ \E p \in {"read", "copy", "copying"} : pc' = [pc EXCEPT ![w] = p]
        /\ pc[w] # "idle"
        /\ UNCHANGED <<call, dst, phase, segs, groups, failed, left>>
    BY <1>7 DEF Seek, Read, StartCopy, callVars, scanVars
  <2>2. phase = "read"
    BY <2>1 DEF GroupsInv, Active
  <2>3. \A v \in Workers : Active(v)' <=> Active(v)
    BY <2>1 DEF Active, TypeOK
  <2> QED
    BY <2>1, <2>2, <2>3, BufferKept DEF Pending
<1>8. ASSUME NEW w \in Workers, GroupFails(w)
      PROVE  BufferInv'
  <2>1. /\ pc' = [pc EXCEPT ![w] = "idle"] /\ pc[w] # "idle" /\ failed'
        /\ UNCHANGED <<call, dst, phase, segs, groups, left>>
    BY <1>8 DEF GroupFails, callVars, scanVars
  <2>2. phase = "read"
    BY <2>1 DEF GroupsInv, Active
  <2>3. \A v \in Workers : Active(v)' => Active(v)
    BY <2>1 DEF Active, TypeOK
  <2> QED
    BY <2>1, <2>2, <2>3, BufferKept DEF Pending
<1>9. ASSUME NEW w \in Workers, EndCopy(w)
      PROVE  BufferInv'
  <2>1. /\ pc[w] = "copying" /\ CopySegment(seg[w], chunk[w])
        /\ left' = [left EXCEPT ![w] = @ \ {seg[w]}] /\ pc' = [pc EXCEPT ![w] = "copy"]
        /\ UNCHANGED <<call, phase, segs, groups, failed, seg>>
    BY <1>9 DEF EndCopy, scanVars
  <2>2. /\ phase = "read" /\ scanned = Len(TheRuns)
        /\ seg[w] \in left[w] /\ seg[w].addr = group[w] /\ group[w] \notin groups
    BY <2>1 DEF GroupsInv, Active, ScanInv
  <2>3. /\ seg[w] \in segs
        /\ DOMAIN dst' = DOMAIN dst
        /\ \A k \in DOMAIN dst :
             dst'[k] = IF k \in Window(seg[w])
                       THEN <<seg[w].addr, Start(seg[w]) + (k - Current(seg[w]))>>
                       ELSE dst[k]
    BY <2>1, CopyType
  <2>4. \A s \in segs : Window(s) \subseteq DOMAIN dst /\ Window(s) \subseteq 0..(Vsz(call.request) - 1)
    BY <2>2, WindowsInBuffer DEF TypeOK
  <2>5. \A s \in segs : s # seg[w] => Window(s) \cap Window(seg[w]) = {}
    BY <2>3 DEF SegsInv
  <2>6. /\ ~Pending(seg[w])'
        /\ \A s \in segs : s # seg[w] => (Pending(s)' <=> Pending(s))
    <3>1. /\ \A v \in Workers : Active(v)' <=> Active(v)
          /\ \A v \in Workers : v # w => left'[v] = left[v]
          /\ left'[w] = left[w] \ {seg[w]}
      BY <2>1 DEF Active, TypeOK
    <3>2. \A v \in Workers : (v # w /\ Active(v)) => seg[w] \notin left[v]
      BY <2>1, <2>2 DEF GroupsInv, Active
    <3> QED
      BY <2>1, <2>2, <3>1, <3>2 DEF Pending
  <2>7. \A k \in Window(seg[w]) : dst'[k] = Slice[call.request][k + 1]
    BY <2>3, <2>4 DEF SegsInv
  <2>8. \A k \in DOMAIN dst : k >= Vsz(call.request) => dst'[k] = Untouched
    <3>1. \A k \in DOMAIN dst : k >= Vsz(call.request) => k \notin Window(seg[w])
      BY <2>3, <2>4, Scaling, ParameterAssumption DEF TypeOK, CallTypeOK, Calls, Vsz
    <3> QED
      BY <2>3, <3>1 DEF BufferInv
  <2>9. \A s \in segs : s # seg[w] => \A k \in Window(s) : dst'[k] = dst[k]
    BY <2>3, <2>4, <2>5
  <2>10. \A s \in segs : Pending(s)' => \A k \in Window(s) : dst'[k] = Untouched
    BY <2>1, <2>6, <2>9 DEF BufferInv
  <2>11. ~failed => \A s \in segs : ~Pending(s)' =>
           \A k \in Window(s) : dst'[k] = Slice[call.request][k + 1]
    BY <2>2, <2>6, <2>7, <2>9 DEF BufferInv
  <2>12. \A s : Window(s)' = Window(s)
    BY DEF Window, Current, Size, Start, End
  <2>13. Vsz(call.request)' = Vsz(call.request)
    BY <2>1 DEF Vsz
  <2> QED
    BY <2>1, <2>2, <2>3, <2>8, <2>10, <2>11, <2>12, <2>13 DEF BufferInv
<1>10. ASSUME NEW w \in Workers, GroupDone(w)
       PROVE  BufferInv'
  <2>1. /\ pc' = [pc EXCEPT ![w] = "idle"] /\ pc[w] # "idle" /\ left[w] = {}
        /\ UNCHANGED <<call, dst, phase, segs, groups, failed, left>>
    BY <1>10 DEF GroupDone, callVars, scanVars
  <2>2. phase = "read"
    BY <2>1 DEF GroupsInv, Active
  <2>3. /\ \A v \in Workers : v # w => (Active(v)' <=> Active(v))
        /\ ~Active(w)'
    BY <2>1 DEF Active, TypeOK
  <2> QED
    BY <2>1, <2>2, <2>3, BufferKept DEF Pending
<1>11. CASE UNCHANGED vars
  BY <1>11 DEF vars, callVars, scanVars, workVars, BufferInv, Pending, Active, Window,
               Current, Size, Start, End, Vsz
<1> QED
  BY <1>1, <1>2, <1>3, <1>4, <1>5, <1>6, <1>7, <1>8, <1>9, <1>10, <1>11
     DEF Next, Caller, Work

-------------------------------------------------------------------------------
\* When every group is handled and none failed, the slice is in the buffer.
LEMMA AllCopied ==
  ASSUME IInv, phase = "read", ~failed, groups = {}, \A w \in Workers : pc[w] = "idle",
         Within(call.request)
  PROVE  HasSlice(dst, call.request) /\ RestUntouched(dst, call.request)
<1>1. RestUntouched(dst, call.request)
  BY DEF IInv, BufferInv, RestUntouched
<1>2. \A s \in segs : \A k \in Window(s) : dst[k] = Slice[call.request][k + 1]
  BY DEF IInv, BufferInv, Pending, Active
<1>3. HasSlice(dst, call.request)
  BY <1>2, SegmentsCover DEF IInv, TypeOK
<1> QED
  BY <1>1, <1>3

\* When the threads are joined and none failed, there is nothing left to copy;
\* and a result, once returned, stays as it is.
LEMMA OkPreserved ==
  ASSUME IInv, [Next]_vars
  PROVE  OkMeansSlice'
<1>1. CASE Join
  <2>1. /\ phase = "read" /\ \A w \in Workers : pc[w] = "idle"
        /\ outcome' = "ok" => ~failed /\ groups = {} /\ returned' = Vsz(call.request)
        /\ UNCHANGED <<call, dst>>
    BY <1>1 DEF Join, Working, Return
  <2> QED
    BY <2>1, AllCopied DEF OkMeansSlice, HasSlice, RestUntouched, Vsz
<1>2. CASE outcome' # "ok"
  BY <1>2 DEF OkMeansSlice
<1>3. CASE UNCHANGED <<call, outcome, returned, dst>>
  BY <1>3 DEF IInv, OkMeansSlice, HasSlice, RestUntouched, Vsz
<1>4. ASSUME NEW w \in Workers, EndCopy(w)
      PROVE  outcome' # "ok"
  BY <1>4 DEF EndCopy, IInv, GroupsInv, Active
<1> QED
  BY <1>1, <1>2, <1>3, <1>4
     DEF Next, Caller, Prepare, Refuse, Accept, Scan, Group, AllScanned, Again, CallAgain,
         Take, Drop, Work, Seek, Read, GroupFails, StartCopy, GroupDone, vars, callVars

\* The invariant holds of a call that has just been made.
LEMMA InitIInv == Init => IInv
<1> SUFFICES ASSUME Init PROVE IInv
  OBVIOUS
<1> USE DEF Init, InitCall, InitWork
<1>1. TypeOK
  <2>1. call.request \in Requests /\ Len(TheRuns) \in Nat
    BY RunsAssumption DEF TheRuns, Calls
  <2>2. dst \in [0..(call.len - 1) -> Byte]
    BY DEF Fresh, Byte
  <2>3. CallTypeOK
    BY <2>1, <2>2 DEF CallTypeOK
  <2> QED
    BY <2>3 DEF TypeOK
<1>2. ScanInv
  BY <1>1, RunFollows DEF ScanInv, TheRuns, TypeOK, CallTypeOK, Calls
<1>3. SegsInv
  <2>1. 0 * Dsz = 0
    BY ParameterAssumption
  <2>2. 0..(offset * Dsz - 1) = {}
    BY <2>1
  <2> QED
    BY <2>2 DEF SegsInv
<1>4. GroupsInv /\ BufferInv
  BY DEF GroupsInv, BufferInv, Active, Fresh
<1> QED
  BY <1>1, <1>2, <1>3, <1>4 DEF IInv, OkMeansSlice

\* And no step of the reader invalidates it.
LEMMA NextIInv == IInv /\ [Next]_vars => IInv'
BY CallSteps, TypePreserved, ScanPreserved, SegsPreserved, GroupsPreserved, BufferPreserved,
   OkPreserved DEF IInv, TypeOK

\* The invariant of all that follows, for every run of the reader.
THEOREM Invariance == Spec => []IInv
BY InitIInv, NextIInv, PTL DEF Spec

-------------------------------------------------------------------------------
\* The state keeps its type: read_to_par (direct.rs:35-97) never indexes a
\* chunk or the buffer outside of its domain.
THEOREM TypeCorrect == Spec => []TypeOK
BY Invariance, PTL DEF IInv

\* No two threads copy to the same byte at the same time, however many threads
\* there are and in whatever order they take the groups: the claim of the
\* safety comment (direct.rs:81-83).
THEOREM ThreadsNeverOverlap == Spec => []CopiesDisjoint
<1>1. IInv => CopiesDisjoint
  <2> SUFFICES ASSUME IInv, NEW v \in Workers, NEW w \in Workers,
                      v # w, pc[v] = "copying", pc[w] = "copying"
               PROVE  Window(seg[v]) \cap Window(seg[w]) = {}
    BY DEF CopiesDisjoint
  <2>1. /\ seg[v] \in left[v] /\ seg[w] \in left[w]
        /\ seg[v].addr = group[v] /\ seg[w].addr = group[w] /\ group[v] # group[w]
    BY DEF IInv, GroupsInv, Active
  <2>2. seg[v] \in segs /\ seg[w] \in segs
    BY <2>1 DEF IInv, TypeOK
  <2> QED
    BY <2>1, <2>2 DEF IInv, SegsInv
<1> QED
  BY <1>1, Invariance, PTL

\* Every copy stays within the part of the buffer that the check at the top of
\* read_to_par (direct.rs:43-46) vouched for.
THEOREM CopiesStayInside == Spec => []CopiesInBuffer
<1>1. IInv => CopiesInBuffer
  <2> SUFFICES ASSUME IInv, NEW w \in Workers, pc[w] = "copying"
               PROVE  Window(seg[w]) \subseteq 0..(Vsz(call.request) - 1)
    BY DEF CopiesInBuffer
  <2>1. seg[w] \in segs /\ phase = "read"
    BY DEF IInv, TypeOK, GroupsInv, Active
  <2>2. scanned = Len(TheRuns)
    BY <2>1 DEF IInv, ScanInv
  <2> QED
    BY <2>1, <2>2, WindowsWithin DEF IInv, TypeOK
<1> QED
  BY <1>1, Invariance, PTL

\* A parallel read within the dataset that reports success has filled the
\* buffer with the slice, and nothing else (direct.rs:35-97).
THEOREM ParallelReadIsRight == Spec => []OkMeansSlice
BY Invariance, PTL DEF IInv

\* During a call no byte is written a second time, whichever thread it is.
THEOREM EachByteOnce == Spec => WritesOnce
<1> DEFINE Once == outcome = "busy" =>
             \A k \in DOMAIN dst : dst[k] # Untouched => dst'[k] = dst[k]
<1>1. IInv /\ [Next]_vars => [Once]_vars
  <2> SUFFICES ASSUME IInv, [Next]_vars, outcome = "busy",
                      NEW k \in DOMAIN dst, dst[k] # Untouched
               PROVE  dst'[k] = dst[k]
    OBVIOUS
  <2>1. ASSUME NEW w \in Workers, EndCopy(w)
        PROVE  dst'[k] = dst[k]
    <3>1. pc[w] = "copying" /\ CopySegment(seg[w], chunk[w])
      BY <2>1 DEF EndCopy
    <3>2. seg[w] \in segs /\ Pending(seg[w])
      BY <3>1 DEF IInv, TypeOK, GroupsInv, Active, Pending
    <3>3. k \notin Window(seg[w])
      BY <3>2 DEF IInv, BufferInv
    <3> QED
      BY <3>1, <3>3, CopyType DEF IInv
  <2>2. CASE UNCHANGED dst
    BY <2>2
  <2> QED
    BY <2>1, <2>2
       DEF Next, Caller, Prepare, Refuse, Accept, Scan, Group, AllScanned, Join, Again,
           CallAgain, Take, Drop, Work, Seek, Read, GroupFails, StartCopy, GroupDone,
           vars, callVars
<1> QED
  BY <1>1, Invariance, PTL DEF Spec, WritesOnce

-------------------------------------------------------------------------------
\* A parallel read takes effect, or fails, when its threads are joined.
LEMMA JoinTakesEffect ==
  ASSUME IInv, Join
  PROVE  Promise!Succeed \/ Promise!Fail
<1>1. /\ outcome = "busy" /\ phase = "read" /\ \A w \in Workers : pc[w] = "idle"
      /\ groups = {} \/ failed
      /\ Return(IF failed THEN "err" ELSE "ok")
      /\ UNCHANGED <<call, dst>>
  BY DEF Join, Working
<1>2. CASE failed
  BY <1>1, <1>2 DEF Return, Promise!Fail
<1>3. CASE ~failed
  <2>1. CallTypeOK /\ ~Refused /\ Return("ok")
    BY <1>1, <1>3 DEF IInv, TypeOK, ScanInv
  <2>2. Within(call.request) =>
          HasSlice(dst, call.request) /\ RestUntouched(dst, call.request)
    BY <1>1, <1>3, AllCopied
  <2> QED
    BY <1>1, <2>1, <2>2, TakesEffect
<1> QED
  BY <1>2, <1>3

\* The parallel read keeps the promise of Reader: a call in progress is a call
\* that has not taken effect, and it takes effect when the threads are joined.
THEOREM ParallelReadRefinesReader == Spec => KeepsPromise
<1>1. Init => Promise!Init
  BY DEF Init, InitCall, Promise!Init, Calls, Promise!Calls, Promise!NoBuffer
<1>2. IInv /\ [Next]_vars => [Promise!Next]_(Promise!vars)
  <2> SUFFICES ASSUME IInv, [Next]_vars
               PROVE  [Promise!Next]_(Promise!vars)
    OBVIOUS
  <2>1. CASE Join
    BY <2>1, JoinTakesEffect DEF Promise!Next
  <2>2. CASE Prepare /\ Refuse
    BY <2>2 DEF Prepare, Refuse, scanVars, Promise!Next, Promise!Fail
  <2>3. CASE Again
    BY <2>3 DEF Again, CallAgain, Calls, Promise!Next, Promise!CallAgain, Promise!Calls,
                Promise!NoBuffer
  <2>4. CASE UNCHANGED <<call, outcome, returned, dst>>
    BY <2>4 DEF Promise!vars
  <2>5. ASSUME NEW w \in Workers, EndCopy(w)
        PROVE  UNCHANGED Promise!vars
    BY <2>5 DEF EndCopy, IInv, GroupsInv, Active, Promise!vars
  <2> QED
    BY <2>1, <2>2, <2>3, <2>4, <2>5
       DEF Next, Caller, Prepare, Accept, Scan, Group, AllScanned,
           Take, Drop, Work, Seek, Read, GroupFails, StartCopy, GroupDone, vars, callVars
<1> QED
  BY <1>1, <1>2, Invariance, PTL DEF Spec, KeepsPromise, Promise!Spec
===============================================================================
