-------------------------------- MODULE DirectPar --------------------------------
(***************************************************************************)
(* Direct::read_to_par (src/src/reader/direct.rs): the segments grouped by *)
(* chunk, and the groups handled in parallel by the threads of a pool, all *)
(* of them writing to the caller's buffer through a raw pointer.  A thread *)
(* opens the file for each piece of the work it is given, so that it seeks *)
(* and reads on a descriptor of its own; it may keep it for the groups     *)
(* that follow.  After a failure the remaining groups may be skipped.      *)
(***************************************************************************)
EXTENDS DirectCall

CONSTANT Workers   \* the threads of the pool

VARIABLES
  groups,  \* addresses of the groups no thread has taken
  failed,  \* the closure returned an error for some group
  pc,      \* per thread, "idle", "seek", "read", "copy" or "copying"
  fds,     \* per thread, Closed, Broken or the position of the descriptor
  group,   \* per thread, the address of the group it has
  chunk,   \* per thread, the chunk it has read and decoded
  left,    \* per thread, the segments of the group it has not copied
  seg      \* per thread, the segment it is copying

workVars == <<groups, failed, pc, fds, group, chunk, left, seg>>
vars     == <<callVars, scanVars, workVars>>

ASSUME WorkersAssumption == Workers # {}

Closed == -1   \* no file opened yet
Broken == -2   \* File::open failed

NoGroup == -1
NoData  == << >>
NoSeg   == [addr |-> -1, current |-> 0, start |-> 0, end |-> 0]

InitWork ==
  /\ groups = {}
  /\ failed = FALSE
  /\ pc = [w \in Workers |-> "idle"]
  /\ fds = [w \in Workers |-> Closed]
  /\ group = [w \in Workers |-> NoGroup]
  /\ chunk = [w \in Workers |-> NoData]
  /\ left = [w \in Workers |-> {}]
  /\ seg = [w \in Workers |-> NoSeg]

Init == InitCall /\ InitWork

-------------------------------------------------------------------------------
Prepare == /\ Refuse \/ Accept \/ Scan
           /\ UNCHANGED workVars

\* The sorted segments are split where the address changes: one group for each
\* address there is.
Group ==
  /\ AllScanned
  /\ groups' = {s.addr : s \in segs}
  /\ UNCHANGED <<failed, pc, fds, group, chunk, left, seg>>

Working == outcome = "busy" /\ phase = "read"

\* As a mutant: the group stays where others find it.
TakeShared(w) ==
  /\ Working
  /\ pc[w] = "idle"
  /\ \E a \in groups :
       /\ group' = [group EXCEPT ![w] = a]
       /\ left' = [left EXCEPT ![w] = {s \in segs : s.addr = a}]
  /\ fds' = [fds EXCEPT ![w] = 0]
  /\ pc' = [pc EXCEPT ![w] = "seek"]
  /\ UNCHANGED <<callVars, scanVars, groups, failed, chunk, seg>>

\* A thread takes a group, on the descriptor it has or, when the group begins
\* a piece of work of its own, on a new one.
Take(w) ==
  /\ Working
  /\ pc[w] = "idle"
  /\ \E a \in groups :
       /\ groups' = groups \ {a}
       /\ group' = [group EXCEPT ![w] = a]
       /\ left' = [left EXCEPT ![w] = {s \in segs : s.addr = a}]
  /\ \/ fds[w] = Closed /\ fds' = [fds EXCEPT ![w] = 0]
     \/ fds[w] = Closed /\ fds' = [fds EXCEPT ![w] = Broken]
     \/ fds[w] # Closed /\ UNCHANGED fds
  /\ pc' = [pc EXCEPT ![w] = "seek"]
  /\ UNCHANGED <<callVars, scanVars, failed, chunk, seg>>

\* A thread comes to the end of a piece of work and drops its descriptor.
Drop(w) ==
  /\ Working
  /\ pc[w] = "idle"
  /\ fds[w] # Closed
  /\ fds' = [fds EXCEPT ![w] = Closed]
  /\ UNCHANGED <<callVars, scanVars, groups, failed, pc, group, chunk, left, seg>>

\* The thread seeks to the chunk's address.
Seek(w) ==
  /\ pc[w] = "seek"
  /\ fds[w] # Broken
  /\ fds' = [fds EXCEPT ![w] = group[w]]
  /\ pc' = [pc EXCEPT ![w] = "read"]
  /\ UNCHANGED <<callVars, scanVars, groups, failed, group, chunk, left, seg>>

\* read_exact and decode_chunk, of what is at the descriptor's position.
Read(w) ==
  /\ pc[w] = "read"
  /\ chunk' = [chunk EXCEPT ![w] = Decoded(fds[w])]
  /\ fds' = [fds EXCEPT ![w] = @ + 1]
  /\ pc' = [pc EXCEPT ![w] = "copy"]
  /\ UNCHANGED <<callVars, scanVars, groups, failed, group, left, seg>>

\* As a mutant: a group that failed is tried again.
GroupRetried(w) ==
  /\ pc[w] \in {"seek", "read"}
  /\ groups' = groups \cup {group[w]}
  /\ pc' = [pc EXCEPT ![w] = "idle"]
  /\ UNCHANGED <<callVars, scanVars, failed, fds, group, chunk, left, seg>>

\* The file did not open, or seeking, reading or decoding fails.
GroupFails(w) ==
  /\ pc[w] \in {"seek", "read"}
  /\ failed' = TRUE
  /\ pc' = [pc EXCEPT ![w] = "idle"]
  /\ UNCHANGED <<callVars, scanVars, groups, fds, group, chunk, left, seg>>

\* A copy has a beginning and an end, and others may be between them.
StartCopy(w) ==
  /\ pc[w] = "copy"
  /\ \E s \in left[w] : seg' = [seg EXCEPT ![w] = s]
  /\ pc' = [pc EXCEPT ![w] = "copying"]
  /\ UNCHANGED <<callVars, scanVars, groups, failed, fds, group, chunk, left>>

EndCopy(w) ==
  /\ pc[w] = "copying"
  /\ CopySegment(seg[w], chunk[w])
  /\ left' = [left EXCEPT ![w] = @ \ {seg[w]}]
  /\ pc' = [pc EXCEPT ![w] = "copy"]
  /\ UNCHANGED <<call, outcome, returned, scanVars, groups, failed, fds, group, chunk, seg>>

GroupDone(w) ==
  /\ pc[w] = "copy"
  /\ left[w] = {}
  /\ pc' = [pc EXCEPT ![w] = "idle"]
  /\ UNCHANGED <<callVars, scanVars, groups, failed, fds, group, chunk, left, seg>>

\* As a mutant: what failed is forgotten.
JoinRegardless ==
  /\ Working
  /\ \A w \in Workers : pc[w] = "idle"
  /\ groups = {} \/ failed
  /\ Return("ok")
  /\ UNCHANGED <<call, dst, scanVars, workVars>>

\* try_for_each_init returns when every group is handled, or skipped after a
\* failure.
Join ==
  /\ Working
  /\ \A w \in Workers : pc[w] = "idle"
  /\ groups = {} \/ failed
  /\ Return(IF failed THEN "err" ELSE "ok")
  /\ UNCHANGED <<call, dst, scanVars, workVars>>

Again ==
  /\ CallAgain
  /\ groups' = {}
  /\ failed' = FALSE
  /\ pc' = [w \in Workers |-> "idle"]
  /\ fds' = [w \in Workers |-> Closed]
  /\ group' = [w \in Workers |-> NoGroup]
  /\ chunk' = [w \in Workers |-> NoData]
  /\ left' = [w \in Workers |-> {}]
  /\ seg' = [w \in Workers |-> NoSeg]

\* A thread's step on the group it has; one that makes the work smaller.
Work(w) ==
  \/ Seek(w) \/ Read(w) \/ GroupFails(w)
  \/ StartCopy(w) \/ EndCopy(w) \/ GroupDone(w)

Caller == Prepare \/ Group \/ Join

Next ==
  \/ Caller \/ Again
  \/ \E w \in Workers : Take(w) \/ Drop(w) \/ Work(w)

Spec == Init /\ [][Next]_vars

\* The pool hands out groups as long as there are any, and every thread that
\* has one goes on with it.
FairSpec ==
  /\ Spec
  /\ WF_vars(Caller)
  /\ WF_vars(\E w \in Workers : Take(w))
  /\ \A w \in Workers : WF_vars(Work(w))

-------------------------------------------------------------------------------
TypeOK ==
  /\ CallTypeOK
  /\ groups \in SUBSET Addrs
  /\ failed \in BOOLEAN
  /\ pc \in [Workers -> {"idle", "seek", "read", "copy", "copying"}]
  /\ fds \in [Workers -> Nat \cup {Closed, Broken}]
  /\ group \in [Workers -> Addrs \cup {NoGroup}]
  /\ chunk \in [Workers -> {NoData} \cup [0..(ChunkSz - 1) -> Int \X Nat]]
  /\ left \in [Workers -> SUBSET segs]
  /\ seg \in [Workers -> Segments \cup {NoSeg}]

\* "The sub-slices never overlap between threads and segments" (direct.rs:81):
\* no two threads are ever copying to the same byte of the buffer, which the
\* raw pointers do not prevent.
CopiesDisjoint ==
  \A v, w \in Workers :
    (v # w /\ pc[v] = "copying" /\ pc[w] = "copying") =>
      Window(seg[v]) \cap Window(seg[w]) = {}

\* Every copy is within the part of the buffer that the size check vouched
\* for; the pointer is not checked (direct.rs:84).
CopiesInBuffer ==
  \A w \in Workers :
    pc[w] = "copying" => Window(seg[w]) \subseteq 0..(Vsz(call.request) - 1)

\* No byte is written a second time during a call.
WritesOnce ==
  [][outcome = "busy" => \A k \in DOMAIN dst :
       dst[k] # Untouched => dst'[k] = dst[k]]_vars

Returns == []<>(outcome # "busy")
===============================================================================
