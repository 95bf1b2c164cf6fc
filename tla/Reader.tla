--------------------------------- MODULE Reader ---------------------------------
(***************************************************************************)
(* What a reader promises (traits Reader and ParReader in                  *)
(* src/src/reader/dataset.rs), whichever way it reads: a call either fails,*)
(* and then says nothing about the buffer, or reports the size of the      *)
(* request and the buffer begins with the slice, in row-major order, the   *)
(* rest of it being as it was.  This is promised for requests within the   *)
(* dataset.                                                                *)
(***************************************************************************)
EXTENDS ReadRequests

VARIABLES
  call,      \* the request and the buffer's length, of the latest call
  outcome,   \* "busy" during the call, then "ok" or "err"
  returned,  \* the number of bytes a successful call reports
  buffer     \* the buffer as the caller sees it after a successful call

vars == <<call, outcome, returned, buffer>>

Calls == [request : Requests, len : DstLens]

NoBuffer == << >>

Init ==
  /\ call \in Calls
  /\ outcome = "busy"
  /\ returned = 0
  /\ buffer = NoBuffer

\* The call succeeds.
Succeed ==
  LET r == call.request
  IN
  /\ outcome = "busy"
  /\ r \notin IllRanked
  /\ call.len >= Vsz(r)
  /\ outcome' = "ok"
  /\ returned' = Vsz(r)
  /\ IF Within(r)
     THEN buffer' = [k \in 0..(call.len - 1) |->
                       IF k < Vsz(r) THEN Slice[r][k + 1] ELSE Untouched]
     ELSE buffer' \in [0..(call.len - 1) -> Byte]
  /\ UNCHANGED call

\* The call fails.
Fail ==
  /\ outcome = "busy"
  /\ outcome' = "err"
  /\ UNCHANGED <<call, returned, buffer>>

\* The caller is done with the result and calls again.
CallAgain ==
  /\ outcome \in {"ok", "err"}
  /\ call' \in Calls
  /\ outcome' = "busy"
  /\ returned' = 0
  /\ buffer' = NoBuffer

Next == Succeed \/ Fail \/ CallAgain

Spec == Init /\ [][Next]_vars
===============================================================================
