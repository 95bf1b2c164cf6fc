--------------------------------- MODULE Direct ---------------------------------
(***************************************************************************)
(* The direct reader as its callers have it (src/src/reader/direct.rs): it *)
(* implements Reader and ParReader, and one after the other a caller may   *)
(* ask the same reader for a serial read and for a parallel one.  The      *)
(* reader itself holds nothing but the dataset and the path: neither call  *)
(* finds anything that the other has left.                                 *)
(***************************************************************************)
EXTENDS DirectSerial, DirectPar

VARIABLE mode   \* which of the two the latest call is

readVars   == <<fd, todo, last_chunk, seeks>>
directVars == <<callVars, scanVars, readVars, workVars, mode>>

Modes == {"serial", "parallel"}

InitDirect ==
  /\ InitSerial
  /\ InitWork
  /\ mode \in Modes

\* A step of read_to.
SerialStep ==
  /\ mode = "serial"
  /\ ReadStep
  /\ UNCHANGED <<workVars, mode>>

\* Steps of read_to_par: of the thread that was called, and of the pool.
Parallel(step) ==
  /\ mode = "parallel"
  /\ step
  /\ UNCHANGED <<readVars, mode>>

CallerStep  == Parallel(Caller)
TakeStep    == \E w \in Workers : Parallel(Take(w))
DropStep    == \E w \in Workers : Parallel(Drop(w))
WorkStep(w) == Parallel(Work(w))

\* The next call, of either kind.
NextCall ==
  /\ AgainSerial
  /\ Again
  /\ mode' \in Modes

NextDirect ==
  \/ SerialStep \/ CallerStep \/ TakeStep \/ DropStep \/ NextCall
  \/ \E w \in Workers : WorkStep(w)

SpecDirect == InitDirect /\ [][NextDirect]_directVars

\* The calls run to their end as they do alone: FairSpecSerial and FairSpec.
FairSpecDirect ==
  /\ SpecDirect
  /\ WF_directVars(SerialStep)
  /\ WF_directVars(CallerStep)
  /\ WF_directVars(TakeStep)
  /\ \A w \in Workers : WF_directVars(WorkStep(w))
===============================================================================
