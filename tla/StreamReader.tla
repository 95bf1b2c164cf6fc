------------------------------ MODULE StreamReader ------------------------------
(***************************************************************************)
(* The streaming reader (src/src/reader/stream.rs): a generator that its   *)
(* consumer polls for the next run of the slice and may drop whenever it   *)
(* is not running.  It comes in three forms: the bytes as they are stored, *)
(* as XDR, or as values of a type in the order of the machine.  The        *)
(* generator opens the file at the first poll, reads a chunk only when a   *)
(* run needs it, and keeps converted chunks in a cache of its own.         *)
(*                                                                         *)
(* The runs are those of ReadRequests, in values; the size of a value is   *)
(* one of the dataset's properties.                                        *)
(***************************************************************************)
EXTENDS Lru, ByteOrder

CONSTANTS
  Addrs, ChunkLen, Requests, Runs, Slice, IllRanked,   \* as in ReadRequests
  Datasets,  \* records of the values' kind, dsize and order
  Types,     \* the types T of stream_values: records of kind and size
  Machines,  \* orders of the machines the program may be built for
  CacheSz    \* bytes for the cache: 32 MiB in the code

\* Bytes as they are stored and XDR are of no type.
Untyped == [kind |-> "Custom", size |-> 1]

Calls == [request : Requests, mode : {"stream", "stream_xdr"}, T : {Untyped},
          ds : Datasets, machine : Machines]
    \cup [request : Requests, mode : {"stream_values"}, T : Types,
          ds : Datasets, machine : Machines]

VARIABLES
  call,     \* which stream it is
  phase,    \* "new", "open", "ended", "failed", "dropped" or "panicked"
  running,  \* the consumer polls and waits for an answer
  step,     \* the run the generator is at
  out,      \* what has been delivered, joined, with the gaps that errors left
  errs      \* how many items were errors

vars == <<call, phase, running, step, out, errs, lru>>

ASSUME ParameterAssumption ==
  /\ ChunkLen \in Nat \ {0}
  /\ Slice \in [Requests -> Seq(Addrs \X Nat)]
  /\ Machines \subseteq {"LE", "BE"}
  /\ \A T \in Types : T.size \in Nat \ {0}

\* Every run lies in its chunk and is not empty.
ASSUME RunsAssumption ==
  /\ Runs \in [Requests -> Seq(
       [addr : Addrs, start : 0..ChunkLen, end : 0..ChunkLen, current : Nat])]
  /\ \A r \in Requests : \A n \in 1..Len(Runs[r]) : Runs[r][n].start < Runs[r][n].end

\* `current` counts the values of the runs before; all runs together have as many
\* values as the slice.
ASSUME CurrentAssumption ==
  \A r \in Requests :
    /\ Runs[r] = << >> => Slice[r] = << >>
    /\ \A n \in 1..Len(Runs[r]) :
         LET run  == Runs[r][n]
             next == run.current + (run.end - run.start)
         IN /\ n = 1 => run.current = 0
            /\ next = IF n < Len(Runs[r]) THEN Runs[r][n + 1].current ELSE Len(Slice[r])

\* The runs, joined, are the slice.
ASSUME JoinAssumption ==
  \A r \in Requests : \A n \in 1..Len(Runs[r]) :
    LET run == Runs[r][n]
    IN \A i \in 1..(run.end - run.start) :
         Slice[r][run.current + i] = <<run.addr, run.start + i - 1>>

\* The numbers that the library has, and of anything else the size.  Integers
\* have an order (for one without it XDR would panic).
ASSUME TypesAssumption ==
  /\ Datasets \subseteq [kind : {"UInt", "Int", "Float", "Custom"}, dsize : Nat \ {0},
                         order : {"BE", "LE", "Unknown"}]
  /\ \A d \in Datasets :
       /\ d.kind \in {"UInt", "Int"} => d.dsize \in {1, 2, 4, 8} /\ d.order # "Unknown"
       /\ d.kind = "Float" => d.dsize \in {4, 8}

ds == call.ds

-------------------------------------------------------------------------------
(***************************************************************************)
(* Conversions.  A byte is named by its chunk, its value and its position  *)
(* in the stored value; a byte that widens a value has position Fill.      *)
(***************************************************************************)
Fill == -1

\* In the place of a byte that an error withheld from the consumer.
Withheld == << >>

Decoded(a) ==
  [p \in 0..(ChunkLen * ds.dsize - 1) |-> <<a, p \div ds.dsize, p % ds.dsize>>]

\* What is cached of a chunk and cut into items.
Prepared(a) ==
  IF call.mode = "stream_xdr"
  THEN Xdr(Decoded(a), ds.kind, ds.dsize, ChunkLen, ds.order, call.machine,
           [v \in 0..(ChunkLen - 1) |-> <<a, v, Fill>>])
  ELSE Decoded(a)

Scale == ds.dsize * (IF call.mode = "stream_xdr" THEN Factor(ds.kind, ds.dsize) ELSE 1)

\* cache.slice(start..end)
Cut(data, run) ==
  [k \in 1..(Scale * (run.end - run.start)) |-> data[run.start * Scale + k - 1]]

\* StreamReader::with_dataset and stream: room for at least one chunk.
Room == Greater(CacheSz \div (ChunkLen * ds.dsize), 1)

-------------------------------------------------------------------------------
\* The runs are collected at once, which panics for extents of another rank;
\* the file is not opened yet.
Made(c) == IF c.request \in IllRanked THEN "panicked" ELSE "new"

Init ==
  /\ call \in Calls
  /\ phase = Made(call)
  /\ running = FALSE
  /\ step = 1
  /\ out = << >>
  /\ errs = 0
  /\ Empty

\* The consumer asks for the next item.
Poll ==
  /\ ~running /\ phase \in {"new", "open"}
  /\ running' = TRUE
  /\ UNCHANGED <<call, phase, step, out, errs, lru>>

\* At the first poll.
Open ==
  /\ running /\ phase = "new"
  /\ phase' = "open"
  /\ UNCHANGED <<call, running, step, out, errs, lru>>

\* As a mutant: the stream ends without a word.
OpenFailsSilently ==
  /\ running /\ phase = "new"
  /\ phase' = "ended"
  /\ running' = FALSE
  /\ UNCHANGED <<call, step, out, errs, lru>>

OpenFails ==
  /\ running /\ phase = "new"
  /\ phase' = "failed"
  /\ running' = FALSE
  /\ errs' = errs + 1
  /\ UNCHANGED <<call, step, out, lru>>

InLoop == running /\ phase = "open" /\ step <= Len(Runs[call.request])

\* as_slice_of, to_vec and to_native of stream_values.
Converted(item) ==
  LET bytes == [p \in 0..(Len(item) - 1) |-> item[p + 1]]
  IN [k \in DOMAIN item |->
        ToNative(bytes, call.T.kind, call.T.size, ds.order, call.machine)[k - 1]]

\* An item is delivered.  stream_values converts it, which fails, for this item
\* only, when its bytes happen not to be aligned for the type, or are not a
\* whole number of values of it: the consumer gets an error in its place.
Answer(item) ==
  /\ running' = FALSE
  /\ step' = step + 1
  /\ \/ /\ call.mode # "stream_values"
        /\ out' = out \o item
        /\ UNCHANGED errs
     \/ /\ call.mode = "stream_values"
        /\ Len(item) % call.T.size = 0
        /\ out' = out \o Converted(item)
        /\ UNCHANGED errs
     \/ /\ call.mode = "stream_values" /\ call.T.size > 1
        /\ out' = out \o [k \in 1..Len(item) |-> Withheld]
        /\ errs' = errs + 1

Hit ==
  /\ InLoop
  /\ LET run == Runs[call.request][step]
     IN /\ Cached(run.addr)
        /\ Answer(Cut(cache[run.addr], run))
        /\ Promote(run.addr)
  /\ UNCHANGED <<call, phase>>

\* As a mutant: a chunk is cached before it is converted.
MissCachesRaw ==
  /\ InLoop
  /\ LET run == Runs[call.request][step]
     IN /\ ~Cached(run.addr)
        /\ Put(run.addr, Decoded(run.addr), Room)
        /\ Answer(Cut(Prepared(run.addr), run))
  /\ UNCHANGED <<call, phase>>

\* The chunk is read, decoded, converted and cached.
Miss ==
  /\ InLoop
  /\ LET run == Runs[call.request][step]
     IN /\ ~Cached(run.addr)
        /\ Put(run.addr, Prepared(run.addr), Room)
        /\ Answer(Cut(Prepared(run.addr), run))
  /\ UNCHANGED <<call, phase>>

\* As a mutant: the file is opened again and the chunk read once more.
MissFailsReopen ==
  /\ InLoop
  /\ ~Cached(Runs[call.request][step].addr)
  /\ phase' = "new"
  /\ UNCHANGED <<call, running, step, out, errs, lru>>

\* As a mutant: the generator goes on with the next run.
MissFailsGoesOn ==
  /\ InLoop
  /\ ~Cached(Runs[call.request][step].addr)
  /\ running' = FALSE
  /\ step' = step + 1
  /\ errs' = errs + 1
  /\ UNCHANGED <<call, phase, out, lru>>

\* Reading, decoding or converting it fails: the error is the last item.
MissFails ==
  /\ InLoop
  /\ ~Cached(Runs[call.request][step].addr)
  /\ phase' = "failed"
  /\ running' = FALSE
  /\ errs' = errs + 1
  /\ UNCHANGED <<call, step, out, lru>>

End ==
  /\ running /\ phase = "open"
  /\ step > Len(Runs[call.request])
  /\ phase' = "ended"
  /\ running' = FALSE
  /\ UNCHANGED <<call, step, out, errs, lru>>

\* The consumer drops the stream, between two polls.
Drop ==
  /\ ~running /\ phase \in {"new", "open", "ended", "failed"}
  /\ phase' = "dropped"
  /\ UNCHANGED <<call, running, step, out, errs, lru>>

\* Another stream of the reader, with a file and a cache of its own.
Again ==
  /\ phase \in {"dropped", "panicked"}
  /\ call' \in Calls
  /\ phase' = Made(call')
  /\ step' = 1
  /\ out' = << >>
  /\ errs' = 0
  /\ cache' = [a \in {} |-> << >>]
  /\ order' = << >>
  /\ UNCHANGED running

Generator == Open \/ OpenFails \/ Hit \/ Miss \/ MissFails \/ End

Next == Poll \/ Generator \/ Drop \/ Again

Spec == Init /\ [][Next]_vars

\* A poll runs the generator until it answers: it awaits nothing.
FairSpec == Spec /\ WF_vars(Generator)

-------------------------------------------------------------------------------
\* The form a value should have in each of the streams, from the significance
\* of its bytes: stored, big-endian and at least four bytes wide, or native.
\* Values that are not numbers stay as they are in XDR, and those of no order
\* always.
StaysInXdr == ds.kind = "Custom" \/ ds.order = "Unknown"

Form(v) ==
  CASE call.mode = "stream" \/ (call.mode = "stream_xdr" /\ StaysInXdr) ->
         [b \in 1..ds.dsize |-> <<v[1], v[2], b - 1>>]
    [] call.mode = "stream_xdr" /\ ~StaysInXdr ->
         LET width == Greater(4, ds.dsize)
         IN [b \in 1..width |->
               <<v[1], v[2], IF width - b >= ds.dsize THEN Fill
                             ELSE StoredAt(width - b, ds.dsize, ds.order)>>]
    [] call.mode = "stream_values" ->
         [b \in 1..ds.dsize |-> <<v[1], v[2], NativeFrom(b - 1, ds.dsize, ds.order, call.machine)>>]

\* The slice in that form, up to the n-th value.
Wanted(n) ==
  LET width == IF n = 0 THEN 1 ELSE Len(Form(Slice[call.request][1]))
  IN [k \in 1..(width * n) |->
        Form(Slice[call.request][(k - 1) \div width + 1])[((k - 1) % width) + 1]]

\* The bytes are turned round as many at a time as a value has.
TypeFits ==
  call.mode = "stream_values" =>
    Turned(call.T.kind, call.T.size, ds.order, call.machine)
      = ToTurn(ds.dsize, ds.order, call.machine)

\* What the consumer has got, wherever it stops and whatever failed, is the
\* beginning of the slice, up to the run the generator is at, in the form of the
\* stream: nothing is left out, delivered twice or out of its place.  Only
\* stream_values has gaps, where it gave an error (stream.rs:79, 130,
\* reader/dataset.rs:211).
DeliversPrefix ==
  TypeFits =>
    LET runs == Runs[call.request]
        n    == IF step <= Len(runs) THEN runs[step].current
                ELSE Len(Slice[call.request])
        want == Wanted(n)
    IN /\ Len(out) = Len(want)
       /\ \A k \in 1..Len(out) :
            \/ out[k] = want[k]
            \/ out[k] = Withheld /\ call.mode = "stream_values" /\ errs > 0

\* A stream that ends without an error has delivered the whole slice, a consumer
\* need not count, in the form asked for exactly if the type of stream_values
\* fits the dataset: one of another size is not refused, and no more are floats
\* on a big-endian machine (reader/dataset.rs:209, byteorder.rs:96).
EndMeansAll ==
  (phase = "ended" /\ errs = 0 /\ Slice[call.request] # << >>) =>
    (out = Wanted(Len(Slice[call.request])) <=> TypeFits)

\* A cached chunk is the chunk at its address in the form of the stream,
\* converted once (stream.rs:84, 139).
CacheCoherent == \A a \in DOMAIN cache : cache[a] = Prepared(a)

\* The doc comment of stream(): "A stream of bytes from the variable. Always in
\* Big Endian." (stream.rs:48), for the values that have an order.
AlwaysBigEndian ==
  (call.mode = "stream" /\ ds.kind # "Custom" /\ ds.order # "Unknown") =>
    \A k \in 1..Len(out) :
      LET v == Slice[call.request][(k - 1) \div ds.dsize + 1]
          b == (k - 1) % ds.dsize
      IN out[k] = <<v[1], v[2], StoredAt(ds.dsize - 1 - b, ds.dsize, ds.order)>>

\* Every poll is answered.
Answers == running ~> ~running
===============================================================================
