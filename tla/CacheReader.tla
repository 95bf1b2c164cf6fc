------------------------------- MODULE CacheReader -------------------------------
(***************************************************************************)
(* The caching reader (src/src/reader/cache.rs): one file descriptor and a *)
(* least-recently-used cache of decoded chunks, which outlives the calls.  *)
(* A chunk is found in the cache or read, decoded and put into it; reading *)
(* may fail at any miss, and the call then fails half way.                 *)
(***************************************************************************)
EXTENDS ReadRequests, Lru

CONSTANT CacheSz   \* bytes for the cache: 32 MiB in the code

ASSUME CacheAssumption == CacheSz \in Nat

VARIABLES
  call,      \* the request and the buffer's length, of the latest call
  outcome,   \* "busy" during the call, then "ok" or "err"
  returned,  \* the number of bytes a successful call reports
  dst,       \* the caller's buffer
  pos,       \* where in it the rest of `dst` starts
  step,      \* the run the loop of read_to is at
  used       \* history: every chunk used, the most recently used one first

vars == <<call, outcome, returned, dst, pos, step, lru, used>>

Calls == [request : Requests, len : DstLens]

\* CacheReader::with_dataset: room for at least one chunk.
Capacity == Greater(CacheSz \div ChunkSz, 1)

-------------------------------------------------------------------------------
Fresh(len) == [k \in 0..(len - 1) |-> Untouched]

Init ==
  /\ call \in Calls
  /\ outcome = "busy"
  /\ returned = 0
  /\ dst = Fresh(call.len)
  /\ pos = 0
  /\ step = 0
  /\ Empty
  /\ used = << >>

\* The extents do not fit the dataset's rank, or the buffer is too small.
Refuse ==
  /\ outcome = "busy" /\ step = 0
  /\ call.request \in IllRanked \/ call.len < Vsz(call.request)
  /\ outcome' = "err"
  /\ UNCHANGED <<call, returned, dst, pos, step, lru, used>>

\* As a mutant: the buffer's size is not checked.
AcceptAnyLength ==
  /\ outcome = "busy" /\ step = 0
  /\ call.request \notin IllRanked
  /\ step' = 1
  /\ UNCHANGED <<call, outcome, returned, dst, pos, lru, used>>

Accept ==
  /\ outcome = "busy" /\ step = 0
  /\ call.request \notin IllRanked /\ call.len >= Vsz(call.request)
  /\ step' = 1
  /\ UNCHANGED <<call, outcome, returned, dst, pos, lru, used>>

InLoop == outcome = "busy" /\ step \in 1..Len(Runs[call.request])

\* As a mutant: every run goes to the beginning of the buffer.
CopyRunInPlace(run, data) ==
  /\ dst' = Copied(dst, pos, data, Start(run), Size(run))
  /\ pos' = pos
  /\ step' = step + 1

\* As a mutant: the run is taken from the beginning of its chunk.
CopyRunFromStart(run, data) ==
  /\ dst' = Copied(dst, pos, data, 0, Size(run))
  /\ pos' = pos + Size(run)
  /\ step' = step + 1

\* dst[..slice_sz].copy_from_slice(..); dst = &mut dst[slice_sz..]
CopyRun(run, data) ==
  /\ dst' = Copied(dst, pos, data, Start(run), Size(run))
  /\ pos' = pos + Size(run)
  /\ step' = step + 1

\* The run's chunk is cached.
Hit ==
  /\ InLoop
  /\ LET run == Run(call.request, step)
     IN /\ Cached(run.addr)
        /\ CopyRun(run, cache[run.addr])
        /\ Promote(run.addr)
        /\ used' = First(run.addr, used)
  /\ UNCHANGED <<call, outcome, returned>>

\* It is not: it is read and decoded, copied from, then cached.
Miss ==
  /\ InLoop
  /\ LET run  == Run(call.request, step)
         data == Decoded(run.addr)
     IN /\ ~Cached(run.addr)
        /\ CopyRun(run, data)
        /\ Put(run.addr, data, Capacity)
        /\ used' = First(run.addr, used)
  /\ UNCHANGED <<call, outcome, returned>>

\* As mutants: a chunk is put into the cache empty, before it is read;
\* undecoded, before it is decoded; and the call begins again after a failure.
MissFailsEmpty ==
  /\ InLoop
  /\ ~Cached(Run(call.request, step).addr)
  /\ Put(Run(call.request, step).addr, << >>, Capacity)
  /\ outcome' = "err"
  /\ UNCHANGED <<call, returned, dst, pos, step, used>>

MissFailsUndecoded ==
  /\ InLoop
  /\ LET a == Run(call.request, step).addr
     IN /\ ~Cached(a)
        /\ Put(a, [i \in 0..(ChunkSz - 1) |-> <<a, (i + 1) % ChunkSz>>], Capacity)
  /\ outcome' = "err"
  /\ UNCHANGED <<call, returned, dst, pos, step, used>>

MissFailsRetry ==
  /\ InLoop
  /\ ~Cached(Run(call.request, step).addr)
  /\ pos' = 0
  /\ step' = 0
  /\ UNCHANGED <<call, outcome, returned, dst, lru, used>>

\* It is not, and reading or decoding it fails.
MissFails ==
  /\ InLoop
  /\ ~Cached(Run(call.request, step).addr)
  /\ outcome' = "err"
  /\ UNCHANGED <<call, returned, dst, pos, step, lru, used>>

\* The loop ends; read_to returns Ok(vsz).
Finish ==
  /\ outcome = "busy" /\ step = Len(Runs[call.request]) + 1
  /\ outcome' = "ok"
  /\ returned' = Vsz(call.request)
  /\ UNCHANGED <<call, dst, pos, step, lru, used>>

\* The caller calls again, with a buffer of its own.
CallAgain ==
  /\ outcome \in {"ok", "err"}
  /\ call' \in Calls
  /\ outcome' = "busy"
  /\ returned' = 0
  /\ dst' = Fresh(call'.len)
  /\ pos' = 0
  /\ step' = 0
  /\ UNCHANGED <<lru, used>>

ReadStep == Refuse \/ Accept \/ Hit \/ Miss \/ MissFails \/ Finish

Next == ReadStep \/ CallAgain

Spec == Init /\ [][Next]_vars

\* A call, once made, runs to its end: read_to is sequential code.
FairSpec == Spec /\ WF_vars(ReadStep)

-------------------------------------------------------------------------------
TypeOK ==
  /\ call \in Calls
  /\ outcome \in {"busy", "ok", "err"}
  /\ returned \in Nat
  /\ dst \in [0..(call.len - 1) -> Byte]
  /\ pos \in Nat
  /\ step \in 0..(Len(Runs[call.request]) + 1)
  /\ DOMAIN cache \subseteq Addrs
  /\ \A a \in DOMAIN cache : cache[a] \in [0..(ChunkSz - 1) -> Addrs \X Nat]
  /\ order \in Seq(Addrs)
  /\ used \in Seq(Addrs)

\* A cached chunk is the chunk at its address, decoded, whichever calls failed
\* before: a hit copies from the cache without looking at the file
\* (cache.rs:63).
CacheCoherent == \A a \in DOMAIN cache : cache[a] = Decoded(a)

\* During a call, what is written so far is the beginning of the slice, it ends
\* where the next run goes, and nothing is written beyond (cache.rs:66, 87).
WrittenIsPrefix ==
  (outcome = "busy" /\ step > 0) =>
    /\ \A k \in 0..(pos - 1) : dst[k] = Slice[call.request][k + 1]
    /\ \A k \in DOMAIN dst : k >= pos => dst[k] = Untouched
    /\ InLoop => pos = Current(Run(call.request, step))

\* A call within the dataset that reports success has filled the buffer with
\* the slice, through any mixture of hits, misses and evictions, and has left
\* the rest of the buffer alone.
OkMeansSlice ==
  (outcome = "ok" /\ Within(call.request)) =>
    /\ returned = Vsz(call.request)
    /\ HasSlice(dst, call.request)
    /\ RestUntouched(dst, call.request)

\* The trait's promise, without the condition: "Reads raw bytes of slice into
\* destination buffer.  Returns bytes read." (reader/dataset.rs:11)
OkMeansBytesRead ==
  outcome = "ok" => \A k \in 0..(returned - 1) : dst[k] # Untouched

\* The cache holds the chunks used most recently, as many as there is room
\* for: none of them is read and decoded again, across calls too, which is what
\* the cache is for.  A hit is a use (cache.rs:63), and so is a miss.
KeepsMostRecent ==
  DOMAIN cache = {used[n] : n \in 1..Lesser(Len(used), Capacity)}

\* Every call returns.
Returns == []<>(outcome # "busy")

\* The reader keeps the promise of Reader: a call takes effect when it returns.
Promise == INSTANCE Reader WITH
  buffer <- IF outcome = "ok" THEN dst ELSE << >>

KeepsPromise == Promise!Spec
===============================================================================
