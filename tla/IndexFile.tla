------------------------------- MODULE IndexFile -------------------------------
(***************************************************************************)
(* An index on disk and the data file it is of, from the programs that     *)
(* write, load and use them (src/src/bin/hfxidx.rs, src/src/bin/hfxlst.rs, *)
(* and where the readers open the data file).  The data file is replaced   *)
(* by a new one or removed at any time: a descriptor that is open keeps    *)
(* the file it was opened for, a path does not.  The index file is written *)
(* in place, a part at a time, by a program that may be stopped anywhere,  *)
(* and may be loaded at any time.  A data file that is written over in     *)
(* place, and two indexers with the same output, are left out.             *)
(*                                                                         *)
(* Chunks read from the data file and parts of an index are named by the   *)
(* version of the data file they are of; 0 is none.                        *)
(***************************************************************************)
EXTENDS Integers, Sequences, FiniteSets

CONSTANTS
  MaxVersion,   \* bound on the versions of the data file
  MaxRuns,      \* bound on the runs of the indexer,
  MaxStops,     \*   and on those that are stopped
  MaxCalls,     \* bound on the calls of a reader
  Parts,        \* parts an index is written in
  Chunks        \* the chunks a call reads

ASSUME PartsAssumption == Parts \in Nat \ {0}

VARIABLES
  file,          \* the version at the path, and the newest there has been
  disk,          \* the parts of the index file; Absent before it is created
  indexer,       \* where hfxidx is, the version it indexed, whether its last
                 \*   run was stopped, and how often that was
  loader,        \* where the loading is, the parts read, and whether the index
                 \*   file was written to meanwhile
  index,         \* the parts of the index in use; Absent before one is loaded
  kind,          \* its reader: "cached", "stream", "serial" or "parallel"
  fds,           \* the version each worker has opened
  cache,         \* the version each cached chunk is of
  call           \* its state, the chunks to read, the versions seen, whether the
                 \*   data file was replaced meanwhile, and how many calls
vars    == <<file, disk, indexer, loader, index, kind, fds, cache, call>>
reading == <<index, kind, fds, cache>>

Workers == {1, 2}                 \* threads of a parallel read; others use 1
NoFds   == [w \in Workers |-> 0]
NoCache == [c \in Chunks |-> 0]
NoCall  == [state |-> "none", todo |-> {}, seen |-> {}, moved |-> FALSE, n |-> 0]
Absent  == <<0>>

Init ==
  /\ file = [at |-> 1, newest |-> 1]
  /\ disk = Absent
  /\ indexer = [state |-> "idle", source |-> 0, stopped |-> FALSE, runs |-> 0, stops |-> 0]
  /\ loader = [state |-> "idle", parts |-> << >>, written |-> FALSE]
  /\ index = Absent /\ kind = "none" /\ fds = NoFds /\ cache = NoCache
  /\ call = NoCall

-------------------------------------------------------------------------------
\* The path gets another file, or none.
Moved == call' = [call EXCEPT !.moved = @ \/ call.state = "busy"]

Replace ==
  /\ file.newest < MaxVersion
  /\ file' = [at |-> file.newest + 1, newest |-> file.newest + 1]
  /\ Moved
  /\ UNCHANGED <<disk, indexer, loader, reading>>

Remove ==
  /\ file.at # 0
  /\ file' = [file EXCEPT !.at = 0]
  /\ Moved
  /\ UNCHANGED <<disk, indexer, loader, reading>>

-------------------------------------------------------------------------------
\* hfxidx indexes the data file through one descriptor,
Index ==
  /\ indexer.state = "idle" /\ indexer.runs < MaxRuns
  /\ file.at # 0
  /\ indexer' = [indexer EXCEPT !.state = "indexed", !.source = file.at,
                                !.stopped = FALSE, !.runs = @ + 1]
  /\ UNCHANGED <<file, disk, loader, reading, call>>

Written == loader' = [loader EXCEPT !.written = (loader.state = "reading")]

\* As a mutant: the output file is not truncated.
TruncateNot ==
  /\ indexer.state = "indexed"
  /\ indexer' = [indexer EXCEPT !.state = "writing"]
  /\ disk' = IF disk = Absent THEN << >> ELSE disk
  /\ Written
  /\ UNCHANGED <<file, reading, call>>

\* truncates the output file,
Truncate ==
  /\ indexer.state = "indexed"
  /\ indexer' = [indexer EXCEPT !.state = "writing"]
  /\ disk' = << >>
  /\ Written
  /\ UNCHANGED <<file, reading, call>>

\* As a mutant: what one write takes is taken for all.
WriteSome ==
  /\ indexer.state = "writing"
  /\ disk' = Append(disk, indexer.source)
  /\ indexer' = [indexer EXCEPT !.state = "idle"]
  /\ Written
  /\ UNCHANGED <<file, reading, call>>

\* and writes to it until all is written.
WritePart ==
  /\ indexer.state = "writing"
  /\ disk' = Append(disk, indexer.source)
  /\ indexer' = [indexer EXCEPT !.state = IF Len(disk') = Parts THEN "idle" ELSE @]
  /\ Written
  /\ UNCHANGED <<file, reading, call>>

\* hfxidx is stopped, or a write fails: what there is of the file stays.
Stop ==
  /\ indexer.state # "idle" /\ indexer.stops < MaxStops
  /\ indexer' = [indexer EXCEPT !.state = "idle", !.stopped = TRUE, !.stops = @ + 1]
  /\ UNCHANGED <<file, disk, loader, reading, call>>

Indexer == Truncate \/ WritePart

-------------------------------------------------------------------------------
\* The index file is opened and read to its end.
LoadOpen ==
  /\ loader.state = "idle" /\ disk # Absent /\ call.state # "busy"
  /\ loader' = [state |-> "reading", parts |-> << >>, written |-> FALSE]
  /\ UNCHANGED <<file, disk, indexer, reading, call>>

LoadPart ==
  /\ loader.state = "reading" /\ Len(loader.parts) < Len(disk)
  /\ loader' = [loader EXCEPT !.parts = Append(@, disk[Len(@) + 1])]
  /\ UNCHANGED <<file, disk, indexer, reading, call>>

OfOneVersion(parts) == \A m, n \in 1..Len(parts) : parts[m] = parts[n]

\* What was read is an index as hfxidx wrote it.
Whole(parts) == Len(parts) = Parts /\ OfOneVersion(parts)

AllRead == loader.state = "reading" /\ Len(loader.parts) >= Len(disk)

\* As a mutant: the reader outlives the index.
LoadKeepsReader ==
  /\ AllRead
  /\ index' = loader.parts
  /\ loader' = [state |-> "idle", parts |-> << >>, written |-> FALSE]
  /\ UNCHANGED <<file, disk, indexer, kind, fds, cache, call>>

\* read_index succeeds.  A whole index is accepted; what the deserializers make of
\* half of one, or of parts of two, is up to them.  A reader borrows its index, and
\* is gone with it.
Load ==
  /\ AllRead
  /\ index' = loader.parts
  /\ loader' = [state |-> "idle", parts |-> << >>, written |-> FALSE]
  /\ kind' = "none" /\ fds' = NoFds /\ cache' = NoCache
  /\ call' = NoCall
  /\ UNCHANGED <<file, disk, indexer>>

\* They return an error, or panic (serde.rs:89).
LoadFails ==
  /\ AllRead
  /\ ~Whole(loader.parts)
  /\ loader' = [state |-> "idle", parts |-> << >>, written |-> FALSE]
  /\ UNCHANGED <<file, disk, indexer, reading, call>>

Loader == LoadPart \/ Load \/ LoadFails

-------------------------------------------------------------------------------
\* A reader is made; the caching one opens the data file once and for all.
MakeReader(k) ==
  /\ index # Absent /\ kind = "none" /\ loader.state = "idle"
  /\ k = "cached" => file.at # 0
  /\ kind' = k
  /\ fds' = IF k = "cached" THEN [NoFds EXCEPT ![1] = file.at] ELSE NoFds
  /\ UNCHANGED <<file, disk, indexer, loader, index, cache, call>>

\* A call, or a stream from its first poll on.
Call ==
  /\ kind # "none" /\ loader.state = "idle"
  /\ call.state # "busy" /\ call.n < MaxCalls
  /\ call' = [state |-> "busy", todo |-> Chunks, seen |-> {}, moved |-> FALSE,
              n |-> call.n + 1]
  /\ fds' = IF kind = "cached" THEN fds ELSE NoFds
  /\ UNCHANGED <<file, disk, indexer, loader, index, kind, cache>>

\* The other readers open the data file in the call: a stream and a serial read
\* once, each thread of a parallel read for itself.
OpenFile(w) ==
  /\ call.state = "busy" /\ fds[w] = 0
  /\ IF file.at # 0
     THEN fds' = [fds EXCEPT ![w] = file.at] /\ UNCHANGED call
     ELSE call' = [call EXCEPT !.state = "err"] /\ UNCHANGED fds
  /\ UNCHANGED <<file, disk, indexer, loader, index, kind, cache>>

\* The call has chunk c, of version v; it is done with the last.
Got(c, v) ==
  call' = [call EXCEPT !.seen = @ \cup {v}, !.todo = @ \ {c},
                       !.state = IF call.todo = {c} THEN "ok" ELSE "busy"]

\* As a mutant: the file is opened for every chunk, and the cache kept.
ReadAnew(w, c) ==
  /\ call.state = "busy" /\ c \in call.todo /\ cache[c] = 0
  /\ fds[w] # 0 /\ file.at # 0
  /\ Got(c, file.at)
  /\ cache' = IF kind = "cached" THEN [cache EXCEPT ![c] = file.at] ELSE cache
  /\ UNCHANGED <<file, disk, indexer, loader, index, kind, fds>>

\* A chunk is read through the descriptor; the caching reader keeps it, and may
\* have no room for the others.
Read(w, c) ==
  /\ call.state = "busy" /\ c \in call.todo /\ cache[c] = 0
  /\ fds[w] # 0
  /\ Got(c, fds[w])
  /\ IF kind = "cached"
     THEN \E others \in {cache, NoCache} : cache' = [others EXCEPT ![c] = fds[w]]
     ELSE UNCHANGED cache
  /\ UNCHANGED <<file, disk, indexer, loader, index, kind, fds>>

\* A chunk is found in the cache.
ReadCached(c) ==
  /\ call.state = "busy" /\ c \in call.todo /\ cache[c] # 0
  /\ Got(c, cache[c])
  /\ UNCHANGED <<file, disk, indexer, loader, reading>>

\* Reading or decoding fails, for one because the index is of another file.
ReadFails(w) ==
  /\ call.state = "busy" /\ fds[w] # 0
  /\ call' = [call EXCEPT !.state = "err"]
  /\ UNCHANGED <<file, disk, indexer, loader, reading>>

Reader ==
  \/ \E k \in {"cached", "stream", "serial", "parallel"} : MakeReader(k)
  \/ Call
  \/ \E w \in IF kind = "parallel" THEN Workers ELSE {1} :
       OpenFile(w) \/ ReadFails(w) \/ \E c \in Chunks : Read(w, c)
  \/ \E c \in Chunks : ReadCached(c)

Next ==
  Replace \/ Remove \/ Index \/ Indexer \/ Stop \/ LoadOpen \/ Loader \/ Reader

\* A program that was started runs to its end unless it is stopped; nobody has
\* to start one.
Spec == Init /\ [][Next]_vars /\ WF_vars(Indexer) /\ WF_vars(Loader)

-------------------------------------------------------------------------------
\* What is loaded is of one data file, however often hfxidx was stopped and started
\* again with the same output: parts of two indexes, which no format is known to
\* refuse, are loaded together only if the file was written to while it was read
\* (hfxidx.rs:38, hfxlst.rs:17).
LoadedIsOfOneFile ==
  [][index' # index => OfOneVersion(index') \/ loader.written]_vars

\* A call that succeeds has read one data file, and a caching reader the same one
\* in every call, however often the file is replaced; only the threads of a
\* parallel read may find different ones, when it is replaced while they start
\* (direct.rs:53).
CallSeesOneFile ==
  call.state = "ok" =>
    /\ Cardinality(call.seen) = 1 \/ (kind = "parallel" /\ call.moved)
    /\ kind = "cached" => call.seen = {fds[1]}

\* What is read through an index is of the data file that was indexed or of one
\* that has replaced it since, never of one that it had replaced: the reader is
\* not told that the index is stale, but starting from the index again helps
\* (dataset.rs:273, index.rs:155).
NeverOlderThanIndex ==
  call.state = "ok" => \A v \in call.seen : \A n \in 1..Len(index) : index[n] <= v

\* A run of hfxidx that nobody stops leaves a whole index of the data file that it
\* indexed, whatever was there before: an index of another, or half of one that
\* an earlier run was stopped at.  And a load ends, with an index or an error.
RunsEnd ==
  /\ \A v \in 1..MaxVersion :
       (indexer.state = "indexed" /\ indexer.source = v) ~>
         (indexer.stopped \/ disk = [n \in 1..Parts |-> v])
  /\ (loader.state = "reading") ~> (loader.state = "idle")
===============================================================================
