------------------------------ MODULE IndexFileProofs ------------------------------
(***************************************************************************)
(* Two indexes are never mixed, a call reads one file, and what is read is *)
(* never older than the index: for any number of runs of the indexer,      *)
(* of replacements of the data file, of loads and of calls, for an index   *)
(* of any number of parts and calls that read any number of chunks.        *)
(***************************************************************************)
EXTENDS IndexFile, FiniteSetTheorems, TLAPS

(***************************************************************************)
(* The inductive invariant.                                                *)
(***************************************************************************)
Kinds == {"none", "cached", "stream", "serial", "parallel"}

IndexerType == [state : {"idle", "indexed", "writing"}, source : Nat, stopped : BOOLEAN,
                runs : Nat, stops : Nat]

TypeInv ==
  /\ file \in [at : Nat, newest : Nat \ {0}]
  /\ disk \in Seq(Nat)
  /\ indexer \in IndexerType
  /\ loader \in [state : {"idle", "reading"}, parts : Seq(Nat), written : BOOLEAN]
  /\ index \in Seq(Nat)
  /\ kind \in Kinds
  /\ fds \in [Workers -> Nat]
  /\ cache \in [Chunks -> Nat]
  /\ call \in [state : {"none", "busy", "ok", "err"}, todo : SUBSET Chunks, seen : SUBSET Nat,
               moved : BOOLEAN, n : Nat]

\* There is at most one version on disk; what has been loaded is the beginning of
\* it unless it was written to meanwhile.
DiskInv ==
  /\ OfOneVersion(disk)
  /\ indexer.state = "writing" => \A n \in 1..Len(disk) : disk[n] = indexer.source
  /\ (loader.state = "reading" /\ ~loader.written) =>
       /\ Len(loader.parts) <= Len(disk)
       /\ \A n \in 1..Len(loader.parts) : loader.parts[n] = disk[n]

\* Nothing is of a version that there has not been, and what a reader has is not
\* older than its index.
AgeInv ==
  /\ file.at # 0 => file.at = file.newest
  /\ indexer.source <= file.newest
  /\ \A n \in 1..Len(disk) : disk[n] <= file.newest
  /\ \A n \in 1..Len(loader.parts) : loader.parts[n] <= file.newest
  /\ \A n \in 1..Len(index) :
       /\ index[n] <= file.newest
       /\ \A w \in Workers : fds[w] # 0 => index[n] <= fds[w]
       /\ \A c \in Chunks : cache[c] # 0 => index[n] <= cache[c]
       /\ \A v \in call.seen : index[n] <= v

\* What the chunks of a call, and those in the cache, have been read from.
SourceInv ==
  /\ kind = "none" => call = NoCall
  /\ kind # "parallel" =>
       /\ call.seen \subseteq {fds[1]} \ {0}
       /\ fds[2] = 0
  /\ kind = "cached" => fds[1] # 0
  /\ \A c \in Chunks : cache[c] # 0 => kind = "cached" /\ cache[c] = fds[1]
  /\ (kind = "parallel" /\ call.state = "busy" /\ ~call.moved) =>
       /\ \A w \in Workers : fds[w] # 0 => fds[w] = file.at
       /\ call.seen \subseteq {file.at}
  /\ call.state = "ok" =>
       /\ call.seen # {}
       /\ (kind = "parallel" /\ ~call.moved) => \E v \in Nat : call.seen \subseteq {v}

IInv == TypeInv /\ DiskInv /\ AgeInv /\ SourceInv

-------------------------------------------------------------------------------
LEMMA InitIInv == Init => IInv
<1> SUFFICES ASSUME Init PROVE IInv
  OBVIOUS
<1> USE DEF Init, NoFds, NoCache, NoCall, Absent
<1>1. TypeInv
  BY DEF TypeInv, IndexerType, Kinds
<1>2. DiskInv
  BY DEF DiskInv, OfOneVersion
<1>3. AgeInv
  BY DEF AgeInv, Workers
<1>4. SourceInv
  BY DEF SourceInv, Workers
<1> QED
  BY <1>1, <1>2, <1>3, <1>4 DEF IInv

\* Versions are numbers.
LEMMA Versions ==
  ASSUME TypeInv
  PROVE  /\ file.at \in Nat /\ file.newest \in Nat /\ indexer.source \in Nat
         /\ \A n \in 1..Len(disk) : disk[n] \in Nat
         /\ \A n \in 1..Len(loader.parts) : loader.parts[n] \in Nat
         /\ \A n \in 1..Len(index) : index[n] \in Nat
<1>1. /\ file.at \in Nat /\ file.newest \in Nat /\ indexer.source \in Nat
      /\ disk \in Seq(Nat) /\ loader.parts \in Seq(Nat) /\ index \in Seq(Nat)
  BY DEF TypeInv, IndexerType
<1>2. \A s \in Seq(Nat) : \A n \in 1..Len(s) : s[n] \in Nat
  OBVIOUS
<1> QED
  BY <1>1, <1>2

\* The data file changes: it only gets newer, and a call under way is told.
LEMMA FileStep ==
  ASSUME IInv, Replace \/ Remove
  PROVE  IInv'
<1> USE DEF IInv
<1>1. /\ file' \in [at : Nat, newest : Nat \ {0}]
      /\ file.newest <= file'.newest
      /\ file'.at # 0 => file'.at = file'.newest
      /\ call' = [call EXCEPT !.moved = @ \/ call.state = "busy"]
      /\ UNCHANGED <<disk, indexer, loader, index, kind, fds, cache>>
  BY DEF Replace, Remove, Moved, reading, TypeInv
<1>2. /\ call'.moved <=> (call.moved \/ call.state = "busy")
      /\ call'.state = call.state /\ call'.seen = call.seen
  BY <1>1 DEF TypeInv
<1>3. kind = "none" => call' = NoCall
  <2> SUFFICES ASSUME kind = "none" PROVE call' = NoCall
    OBVIOUS
  <2>1. call = NoCall
    BY DEF SourceInv
  <2>2. call.state # "busy" /\ call.moved = FALSE
    BY <2>1 DEF NoCall
  <2>3. call' = [call EXCEPT !.moved = FALSE]
    BY <1>1, <2>2
  <2> QED
    BY <2>1, <2>3 DEF NoCall
<1>4. TypeInv'
  BY <1>1 DEF TypeInv
<1>5. DiskInv'
  BY <1>1 DEF DiskInv, OfOneVersion
<1>6. AgeInv'
  BY <1>1, <1>2, Versions DEF AgeInv
<1>7. SourceInv'
  BY <1>1, <1>2, <1>3 DEF SourceInv
<1> QED
  BY <1>4, <1>5, <1>6, <1>7

\* The indexer writes what it has found, or stops.
LEMMA IndexerStep ==
  ASSUME IInv, Index \/ Indexer \/ Stop
  PROVE  IInv'
<1> USE DEF IInv
<1>1. CASE Index
  <2>1. /\ indexer' = [indexer EXCEPT !.state = "indexed", !.source = file.at,
                                      !.stopped = FALSE, !.runs = @ + 1]
        /\ file.at # 0
        /\ UNCHANGED <<file, disk, loader, index, kind, fds, cache, call>>
    BY <1>1 DEF Index, reading
  <2>2. indexer'.state = "indexed" /\ indexer'.source = file.newest
    BY <2>1 DEF TypeInv, AgeInv
  <2>3. TypeInv'
    <3>1. indexer' = [state |-> "indexed", source |-> file.at, stopped |-> FALSE,
                      runs |-> indexer.runs + 1, stops |-> indexer.stops]
      BY <2>1 DEF TypeInv, IndexerType
    <3>2. /\ file.at \in Nat /\ indexer.source \in Nat
          /\ indexer.runs \in Nat /\ indexer.stops \in Nat
      BY DEF TypeInv, IndexerType
    <3>3. indexer' \in IndexerType
      BY <3>1, <3>2 DEF IndexerType
    <3> QED
      BY <2>1, <3>3 DEF TypeInv
  <2>4. DiskInv'
    BY <2>1, <2>2 DEF DiskInv, OfOneVersion
  <2>5. AgeInv'
    BY <2>1, <2>2, Versions DEF AgeInv
  <2>6. SourceInv'
    BY <2>1 DEF SourceInv
  <2> QED
    BY <2>3, <2>4, <2>5, <2>6
<1>2. CASE Stop
  <2>1. /\ indexer' = [indexer EXCEPT !.state = "idle", !.stopped = TRUE, !.stops = @ + 1]
        /\ UNCHANGED <<file, disk, loader, index, kind, fds, cache, call>>
    BY <1>2 DEF Stop, reading
  <2>2. indexer'.state = "idle" /\ indexer'.source = indexer.source
    BY <2>1 DEF TypeInv
  <2>3. TypeInv'
    <3>1. indexer' = [state |-> "idle", source |-> indexer.source, stopped |-> TRUE,
                      runs |-> indexer.runs, stops |-> indexer.stops + 1]
      BY <2>1 DEF TypeInv, IndexerType
    <3>2. /\ file.at \in Nat /\ indexer.source \in Nat
          /\ indexer.runs \in Nat /\ indexer.stops \in Nat
      BY DEF TypeInv, IndexerType
    <3>3. indexer' \in IndexerType
      BY <3>1, <3>2 DEF IndexerType
    <3> QED
      BY <2>1, <3>3 DEF TypeInv
  <2>4. DiskInv'
    BY <2>1, <2>2 DEF DiskInv, OfOneVersion
  <2>5. AgeInv'
    BY <2>1, <2>2 DEF AgeInv
  <2>6. SourceInv'
    BY <2>1 DEF SourceInv
  <2> QED
    BY <2>3, <2>4, <2>5, <2>6
<1>3. CASE Indexer
  <2> DEFINE d == IF indexer.state = "indexed" THEN << >> ELSE Append(disk, indexer.source)
  <2>1. /\ disk' = d
        /\ \E s \in {"idle", "writing"} : indexer' = [indexer EXCEPT !.state = s]
        /\ loader' = [loader EXCEPT !.written = (loader.state = "reading")]
        /\ indexer.state = "indexed" \/ indexer.state = "writing"
        /\ UNCHANGED <<file, index, kind, fds, cache, call>>
    BY <1>3 DEF Indexer, Truncate, WritePart, Written, reading, TypeInv
  <2>2. /\ d \in Seq(Nat)
        /\ \A n \in 1..Len(d) : d[n] = indexer.source
    BY <2>1 DEF TypeInv, IndexerType, DiskInv
  <2> HIDE DEF d
  <2>3. TypeInv'
    BY <2>1, <2>2 DEF TypeInv, IndexerType
  <2>4. DiskInv'
    <3>1. OfOneVersion(d)
      BY <2>2 DEF OfOneVersion
    <3>2. indexer'.source = indexer.source
      BY <2>1 DEF TypeInv, IndexerType
    <3>3. \A n \in 1..Len(disk') : disk'[n] = indexer'.source
      BY <2>1, <2>2, <3>2
    <3>4. ~(loader'.state = "reading" /\ ~loader'.written)
      BY <2>1 DEF TypeInv
    <3> QED
      BY <2>1, <3>1, <3>3, <3>4 DEF DiskInv, OfOneVersion
  <2>5. AgeInv'
    BY <2>1, <2>2 DEF AgeInv, TypeInv
  <2>6. SourceInv'
    BY <2>1 DEF SourceInv
  <2> QED
    BY <2>3, <2>4, <2>5, <2>6
<1> QED
  BY <1>1, <1>2, <1>3

\* An index is loaded: what is in use after that is of no version that the data
\* file has not had, and nothing is left of the reader before.
LEMMA LoaderStep ==
  ASSUME IInv, LoadOpen \/ Loader
  PROVE  IInv'
<1> USE DEF IInv
<1>1. CASE LoadOpen
  <2>1. /\ loader' = [state |-> "reading", parts |-> << >>, written |-> FALSE]
        /\ UNCHANGED <<file, disk, indexer, index, kind, fds, cache, call>>
    BY <1>1 DEF LoadOpen, reading
  <2> QED
    BY <2>1 DEF TypeInv, DiskInv, OfOneVersion, AgeInv, SourceInv
<1>2. CASE LoadPart
  <2> DEFINE n == Len(loader.parts)
  <2>1. /\ loader' = [loader EXCEPT !.parts = Append(@, disk[Len(@) + 1])]
        /\ loader.state = "reading" /\ n < Len(disk)
        /\ UNCHANGED <<file, disk, indexer, index, kind, fds, cache, call>>
    BY <1>2 DEF LoadPart, reading
  <2>2. loader.parts \in Seq(Nat) /\ disk \in Seq(Nat) /\ n \in Nat
    BY DEF TypeInv
  <2>3. disk[n + 1] \in Nat /\ n + 1 \in 1..Len(disk)
    <3>1. n + 1 \in 1..Len(disk)
      BY <2>1, <2>2
    <3> QED
      BY <2>2, <3>1
  <2>4. /\ loader'.parts = Append(loader.parts, disk[n + 1])
        /\ loader'.state = loader.state /\ loader'.written = loader.written
    BY <2>1 DEF TypeInv
  <2>5. /\ loader'.parts \in Seq(Nat) /\ Len(loader'.parts) = n + 1
        /\ loader'.parts[n + 1] = disk[n + 1]
        /\ \A m \in 1..n : loader'.parts[m] = loader.parts[m]
    BY <2>2, <2>3, <2>4
  <2> HIDE DEF n
  <2>6. TypeInv'
    BY <2>1, <2>5 DEF TypeInv
  <2>7. DiskInv'
    BY <2>1, <2>2, <2>3, <2>4, <2>5 DEF DiskInv, OfOneVersion, n
  <2>8. AgeInv'
    BY <2>1, <2>2, <2>3, <2>5 DEF AgeInv, n
  <2>9. SourceInv'
    BY <2>1 DEF SourceInv
  <2> QED
    BY <2>6, <2>7, <2>8, <2>9
<1>3. CASE Load
  <2>1. /\ index' = loader.parts
        /\ loader' = [state |-> "idle", parts |-> << >>, written |-> FALSE]
        /\ kind' = "none" /\ fds' = NoFds /\ cache' = NoCache /\ call' = NoCall
        /\ UNCHANGED <<file, disk, indexer>>
    BY <1>3 DEF Load
  <2>2. TypeInv'
    BY <2>1 DEF TypeInv, Kinds, NoFds, NoCache, NoCall
  <2>3. DiskInv'
    BY <2>1 DEF DiskInv, OfOneVersion
  <2>4. AgeInv'
    BY <2>1 DEF AgeInv, NoFds, NoCache, NoCall
  <2>5. SourceInv'
    BY <2>1 DEF SourceInv, NoFds, NoCache, NoCall, Workers
  <2> QED
    BY <2>2, <2>3, <2>4, <2>5
<1>4. CASE LoadFails
  <2>1. /\ loader' = [state |-> "idle", parts |-> << >>, written |-> FALSE]
        /\ UNCHANGED <<file, disk, indexer, index, kind, fds, cache, call>>
    BY <1>4 DEF LoadFails, reading
  <2> QED
    BY <2>1 DEF TypeInv, DiskInv, OfOneVersion, AgeInv, SourceInv
<1> QED
  BY <1>1, <1>2, <1>3, <1>4 DEF Loader

\* The steps of a reader: each descriptor is opened on the newest version.
LEMMA ReaderStep ==
  ASSUME IInv, Reader
  PROVE  IInv'
<1> USE DEF IInv
<1>0. UNCHANGED <<file, disk, indexer, loader, index>>
  BY DEF Reader, MakeReader, Call, OpenFile, Read, ReadCached, ReadFails, reading
<1>1. DiskInv'
  BY <1>0 DEF DiskInv, OfOneVersion
<1>2. /\ file.at \in Nat
      /\ file.at # 0 => \A n \in 1..Len(index) : index[n] <= file.at
      /\ 1 \in Workers /\ 2 \in Workers
      /\ fds \in [Workers -> Nat] /\ cache \in [Chunks -> Nat]
  BY DEF TypeInv, AgeInv, Workers
<1>3. ASSUME NEW k \in {"cached", "stream", "serial", "parallel"}, MakeReader(k)
      PROVE  TypeInv' /\ AgeInv' /\ SourceInv'
  <2>1. /\ kind = "none" /\ call = NoCall /\ kind' = k
        /\ k = "cached" => file.at # 0
        /\ fds' = IF k = "cached" THEN [NoFds EXCEPT ![1] = file.at] ELSE NoFds
        /\ UNCHANGED <<cache, call>>
    BY <1>3 DEF MakeReader, SourceInv
  <2>2. /\ fds' \in [Workers -> Nat] /\ fds'[2] = 0
        /\ fds'[1] = IF k = "cached" THEN file.at ELSE 0
        /\ \A w \in Workers : fds'[w] # 0 => w = 1 /\ k = "cached" /\ fds'[w] = file.at
    BY <1>2, <2>1 DEF NoFds, Workers
  <2>3. call'.seen = {} /\ call'.state = "none" /\ \A c \in Chunks : cache'[c] = 0
    BY <2>1 DEF SourceInv, NoCall
  <2>4. TypeInv'
    BY <1>0, <2>1, <2>2 DEF TypeInv, Kinds
  <2>5. AgeInv'
    BY <1>0, <1>2, <2>1, <2>2, <2>3 DEF AgeInv
  <2>6. SourceInv'
    BY <2>1, <2>2, <2>3 DEF SourceInv
  <2> QED
    BY <2>4, <2>5, <2>6
<1>4. ASSUME Call
      PROVE  TypeInv' /\ AgeInv' /\ SourceInv'
  <2>1. /\ kind # "none"
        /\ call' = [state |-> "busy", todo |-> Chunks, seen |-> {}, moved |-> FALSE,
                    n |-> call.n + 1]
        /\ fds' = IF kind = "cached" THEN fds ELSE NoFds
        /\ UNCHANGED <<kind, cache>>
    BY <1>4 DEF Call
  <2>2. /\ fds' \in [Workers -> Nat]
        /\ kind # "cached" => \A w \in Workers : fds'[w] = 0
    BY <1>2, <2>1 DEF NoFds
  <2>3. TypeInv'
    BY <1>0, <2>1, <2>2 DEF TypeInv
  <2>4. AgeInv'
    BY <1>0, <2>1, <2>2 DEF AgeInv
  <2>5. SourceInv'
    BY <1>2, <2>1, <2>2 DEF SourceInv
  <2> QED
    BY <2>3, <2>4, <2>5
<1>10. ASSUME call.state = "busy", call' = [call EXCEPT !.state = "err"],
              UNCHANGED <<kind, fds, cache>>
       PROVE  TypeInv' /\ AgeInv' /\ SourceInv'
  <2>1. /\ call'.seen = call.seen /\ call'.state = "err" /\ kind # "none"
    BY <1>10 DEF TypeInv, SourceInv, NoCall
  <2>2. TypeInv'
    BY <1>0, <1>10 DEF TypeInv
  <2>3. AgeInv'
    BY <1>0, <1>10, <2>1 DEF AgeInv
  <2>4. SourceInv'
    BY <1>10, <2>1 DEF SourceInv
  <2> QED
    BY <2>2, <2>3, <2>4
<1>5. ASSUME NEW w \in IF kind = "parallel" THEN Workers ELSE {1}, OpenFile(w)
      PROVE  TypeInv' /\ AgeInv' /\ SourceInv'
  <2>1. /\ w \in Workers
        /\ kind # "parallel" => w = 1
        /\ call.state = "busy" /\ fds[w] = 0 /\ UNCHANGED <<kind, cache>>
    BY <1>2, <1>5 DEF OpenFile
  <2>2. CASE file.at # 0
    <3>1. fds' = [fds EXCEPT ![w] = file.at] /\ UNCHANGED call
      BY <1>5, <2>2 DEF OpenFile
    <3>2. /\ fds' \in [Workers -> Nat] /\ fds'[w] = file.at
          /\ \A v \in Workers : v # w => fds'[v] = fds[v]
      BY <1>2, <2>1, <3>1
    <3>3. kind # "parallel" => call.seen = {} /\ kind # "cached"
      BY <2>1 DEF SourceInv
    <3>4. TypeInv'
      BY <1>0, <2>1, <3>1, <3>2 DEF TypeInv
    <3>5. AgeInv'
      BY <1>0, <1>2, <2>1, <3>1, <3>2 DEF AgeInv
    <3>6. SourceInv'
      BY <1>0, <1>2, <2>1, <2>2, <3>1, <3>2, <3>3 DEF SourceInv
    <3> QED
      BY <3>4, <3>5, <3>6
  <2>3. CASE file.at = 0
    <3>1. call' = [call EXCEPT !.state = "err"] /\ UNCHANGED fds
      BY <1>5, <2>3 DEF OpenFile
    <3> QED
      BY <1>10, <2>1, <3>1
  <2> QED
    BY <2>2, <2>3
<1>6. ASSUME NEW c \in Chunks, NEW v \in Nat, Got(c, v), c \in call.todo,
             v # 0, call.state = "busy",
             \A n \in 1..Len(index) : index[n] <= v,
             kind # "parallel" => v = fds[1],
             kind = "parallel" => \E w \in Workers : v = fds[w],
             UNCHANGED <<kind, fds>>,
             \A d \in Chunks : cache'[d] # 0 => cache'[d] = cache[d] \/ (kind = "cached" /\ cache'[d] = v),
             cache' \in [Chunks -> Nat]
      PROVE  TypeInv' /\ AgeInv' /\ SourceInv'
  <2>1. PICK s \in {"ok", "busy"} :
          call' = [call EXCEPT !.seen = @ \cup {v}, !.todo = @ \ {c}, !.state = s]
    BY <1>6 DEF Got
  <2>2. /\ call'.seen = call.seen \cup {v} /\ call'.state = s
        /\ call'.moved = call.moved /\ kind # "none"
    BY <1>6, <2>1 DEF TypeInv, SourceInv, NoCall
  <2>3. TypeInv'
    BY <1>0, <1>6, <2>1 DEF TypeInv
  <2>4. AgeInv'
    BY <1>0, <1>6, <2>2 DEF AgeInv
  <2>5. (kind = "parallel" /\ ~call.moved) => call'.seen \subseteq {file.at} /\ file.at \in Nat
    BY <1>2, <1>6, <2>2 DEF SourceInv
  <2>6. SourceInv'
    BY <1>0, <1>6, <2>2, <2>5 DEF SourceInv
  <2> QED
    BY <2>3, <2>4, <2>6
<1>7. ASSUME NEW w \in IF kind = "parallel" THEN Workers ELSE {1}, NEW c \in Chunks, Read(w, c)
      PROVE  TypeInv' /\ AgeInv' /\ SourceInv'
  <2>1. /\ w \in Workers
        /\ kind # "parallel" => w = 1
        /\ call.state = "busy" /\ c \in call.todo /\ fds[w] # 0 /\ Got(c, fds[w])
        /\ UNCHANGED <<kind, fds>>
    BY <1>2, <1>7 DEF Read
  <2>2. fds[w] \in Nat /\ \A n \in 1..Len(index) : index[n] <= fds[w]
    BY <1>2, <2>1 DEF AgeInv
  <2>3. /\ cache' \in [Chunks -> Nat]
        /\ \A d \in Chunks : cache'[d] # 0 =>
             cache'[d] = cache[d] \/ (kind = "cached" /\ cache'[d] = fds[w])
    <3>1. CASE kind = "cached"
      <4>1. PICK others \in {cache, NoCache} : cache' = [others EXCEPT ![c] = fds[w]]
        BY <1>7, <3>1 DEF Read
      <4> QED
        BY <1>2, <2>2, <3>1, <4>1 DEF NoCache
    <3>2. CASE kind # "cached"
      BY <1>2, <1>7, <3>2 DEF Read
    <3> QED
      BY <3>1, <3>2
  <2> QED
    BY <2>1, <2>2, <2>3, <1>6
<1>8. ASSUME NEW c \in Chunks, ReadCached(c)
      PROVE  TypeInv' /\ AgeInv' /\ SourceInv'
  <2>1. /\ call.state = "busy" /\ c \in call.todo /\ cache[c] # 0 /\ Got(c, cache[c])
        /\ UNCHANGED <<kind, fds, cache>>
    BY <1>8 DEF ReadCached, reading
  <2>2. /\ cache[c] \in Nat /\ kind = "cached" /\ cache[c] = fds[1]
        /\ \A n \in 1..Len(index) : index[n] <= cache[c]
    BY <1>2, <2>1 DEF AgeInv, SourceInv
  <2> QED
    BY <1>2, <2>1, <2>2, <1>6
<1>9. ASSUME NEW w \in IF kind = "parallel" THEN Workers ELSE {1}, ReadFails(w)
      PROVE  TypeInv' /\ AgeInv' /\ SourceInv'
  <2>1. /\ call.state = "busy" /\ call' = [call EXCEPT !.state = "err"]
        /\ UNCHANGED <<kind, fds, cache>>
    BY <1>9 DEF ReadFails, reading
  <2> QED
    BY <1>10, <2>1
<1>11. TypeInv' /\ AgeInv' /\ SourceInv'
  BY <1>3, <1>4, <1>5, <1>7, <1>8, <1>9 DEF Reader
<1> QED
  BY <1>1, <1>11

\* No step of any of the programs invalidates the invariant.
LEMMA NextIInv == IInv /\ [Next]_vars => IInv'
<1> SUFFICES ASSUME IInv, [Next]_vars PROVE IInv'
  OBVIOUS
<1>1. CASE UNCHANGED vars
  <2>1. UNCHANGED <<file, disk, indexer, loader, index, kind, fds, cache, call>>
    BY <1>1 DEF vars
  <2>2. TypeInv'
    BY <2>1 DEF IInv, TypeInv
  <2>3. DiskInv'
    BY <2>1 DEF IInv, DiskInv, OfOneVersion
  <2>4. AgeInv'
    BY <2>1 DEF IInv, AgeInv
  <2>5. SourceInv'
    BY <2>1 DEF IInv, SourceInv
  <2> QED
    BY <2>2, <2>3, <2>4, <2>5 DEF IInv
<1> QED
  BY <1>1, FileStep, IndexerStep, LoaderStep, ReaderStep DEF Next

\* The invariant of all that follows.
THEOREM Invariance == Spec => []IInv
BY InitIInv, NextIInv, PTL DEF Spec

-------------------------------------------------------------------------------
\* Parts of the indexes of two data files are never loaded together unless the index
\* file was written to while it was read, however often the indexer was stopped with
\* half of one written (hfxidx.rs:38, hfxlst.rs:17).
THEOREM NeverMixesIndexes == Spec => LoadedIsOfOneFile
<1>1. IInv /\ [Next]_vars =>
        [index' # index => OfOneVersion(index') \/ loader.written]_vars
  <2> SUFFICES ASSUME IInv, [Next]_vars, index' # index
               PROVE  OfOneVersion(index') \/ loader.written
    OBVIOUS
  <2>1. Load
    BY DEF Next, Replace, Remove, Index, Indexer, Truncate, WritePart, Stop, LoadOpen, Loader,
           LoadPart, LoadFails, Reader, MakeReader, Call, OpenFile, Read, ReadCached, ReadFails,
           reading, vars
  <2>2. /\ index' = loader.parts /\ loader.state = "reading"
        /\ loader.written \in BOOLEAN
    BY <2>1 DEF Load, AllRead, IInv, TypeInv
  <2>3. ~loader.written => OfOneVersion(loader.parts)
    <3>1. loader.parts \in Seq(Nat) /\ disk \in Seq(Nat)
      BY DEF IInv, TypeInv
    <3> SUFFICES ASSUME ~loader.written,
                        NEW m \in 1..Len(loader.parts), NEW n \in 1..Len(loader.parts)
                 PROVE  loader.parts[m] = loader.parts[n]
      BY DEF OfOneVersion
    <3>2. /\ m \in 1..Len(disk) /\ n \in 1..Len(disk)
          /\ loader.parts[m] = disk[m] /\ loader.parts[n] = disk[n]
      <4>1. /\ Len(loader.parts) <= Len(disk)
            /\ \A k \in 1..Len(loader.parts) : loader.parts[k] = disk[k]
        BY <2>2 DEF IInv, DiskInv
      <4>2. Len(loader.parts) \in Nat /\ Len(disk) \in Nat
        BY <3>1
      <4> QED
        BY <4>1, <4>2
    <3> QED
      BY <3>2 DEF IInv, DiskInv, OfOneVersion
  <2> QED
    BY <2>2, <2>3 DEF OfOneVersion
<1> QED
  BY <1>1, Invariance, PTL DEF Spec, LoadedIsOfOneFile

\* A call that succeeds has read one data file, unless it is a parallel one and
\* the file was replaced while its threads opened it (direct.rs:53).
THEOREM CallReadsOneFile == Spec => []CallSeesOneFile
<1>1. IInv => CallSeesOneFile
  <2> SUFFICES ASSUME IInv, call.state = "ok"
               PROVE  /\ Cardinality(call.seen) = 1 \/ (kind = "parallel" /\ call.moved)
                      /\ kind = "cached" => call.seen = {fds[1]}
    BY DEF CallSeesOneFile
  <2>1. ASSUME ~(kind = "parallel" /\ call.moved)
        PROVE  \E v : call.seen = {v}
    BY <2>1 DEF IInv, SourceInv
  <2>2. \A v : Cardinality({v}) = 1
    BY FS_Singleton
  <2>3. kind = "cached" => call.seen = {fds[1]}
    BY DEF IInv, SourceInv
  <2> QED
    BY <2>1, <2>2, <2>3
<1> QED
  BY <1>1, Invariance, PTL

\* What is read is of the version that was indexed or of a later one, however the
\* replacing, indexing, loading and reading fall together (dataset.rs:273).
THEOREM ReadsNothingOlder == Spec => []NeverOlderThanIndex
<1>1. IInv => NeverOlderThanIndex
  BY DEF IInv, AgeInv, NeverOlderThanIndex
<1> QED
  BY <1>1, Invariance, PTL
===============================================================================
