---------------------------- MODULE CacheReaderProofs ----------------------------
(***************************************************************************)
(* The caching reader is right, and its cache is a cache of the chunks     *)
(* used most recently, for every dataset, every capacity and every way of  *)
(* cutting a slice into runs that joins to it.                             *)
(***************************************************************************)
EXTENDS TypedReader, TLAPS

Arith == INSTANCE ArrayLemmas

-------------------------------------------------------------------------------
(***************************************************************************)
(* Facts about runs and their bytes.                                       *)
(***************************************************************************)
\* Arithmetic of values and bytes: multiplying by the size of a value keeps sums
\* and order.
LEMMA Scaling ==
  ASSUME NEW a \in Nat, NEW b \in Nat
  PROVE  /\ a * Dsz \in Nat
         /\ (a + b) * Dsz = a * Dsz + b * Dsz
         /\ a <= b => a * Dsz <= b * Dsz
         /\ a < b => a * Dsz < b * Dsz
<1>1. Dsz \in Nat \ {0}
  BY ParameterAssumption
<1> QED
  BY <1>1, Arith!ScaledBy

\* What decode_chunk yields is one byte for each position of the chunk.
LEMMA DecodedChunk ==
  ASSUME NEW a \in Int
  PROVE  /\ Decoded(a) \in [0..(ChunkSz - 1) -> Int \X Nat]
         /\ a \in Addrs => Decoded(a) \in [0..(ChunkSz - 1) -> Addrs \X Nat]
         /\ \A i \in 0..(ChunkSz - 1) : Decoded(a)[i] = <<a, i>>
BY DEF Decoded

\* The bytes of a run are within its chunk.
LEMMA RunBytes ==
  ASSUME NEW s \in RunType
  PROVE  /\ Start(s) \in Nat /\ End(s) \in Nat /\ Current(s) \in Nat
         /\ End(s) <= ChunkSz
         /\ ChunkSz \in Nat
         /\ Size(s) = End(s) - Start(s)
         /\ Window(s) \subseteq Nat
         /\ \A k \in Window(s) : Start(s) + (k - Current(s)) \in 0..(ChunkSz - 1)
<1>1. /\ s.start \in Nat /\ s.end \in Nat /\ s.current \in Nat /\ s.end <= ChunkLen
      /\ ChunkLen \in Nat
  BY ParameterAssumption DEF RunType
<1>2. /\ Start(s) \in Nat /\ End(s) \in Nat /\ Current(s) \in Nat
      /\ End(s) <= ChunkSz /\ ChunkSz \in Nat
  BY <1>1, Scaling DEF Start, End, Current, ChunkSz
<1>3. Size(s) = End(s) - Start(s)
  BY DEF Size
<1> QED
  BY <1>2, <1>3 DEF Window

\* What is known of a run by itself.
LEMMA ScannedRun ==
  ASSUME NEW r \in Requests, NEW n \in 1..Len(Runs[r])
  PROVE  /\ Runs[r][n] \in RunType
         /\ Runs[r][n].start < Runs[r][n].end
BY RunsAssumption DEF Run

\* A run begins where the run before it ended, and ends within the request.
LEMMA RunFollows ==
  ASSUME NEW r \in Requests, NEW n \in 1..Len(Runs[r])
  PROVE  LET next == Runs[r][n].current + (Runs[r][n].end - Runs[r][n].start)
         IN /\ n = 1 => Runs[r][n].current = 0
            /\ n < Len(Runs[r]) => next = Runs[r][n + 1].current
            /\ n = Len(Runs[r]) => next = Counts[r]
BY CurrentAssumption DEF Run

\* So no run goes beyond the size of the request: from the last one backwards.
LEMMA RunWithinRequest ==
  ASSUME NEW r \in Requests, NEW n \in 1..Len(Runs[r])
  PROVE  Runs[r][n].current + (Runs[r][n].end - Runs[r][n].start) <= Counts[r]
<1> DEFINE L       == Len(Runs[r])
           next(m) == Runs[r][m].current + (Runs[r][m].end - Runs[r][m].start)
           E       == {j \in Nat : j < L => next(L - j) <= Counts[r]}
<1>1. L \in Nat /\ Counts[r] \in Nat
  BY RunsAssumption, ParameterAssumption
<1>2. ASSUME NEW m \in 1..L
      PROVE  /\ next(m) \in Nat /\ next(m) >= Runs[r][m].current /\ Runs[r][m].current \in Nat
             /\ m < L => next(m) = Runs[r][m + 1].current
             /\ m = L => next(m) = Counts[r]
  <2>1. /\ Runs[r][m].start \in Nat /\ Runs[r][m].end \in Nat /\ Runs[r][m].current \in Nat
        /\ Runs[r][m].start < Runs[r][m].end
    BY ScannedRun, ParameterAssumption DEF RunType
  <2>2. next(m) \in Nat /\ next(m) >= Runs[r][m].current
    BY <2>1
  <2> HIDE DEF next
  <2>3. /\ m < L => next(m) = Runs[r][m + 1].current
        /\ m = L => next(m) = Counts[r]
    BY RunFollows DEF next
  <2> QED
    BY <2>1, <2>2, <2>3
<1> HIDE DEF L, next
<1>3. 0 \in E
  BY <1>1, <1>2
<1>4. ASSUME NEW j \in E
      PROVE  j + 1 \in E
  <2> SUFFICES ASSUME j + 1 < L PROVE next(L - (j + 1)) <= Counts[r]
    OBVIOUS
  <2> DEFINE m == L - (j + 1)
  <2>1. m \in 1..L /\ m < L /\ m + 1 = L - j /\ L - j \in 1..L /\ j < L
    BY <1>1
  <2>2. next(L - j) <= Counts[r]
    BY <2>1
  <2> HIDE DEF m
  <2>3. next(m) = Runs[r][L - j].current /\ Runs[r][L - j].current <= next(L - j)
        /\ next(m) \in Nat /\ next(L - j) \in Nat
    BY <1>2, <2>1
  <2>4. next(m) <= Counts[r]
    BY <1>1, <2>2, <2>3
  <2> QED
    BY <2>4 DEF m
<1>5. E = Nat
  <2>1. E \in SUBSET Nat
    OBVIOUS
  <2> HIDE DEF E
  <2> QED
    BY <1>3, <1>4, <2>1, Arith!SetInduction
<1>6. n \in 1..L
  BY DEF L
<1>7. L - n \in Nat /\ L - n < L /\ L - (L - n) = n
  BY <1>1, <1>6
<1>8. next(n) <= Counts[r]
  BY <1>5, <1>7
<1> QED
  BY <1>8 DEF next

\* The same in bytes, for the buffer: a run goes where the one before it ended,
\* and not beyond the size of the request.
LEMMA RunPlaces ==
  ASSUME NEW r \in Requests, NEW n \in 1..Len(Runs[r])
  PROVE  LET run  == Runs[r][n]
             next == Current(run) + Size(run)
         IN /\ Size(run) \in Nat
            /\ n = 1 => Current(run) = 0
            /\ n < Len(Runs[r]) => next = Current(Runs[r][n + 1])
            /\ n = Len(Runs[r]) => next = Vsz(r)
            /\ next <= Vsz(r)
<1> DEFINE run == Runs[r][n]
           len == run.end - run.start
<1>1. /\ run \in RunType /\ run.start \in Nat /\ run.end \in Nat /\ run.current \in Nat
      /\ run.start < run.end
  BY ScannedRun, ParameterAssumption DEF RunType
<1>2. len \in Nat /\ run.end = run.start + len
  BY <1>1
<1>3. Size(run) = len * Dsz
  <2>1. (run.start + len) * Dsz = run.start * Dsz + len * Dsz
    <3> DEFINE a == run.start
    <3>1. a \in Nat
      BY <1>1
    <3> HIDE DEF a, len
    <3>2. (a + len) * Dsz = a * Dsz + len * Dsz
      BY <1>2, <3>1, Scaling
    <3> QED
      BY <3>2 DEF a
  <2>2. /\ run.end * Dsz \in Nat /\ run.start * Dsz \in Nat /\ len * Dsz \in Nat
        /\ Size(run) = run.end * Dsz - run.start * Dsz
    BY <1>1, <1>2, Scaling DEF Size, Start, End
  <2> QED
    BY <1>2, <2>1, <2>2
<1>4. Current(run) + Size(run) = (run.current + len) * Dsz
  <2>1. (run.current + len) * Dsz = run.current * Dsz + len * Dsz
    BY <1>1, <1>2, Scaling
  <2> QED
    BY <1>3, <2>1 DEF Current
<1>5. Counts[r] \in Nat /\ run.current + len \in Nat /\ run.current + len <= Counts[r]
  <2>1. Counts[r] \in Nat
    BY ParameterAssumption
  <2>2. run.current + len \in Nat
    BY <1>1, <1>2
  <2>3. run.current + len <= Counts[r]
    BY RunWithinRequest
  <2> QED
    BY <2>1, <2>2, <2>3
<1>6. Current(run) + Size(run) <= Vsz(r)
  BY <1>4, <1>5, Scaling DEF Vsz
<1>7. n = 1 => Current(run) = 0
  BY RunFollows, ParameterAssumption DEF Current
<1>8. n < Len(Runs[r]) => Current(run) + Size(run) = Current(Runs[r][n + 1])
  BY <1>4, RunFollows DEF Current
<1>9. n = Len(Runs[r]) => Current(run) + Size(run) = Vsz(r)
  BY <1>4, RunFollows DEF Vsz
<1> QED
  BY <1>2, <1>3, <1>6, <1>7, <1>8, <1>9, Scaling
\* Every byte of a request that has runs is where one of them goes.
LEMMA WindowsCover ==
  ASSUME NEW r \in Requests, Runs[r] # << >>, NEW k \in 0..(Vsz(r) - 1)
  PROVE  \E n \in 1..Len(Runs[r]) : k \in Window(Runs[r][n])
<1> DEFINE L       == Len(Runs[r])
           next(m) == Current(Runs[r][m]) + Size(Runs[r][m])
           Found   == \E n \in 1..L : k \in Window(Runs[r][n])
           E       == {j \in Nat : (j + 1 <= L /\ k < next(j + 1)) => Found}
<1>1. L \in Nat \ {0} /\ Vsz(r) \in Nat
  BY RunsAssumption, ParameterAssumption, Scaling DEF Vsz
<1>2. ASSUME NEW m \in 1..L
      PROVE  /\ next(m) \in Nat /\ Current(Runs[r][m]) \in Nat
             /\ m = 1 => Current(Runs[r][m]) = 0
             /\ m < L => next(m) = Current(Runs[r][m + 1])
             /\ m = L => next(m) = Vsz(r)
             /\ Current(Runs[r][m]) <= k /\ k < next(m) => Found
  <2>1. Runs[r][m] \in RunType
    BY ScannedRun
  <2>2. Current(Runs[r][m]) \in Nat /\ Size(Runs[r][m]) \in Nat
    BY <2>1, RunBytes, RunPlaces
  <2> QED
    BY <2>2, RunPlaces DEF Window
<1> HIDE DEF L, next, Found
<1>3. 0 \in E
  BY <1>1, <1>2
<1>4. ASSUME NEW j \in E
      PROVE  j + 1 \in E
  <2> SUFFICES ASSUME j + 2 <= L, k < next(j + 2) PROVE Found
    BY <1>1
  <2>1. j + 1 \in 1..L /\ j + 2 \in 1..L /\ j + 1 < L /\ (j + 1) + 1 = j + 2 /\ j + 1 <= L
    BY <1>1
  <2>2. next(j + 1) = Current(Runs[r][j + 2])
    BY <1>2, <2>1
  <2>3. CASE k < next(j + 1)
    BY <2>1, <2>3
  <2>4. CASE ~(k < next(j + 1))
    BY <1>1, <1>2, <2>1, <2>2, <2>4
  <2> QED
    BY <2>3, <2>4
<1>5. E = Nat
  <2>1. E \in SUBSET Nat
    OBVIOUS
  <2> HIDE DEF E
  <2> QED
    BY <1>3, <1>4, <2>1, Arith!SetInduction
<1>6. L - 1 \in Nat /\ (L - 1) + 1 = L /\ L \in 1..L
  BY <1>1
<1>7. next(L) = Vsz(r)
  BY <1>2, <1>6
<1>8. k < next(L)
  BY <1>1, <1>7
<1>9. Found
  <2>1. L - 1 \in E
    BY <1>5, <1>6
  <2> QED
    BY <1>1, <1>6, <1>8, <2>1
<1> QED
  BY <1>9 DEF Found, L
-------------------------------------------------------------------------------
(***************************************************************************)
(* The inductive invariant.                                                *)
(***************************************************************************)
\* In the loop, the buffer is large enough and `pos` is where the run goes.
PlaceInv ==
  outcome = "busy" =>
    /\ step = 0 => pos = 0
    /\ step > 0 => call.request \notin IllRanked /\ call.len >= Vsz(call.request)
    /\ step \in 1..Len(Runs[call.request]) => pos = Current(Run(call.request, step))
    /\ step = Len(Runs[call.request]) + 1 =>
         pos = (IF step = 1 THEN 0 ELSE Vsz(call.request))

\* The buffer holds the slice up to `pos` and nothing beyond.
PrefixInv ==
  outcome = "busy" =>
    /\ \A k \in 0..(pos - 1) : k \in DOMAIN dst /\ dst[k] = Slice[call.request][k + 1]
    /\ \A k \in DOMAIN dst : k >= pos => dst[k] = Untouched

\* No chunk is twice in a list of chunks.
Distinct(s) == \A m, n \in 1..Len(s) : s[m] = s[n] => m = n

\* The order of the cache is the beginning of the order of use, as far as the
\* cache has room.
LruInv ==
  /\ Distinct(used)
  /\ Len(order) = Lesser(Len(used), Capacity)
  /\ \A n \in 1..Len(order) : order[n] = used[n]
  /\ DOMAIN cache = {order[n] : n \in 1..Len(order)}

IInv ==
  /\ TypeOK /\ CacheCoherent /\ PlaceInv /\ PrefixInv /\ OkMeansSlice /\ LruInv

-------------------------------------------------------------------------------
\* The cache has room for one chunk at least (cache.rs:27).
LEMMA CapacityPositive == Capacity \in Nat \ {0}
<1>1. ChunkSz \in Nat \ {0}
  BY ParameterAssumption, SMT DEF ChunkSz
<1>2. CacheSz \div ChunkSz \in Int
  BY <1>1, CacheAssumption
<1> QED
  BY <1>2 DEF Capacity, Greater

\* A list without repetitions has one place for a chunk.
LEMMA PlaceExists ==
  ASSUME NEW s \in Seq(Addrs), NEW a \in Addrs
  PROVE  /\ Place(a, s) \in 1..(Len(s) + 1)
         /\ Place(a, s) <= Len(s) => s[Place(a, s)] = a
         /\ Place(a, s) = Len(s) + 1 => \A n \in 1..Len(s) : s[n] # a
<1> DEFINE P(p) == IF p <= Len(s) THEN s[p] = a ELSE \A n \in 1..Len(s) : s[n] # a
<1>1. Len(s) \in Nat
  OBVIOUS
<1>2. \E p \in 1..(Len(s) + 1) : P(p)
  <2>1. CASE \E n \in 1..Len(s) : s[n] = a
    <3>1. PICK n \in 1..Len(s) : s[n] = a
      BY <2>1
    <3>2. n \in 1..(Len(s) + 1) /\ P(n)
      BY <1>1, <3>1
    <3> QED
      BY <3>2
  <2>2. CASE \A n \in 1..Len(s) : s[n] # a
    <3>1. Len(s) + 1 \in 1..(Len(s) + 1) /\ P(Len(s) + 1)
      BY <1>1, <2>2
    <3> QED
      BY <3>1
  <2> QED
    BY <2>1, <2>2
<1>3. Place(a, s) \in 1..(Len(s) + 1) /\ P(Place(a, s))
  BY <1>2 DEF Place
<1> QED
  BY <1>1, <1>3

\* Moving a chunk to the front, or adding it there: which chunk is where.
LEMMA FirstShape ==
  ASSUME NEW s \in Seq(Addrs), NEW a \in Addrs, Distinct(s)
  PROVE  /\ First(a, s) \in Seq(Addrs)
         /\ Len(First(a, s)) = Greater(Len(s), Place(a, s))
         /\ \A n \in 1..Len(First(a, s)) :
              First(a, s)[n] = IF n = 1 THEN a ELSE IF n <= Place(a, s) THEN s[n - 1] ELSE s[n]
         /\ Distinct(First(a, s))
<1> DEFINE p == Place(a, s)
           f == First(a, s)
<1>1. /\ Len(s) \in Nat /\ p \in 1..(Len(s) + 1)
      /\ p <= Len(s) => s[p] = a
      /\ p = Len(s) + 1 => \A n \in 1..Len(s) : s[n] # a
  BY PlaceExists
<1>2. Greater(Len(s), p) \in Nat \ {0} /\ Greater(Len(s), p) >= p /\ Greater(Len(s), p) >= Len(s)
      /\ Greater(Len(s), p) <= Len(s) + 1 /\ (p <= Len(s) => Greater(Len(s), p) = Len(s))
  BY <1>1 DEF Greater
<1>3. \A n \in 1..Len(s) : s[n] \in Addrs
  OBVIOUS
<1>4. f \in [1..Greater(Len(s), p) -> Addrs]
  BY <1>1, <1>2, <1>3 DEF First
<1>5. f \in Seq(Addrs) /\ Len(f) = Greater(Len(s), p)
  BY <1>2, <1>4
<1>6. \A n \in 1..Len(f) : f[n] = IF n = 1 THEN a ELSE IF n <= p THEN s[n - 1] ELSE s[n]
  BY <1>5 DEF First
<1>7. Distinct(f)
  <2> SUFFICES ASSUME NEW m \in 1..Len(f), NEW n \in 1..Len(f), m < n
               PROVE  f[m] # f[n]
    BY <1>5, <1>2 DEF Distinct
  <2> HIDE DEF p, f
  <2> DEFINE At(i) == IF i <= p THEN i - 1 ELSE i
  <2>1. At(n) \in 1..Len(s) /\ f[n] = s[At(n)] /\ At(n) # p
    BY <1>1, <1>2, <1>5, <1>6
  <2>2. CASE m = 1
    <3>1. f[m] = a
      BY <1>6, <2>2
    <3>2. p \in 1..Len(s) => s[At(n)] # s[p]
      BY <2>1 DEF Distinct
    <3> HIDE DEF At
    <3> QED
      BY <1>1, <2>1, <3>1, <3>2
  <2>3. CASE m > 1
    <3>1. At(m) \in 1..Len(s) /\ f[m] = s[At(m)] /\ At(m) # At(n)
      BY <1>1, <1>2, <1>5, <1>6, <2>3
    <3> QED
      BY <2>1, <3>1 DEF Distinct
  <2> QED
    BY <2>2, <2>3
<1> QED
  BY <1>5, <1>6, <1>7

\* A use of a chunk that is cached: both orders change in the same way.
LEMMA HitKeepsLru ==
  ASSUME TypeOK, LruInv, NEW a \in Addrs, Cached(a), Promote(a), used' = First(a, used)
  PROVE  LruInv' /\ order' \in Seq(Addrs) /\ used' \in Seq(Addrs)
<1> DEFINE p == Place(a, order)
<1>1. /\ order \in Seq(Addrs) /\ used \in Seq(Addrs)
      /\ Len(order) \in Nat /\ Len(used) \in Nat
      /\ order' = First(a, order) /\ used' = First(a, used) /\ cache' = cache
  BY DEF TypeOK, Promote
<1>2. Capacity \in Nat \ {0}
  BY CapacityPositive
<1>3. Len(order) <= Len(used)
  BY <1>1, <1>2 DEF LruInv, Lesser
<1>4. Distinct(order)
  BY <1>1, <1>3 DEF LruInv, Distinct
<1>5. p \in 1..Len(order) /\ order[p] = a /\ used[p] = a
  <2>1. \E n \in 1..Len(order) : order[n] = a
    BY DEF LruInv, Cached
  <2>2. /\ p \in 1..(Len(order) + 1)
        /\ p <= Len(order) => order[p] = a
        /\ p = Len(order) + 1 => \A n \in 1..Len(order) : order[n] # a
    BY <1>1, PlaceExists
  <2> HIDE DEF p
  <2>3. p \in 1..Len(order) /\ order[p] = a
    BY <1>1, <2>1, <2>2
  <2> QED
    BY <2>3 DEF LruInv
<1>6. Place(a, used) = p
  <2>1. p \in 1..Len(used)
    BY <1>1, <1>3, <1>5
  <2> DEFINE q == Place(a, used)
  <2>2. /\ q \in 1..(Len(used) + 1)
        /\ q <= Len(used) => used[q] = a
        /\ q = Len(used) + 1 => \A n \in 1..Len(used) : used[n] # a
    BY <1>1, PlaceExists
  <2> HIDE DEF p, q
  <2>3. q \in 1..Len(used) /\ used[q] = a
    BY <1>1, <1>5, <2>1, <2>2
  <2>4. q = p
    BY <1>5, <2>1, <2>3 DEF LruInv, Distinct
  <2> QED
    BY <2>4 DEF q
<1>7. /\ order' \in Seq(Addrs) /\ Len(order') = Len(order)
      /\ \A n \in 1..Len(order) :
           order'[n] = IF n = 1 THEN a ELSE IF n <= p THEN order[n - 1] ELSE order[n]
  <2>1. /\ First(a, order) \in Seq(Addrs)
        /\ Len(First(a, order)) = Greater(Len(order), p)
        /\ \A n \in 1..Len(First(a, order)) :
             First(a, order)[n] =
               IF n = 1 THEN a ELSE IF n <= p THEN order[n - 1] ELSE order[n]
    BY <1>1, <1>4, FirstShape
  <2> HIDE DEF p
  <2>2. Greater(Len(order), p) = Len(order)
    BY <1>1, <1>5 DEF Greater
  <2> QED
    BY <1>1, <2>1, <2>2
<1>8. /\ used' \in Seq(Addrs) /\ Len(used') = Len(used) /\ Distinct(used')
      /\ \A n \in 1..Len(used) :
           used'[n] = IF n = 1 THEN a ELSE IF n <= p THEN used[n - 1] ELSE used[n]
  <2>1. /\ First(a, used) \in Seq(Addrs)
        /\ Len(First(a, used)) = Greater(Len(used), Place(a, used))
        /\ Distinct(First(a, used))
        /\ \A n \in 1..Len(First(a, used)) :
             First(a, used)[n] =
               IF n = 1 THEN a ELSE IF n <= Place(a, used) THEN used[n - 1] ELSE used[n]
    BY <1>1, FirstShape DEF LruInv
  <2> HIDE DEF p
  <2>2. Greater(Len(used), p) = Len(used)
    BY <1>1, <1>3, <1>5 DEF Greater
  <2> QED
    BY <1>1, <1>6, <2>1, <2>2
<1> HIDE DEF p
<1>9. \A n \in 1..Len(order') : order'[n] = used'[n]
  <2> SUFFICES ASSUME NEW n \in 1..Len(order)
               PROVE  order'[n] = used'[n]
    BY <1>7
  <2>1. n \in 1..Len(used) /\ (n # 1 => n - 1 \in 1..Len(order))
    BY <1>1, <1>3
  <2>2. order[n] = used[n] /\ (n # 1 => order[n - 1] = used[n - 1])
    BY <2>1 DEF LruInv
  <2> QED
    BY <1>7, <1>8, <2>1, <2>2
<1>10. {order'[n] : n \in 1..Len(order')} = {order[n] : n \in 1..Len(order)}
  <2>1. ASSUME NEW n \in 1..Len(order)
        PROVE  \E m \in 1..Len(order) : order[n] = order'[m]
    <3>1. CASE n = p
      <4>1. 1 \in 1..Len(order) /\ order'[1] = order[n]
        BY <1>1, <1>5, <1>7, <3>1
      <4> QED
        BY <4>1
    <3>2. CASE n < p
      <4>1. n + 1 \in 1..Len(order) /\ n + 1 <= p /\ n + 1 # 1 /\ (n + 1) - 1 = n
        BY <1>1, <1>5, <3>2
      <4> QED
        BY <1>7, <4>1
    <3>3. CASE n > p
      <4>1. n # 1 /\ ~(n <= p)
        BY <1>1, <1>5, <3>3
      <4> QED
        BY <1>7, <4>1
    <3> QED
      BY <1>1, <1>5, <3>1, <3>2, <3>3
  <2>2. ASSUME NEW m \in 1..Len(order)
        PROVE  \E n \in 1..Len(order) : order[n] = order'[m]
    <3>1. CASE m = 1
      BY <1>5, <1>7, <3>1
    <3>2. CASE m # 1 /\ m <= p
      <4>1. m - 1 \in 1..Len(order) /\ order'[m] = order[m - 1]
        BY <1>1, <1>7, <3>2
      <4> QED
        BY <4>1
    <3>3. CASE m # 1 /\ ~(m <= p)
      BY <1>7, <3>3
    <3> QED
      BY <3>1, <3>2, <3>3
  <2>3. Len(order') = Len(order)
    BY <1>7
  <2>4. \A x : x \in {order'[n] : n \in 1..Len(order)} => x \in {order[n] : n \in 1..Len(order)}
    BY <2>2
  <2>5. \A x : x \in {order[n] : n \in 1..Len(order)} => x \in {order'[n] : n \in 1..Len(order)}
    BY <2>1
  <2> QED
    BY <2>3, <2>4, <2>5
<1> QED
  BY <1>1, <1>7, <1>8, <1>9, <1>10, CapacityPositive DEF LruInv, Capacity

\* A use of a chunk that is not: it comes first in both orders, and what goes
\* from the cache is what has not been used for longest.
LEMMA MissKeepsLru ==
  ASSUME TypeOK, LruInv, NEW a \in Addrs, ~Cached(a), NEW data, Put(a, data, Capacity),
         used' = First(a, used)
  PROVE  LruInv' /\ order' \in Seq(Addrs) /\ used' \in Seq(Addrs)
<1> DEFINE q == Place(a, used)
           size == Lesser(Len(order) + 1, Capacity)
           evicted == IF Len(order) >= Capacity THEN {order[Len(order)]} ELSE {}
<1>1. /\ order \in Seq(Addrs) /\ used \in Seq(Addrs)
      /\ Len(order) \in Nat /\ Len(used) \in Nat /\ Capacity \in Nat \ {0}
      /\ Len(order) <= Len(used) /\ Len(order) <= Capacity
      /\ Len(order) < Capacity => Len(order) = Len(used)
  BY CapacityPositive DEF TypeOK, LruInv, Lesser
<1>2. /\ order' = [n \in 1..size |-> IF n = 1 THEN a ELSE order[n - 1]]
      /\ DOMAIN cache' = (DOMAIN cache \ evicted) \cup {a}
  BY DEF Put
<1>3. /\ size \in Nat \ {0} /\ size <= Len(order) + 1 /\ size <= Capacity
      /\ Len(order) < Capacity => size = Len(order) + 1
      /\ Len(order) >= Capacity => size = Len(order)
  BY <1>1 DEF Lesser
<1> HIDE DEF size
<1>4. order' \in Seq(Addrs) /\ Len(order') = size
  <2>1. \A n \in 1..size : (IF n = 1 THEN a ELSE order[n - 1]) \in Addrs
    BY <1>1, <1>3
  <2>2. order' \in [1..size -> Addrs]
    BY <1>2, <2>1
  <2> QED
    BY <1>3, <2>2
<1>5. \A n \in 1..Len(order) : order[n] # a
  BY DEF LruInv, Cached
<1>6. q \in 1..(Len(used) + 1) /\ q > Len(order)
  <2>1. /\ q \in 1..(Len(used) + 1)
        /\ q <= Len(used) => used[q] = a
    BY <1>1, PlaceExists
  <2>2. ASSUME q <= Len(order) PROVE FALSE
    BY <1>1, <1>5, <2>1, <2>2 DEF LruInv
  <2> QED
    BY <1>1, <2>1, <2>2
<1>7. /\ used' \in Seq(Addrs) /\ Len(used') = Greater(Len(used), q) /\ Distinct(used')
      /\ \A n \in 1..Len(used') :
           used'[n] = IF n = 1 THEN a ELSE IF n <= q THEN used[n - 1] ELSE used[n]
  BY <1>1, FirstShape DEF LruInv
<1> HIDE DEF q
<1>8. Len(order') = Lesser(Len(used'), Capacity) /\ Len(order') <= Len(used')
  BY <1>1, <1>3, <1>4, <1>6, <1>7 DEF Lesser, Greater
<1>9. \A n \in 1..Len(order') : order'[n] = used'[n]
  <2> SUFFICES ASSUME NEW n \in 1..size
               PROVE  order'[n] = used'[n]
    BY <1>4
  <2>1. /\ n \in 1..Len(used') /\ n <= q
        /\ n # 1 => n - 1 \in 1..Len(order)
    BY <1>1, <1>3, <1>4, <1>6, <1>7, <1>8
  <2>2. n # 1 => order[n - 1] = used[n - 1]
    BY <2>1 DEF LruInv
  <2> QED
    BY <1>2, <1>7, <2>1, <2>2
<1>10. DOMAIN cache' = {order'[n] : n \in 1..Len(order')}
  <2> DEFINE old == {order[n] : n \in 1..Len(order)}
  <2>1. DOMAIN cache' = (old \ evicted) \cup {a}
    BY <1>2 DEF LruInv
  <2>2. \A n \in 1..size : n # 1 => n - 1 \in 1..Len(order) /\ order'[n] = order[n - 1]
    BY <1>1, <1>2, <1>3
  <2>3. 1 \in 1..size /\ order'[1] = a
    BY <1>2, <1>3
  <2>4. ASSUME NEW n \in 1..size, n # 1
        PROVE  order'[n] \in old \ evicted
    <3>1. n - 1 \in 1..Len(order) /\ order'[n] = order[n - 1]
      BY <2>2, <2>4
    <3>2. CASE Len(order) >= Capacity
      <4>1. /\ n - 1 # Len(order) /\ Len(order) \in 1..Len(order)
            /\ evicted = {order[Len(order)]}
        BY <1>1, <1>3, <3>1, <3>2
      <4>2. order[n - 1] # order[Len(order)]
        BY <1>1, <3>1, <4>1 DEF LruInv, Distinct
      <4> QED
        BY <3>1, <4>1, <4>2
    <3>3. CASE Len(order) < Capacity
      BY <1>1, <3>1, <3>3
    <3> QED
      BY <1>1, <3>2, <3>3
  <2>5. ASSUME NEW n \in 1..Len(order), order[n] \notin evicted
        PROVE  \E m \in 1..size : order'[m] = order[n]
    <3>1. n + 1 \in 1..size /\ n + 1 # 1 /\ (n + 1) - 1 = n
      BY <1>1, <1>3, <2>5
    <3>2. order'[n + 1] = order[n]
      BY <1>2, <3>1
    <3> QED
      BY <3>1, <3>2
  <2> HIDE DEF evicted
  <2> QED
    BY <1>4, <2>1, <2>3, <2>4, <2>5
<1> QED
  BY <1>4, <1>7, <1>8, <1>9, <1>10 DEF LruInv, Capacity

-------------------------------------------------------------------------------
\* Copying a run from its decoded chunk, as a hit and a miss both do, makes the
\* beginning of the slice longer by the run.
LEMMA CopyRight ==
  ASSUME TypeOK, PlaceInv, PrefixInv, InLoop, NEW run, run = Run(call.request, step),
         CopyRun(run, Decoded(run.addr)), UNCHANGED <<call, outcome>>
  PROVE  /\ run.addr \in Addrs
         /\ dst' \in [0..(call.len - 1) -> Byte]
         /\ pos' \in Nat
         /\ step' \in 0..(Len(Runs[call.request]) + 1)
         /\ PlaceInv'
         /\ PrefixInv'
<1> DEFINE r == call.request
           n == Len(Runs[r])
<1>1. /\ r \in Requests /\ call.len \in Nat /\ n \in Nat /\ step \in 1..n
      /\ outcome = "busy" /\ run = Runs[r][step] /\ run \in RunType /\ run.addr \in Addrs
      /\ dst \in [0..(call.len - 1) -> Byte]
      /\ step' = step + 1
  <2>1. /\ r \in Requests /\ call.len \in Nat /\ outcome = "busy" /\ step \in 1..n
        /\ run = Runs[r][step] /\ step' = step + 1
        /\ dst \in [0..(call.len - 1) -> Byte]
    BY ParameterAssumption DEF InLoop, TypeOK, Calls, Run, CopyRun
  <2>2. Runs[r] \in Seq(RunType)
    BY <2>1, RunsAssumption
  <2>3. run \in RunType
    BY <2>1, ScannedRun
  <2>4. n \in Nat
    BY <2>2
  <2>5. run.addr \in Addrs
    BY <2>3 DEF RunType
  <2> QED
    BY <2>1, <2>3, <2>4, <2>5
<1>2. /\ pos = Current(run) /\ Vsz(r) <= call.len /\ r \notin IllRanked
  BY <1>1 DEF PlaceInv, Run
<1>3. /\ Size(run) \in Nat /\ Current(run) \in Nat
      /\ Start(run) \in Nat /\ run.addr \in Int
      /\ Vsz(r) \in Nat
      /\ pos + Size(run) <= Vsz(r)
      /\ step < n => pos + Size(run) = Current(Runs[r][step + 1])
      /\ step = n => pos + Size(run) = Vsz(r)
  <2>1. /\ Current(run) \in Nat /\ Start(run) \in Nat
    BY <1>1, RunBytes
  <2>2. /\ Size(run) \in Nat
        /\ Current(run) + Size(run) <= Vsz(r)
        /\ step < n => Current(run) + Size(run) = Current(Runs[r][step + 1])
        /\ step = n => Current(run) + Size(run) = Vsz(r)
    BY <1>1, RunPlaces
  <2>3. Vsz(r) \in Nat
    BY <1>1, ParameterAssumption, Scaling DEF Vsz
  <2>4. run.addr \in Int
    <3>1. run.addr \in Addrs
      BY <1>1
    <3>2. Addrs \subseteq Int
      BY ParameterAssumption
    <3> QED
      BY <3>1, <3>2
  <2>5. pos = Current(run)
    BY <1>2
  <2> QED
    BY <2>1, <2>2, <2>3, <2>4, <2>5
<1>4. pos' = pos + Size(run) /\ pos' \in Nat
  BY <1>2, <1>3 DEF CopyRun
<1>5. \A k \in Window(run) :
        /\ Start(run) + (k - Current(run)) \in 0..(ChunkSz - 1)
        /\ Decoded(run.addr)[Start(run) + (k - Current(run))]
             = <<run.addr, Start(run) + (k - Current(run))>>
        /\ Slice[r][k + 1] = <<run.addr, Start(run) + (k - Current(run))>>
  <2>1. \A k \in Window(run) : Start(run) + (k - Current(run)) \in 0..(ChunkSz - 1)
    BY <1>1, RunBytes
  <2>2. \A i \in 0..(ChunkSz - 1) : Decoded(run.addr)[i] = <<run.addr, i>>
    BY <1>3, DecodedChunk
  <2>3. \A k \in Window(run) :
          Slice[r][k + 1] = <<run.addr, Start(run) + (k - Current(run))>>
    BY <1>1, JoinAssumption DEF Run
  <2> QED
    BY <2>1, <2>2, <2>3
<1>6. \A k \in 0..(call.len - 1) :
        dst'[k] = IF k \in Window(run)
                  THEN <<run.addr, Start(run) + (k - Current(run))>> ELSE dst[k]
  <2> SUFFICES ASSUME NEW k \in 0..(call.len - 1)
               PROVE  dst'[k] = IF k \in Window(run)
                                THEN <<run.addr, Start(run) + (k - Current(run))>> ELSE dst[k]
    OBVIOUS
  <2>1. dst'[k] = IF pos <= k /\ k < pos + Size(run)
                  THEN Decoded(run.addr)[Start(run) + (k - pos)] ELSE dst[k]
    BY <1>1 DEF CopyRun, Copied
  <2>2. (pos <= k /\ k < pos + Size(run)) <=> k \in Window(run)
    BY <1>1, <1>2, <1>3 DEF Window
  <2> QED
    BY <1>2, <1>5, <2>1, <2>2
<1>7. dst' \in [0..(call.len - 1) -> Byte]
  <2>1. DOMAIN dst' = 0..(call.len - 1) /\ dst' = [k \in 0..(call.len - 1) |-> dst'[k]]
    BY <1>1 DEF CopyRun, Copied
  <2>2. ASSUME NEW k \in 0..(call.len - 1) PROVE dst'[k] \in Byte
    <3>1. CASE k \in Window(run)
      <4>1. Start(run) + (k - Current(run)) \in Nat
        BY <1>5, <3>1
      <4>2. dst'[k] = <<run.addr, Start(run) + (k - Current(run))>>
        BY <1>6, <3>1
      <4> QED
        BY <1>1, <4>1, <4>2 DEF Byte
    <3>2. CASE k \notin Window(run)
      BY <1>1, <1>6, <3>2
    <3> QED
      BY <3>1, <3>2
  <2> QED
    BY <2>1, <2>2
<1>8. PlaceInv'
  <2>1. step' \in 2..(n + 1) /\ outcome' = "busy" /\ call' = call
    BY <1>1
  <2>2. step' \in 1..n => pos' = Current(Run(r, step'))
    BY <1>1, <1>3, <1>4 DEF Run
  <2>3. step' = n + 1 => pos' = Vsz(r)
    BY <1>1, <1>3, <1>4
  <2> QED
    BY <1>1, <1>2, <2>1, <2>2, <2>3 DEF PlaceInv
<1>9. PrefixInv'
  <2>1. ASSUME NEW k \in 0..(pos' - 1)
        PROVE  k \in DOMAIN dst' /\ dst'[k] = Slice[r][k + 1]
    <3>1. k \in 0..(call.len - 1)
      <4>1. call.len \in Int /\ pos' <= call.len
        BY <1>1, <1>2, <1>3, <1>4
      <4> QED
        BY <1>4, <4>1
    <3>2. CASE k \in Window(run)
      BY <1>5, <1>6, <1>7, <3>1, <3>2
    <3>3. CASE k \notin Window(run)
      <4>1. k \in 0..(pos - 1)
        BY <1>2, <1>3, <1>4, <3>3 DEF Window
      <4>2. dst'[k] = dst[k]
        BY <1>6, <3>1, <3>3
      <4>3. dst[k] = Slice[r][k + 1]
        BY <1>1, <4>1 DEF PrefixInv
      <4> QED
        BY <1>7, <3>1, <4>2, <4>3
    <3> QED
      BY <3>2, <3>3
  <2>2. ASSUME NEW k \in DOMAIN dst', k >= pos'
        PROVE  dst'[k] = Untouched
    <3>1. k \in 0..(call.len - 1) /\ k \in DOMAIN dst
      BY <1>1, <1>7, <2>2
    <3>2. k >= pos /\ k \notin Window(run)
      <4> DEFINE z == Size(run)
      <4>1. z \in Nat /\ pos \in Nat /\ k \in Int /\ k >= pos + z
        BY <1>1, <1>2, <1>3, <1>4, <2>2, <3>1
      <4>2. Window(run) = pos..(pos + z - 1)
        BY <1>2, <1>3 DEF Window
      <4> HIDE DEF z
      <4> QED
        BY <4>1, <4>2
    <3> QED
      BY <1>1, <1>6, <3>1, <3>2 DEF PrefixInv
  <2> QED
    BY <2>1, <2>2 DEF PrefixInv
<1> QED
  BY <1>1, <1>4, <1>7, <1>8, <1>9

\* When the loop has ended, the slice is in the buffer and nothing else is.
LEMMA LoopEnded ==
  ASSUME TypeOK, PlaceInv, PrefixInv, outcome = "busy",
         step = Len(Runs[call.request]) + 1, Within(call.request)
  PROVE  HasSlice(dst, call.request) /\ RestUntouched(dst, call.request)
<1> DEFINE r == call.request
<1>1. /\ r \in Requests /\ step \in 1..(Len(Runs[r]) + 1) /\ step > 0
      /\ DOMAIN dst = 0..(call.len - 1)
  <2>1. r \in Requests /\ DOMAIN dst = 0..(call.len - 1)
    BY DEF TypeOK, Calls
  <2>2. Len(Runs[r]) \in Nat
    BY <2>1, RunsAssumption
  <2> QED
    BY <2>1, <2>2
<1>2. pos = (IF step = 1 THEN 0 ELSE Vsz(r))
  BY <1>1 DEF PlaceInv
<1>3. step = 1 => Vsz(r) = 0
  <2>1. ASSUME step = 1
        PROVE  Counts[r] = 0
    <3>1. Len(Runs[r]) = 0
      BY <1>1, <2>1
    <3>2. Runs[r] = << >>
      BY <1>1, <3>1, RunsAssumption
    <3> QED
      BY <3>2 DEF Within
  <2>2. 0 * Dsz = 0
    BY ParameterAssumption
  <2> QED
    BY <2>1, <2>2 DEF Vsz
<1>4. pos = Vsz(r)
  BY <1>2, <1>3
<1> QED
  BY <1>1, <1>4 DEF PrefixInv, HasSlice, RestUntouched

\* Using a chunk from the cache, which is as good as the file.
LEMMA HitPreserves ==
  ASSUME IInv, Hit
  PROVE  IInv'
<1> DEFINE run == Run(call.request, step)
<1>1. /\ InLoop /\ Cached(run.addr) /\ CopyRun(run, cache[run.addr]) /\ Promote(run.addr)
      /\ used' = First(run.addr, used)
      /\ UNCHANGED <<call, outcome, returned>>
  BY DEF Hit
<1>2. cache[run.addr] = Decoded(run.addr)
  BY <1>1 DEF IInv, CacheCoherent, Cached
<1> HIDE DEF run
<1>3. /\ run.addr \in Addrs
      /\ dst' \in [0..(call.len - 1) -> Byte]
      /\ pos' \in Nat
      /\ step' \in 0..(Len(Runs[call.request]) + 1)
      /\ PlaceInv' /\ PrefixInv'
  BY <1>1, <1>2, CopyRight DEF IInv, run
<1>4. LruInv' /\ order' \in Seq(Addrs) /\ used' \in Seq(Addrs)
  BY <1>1, <1>3, HitKeepsLru DEF IInv
<1>5. cache' = cache
  BY <1>1 DEF Promote
<1>6. TypeOK'
  BY <1>1, <1>3, <1>4, <1>5 DEF IInv, TypeOK
<1>7. CacheCoherent'
  BY <1>5 DEF IInv, CacheCoherent
<1>8. OkMeansSlice'
  BY <1>1 DEF InLoop, OkMeansSlice
<1> QED
  BY <1>3, <1>4, <1>6, <1>7, <1>8 DEF IInv

\* Using a chunk from the file, which then is in the cache as it should be.
LEMMA MissPreserves ==
  ASSUME IInv, Miss
  PROVE  IInv'
<1> DEFINE run == Run(call.request, step)
<1>1. /\ InLoop /\ ~Cached(run.addr) /\ CopyRun(run, Decoded(run.addr))
      /\ Put(run.addr, Decoded(run.addr), Capacity)
      /\ used' = First(run.addr, used)
      /\ UNCHANGED <<call, outcome, returned>>
  BY DEF Miss
<1> HIDE DEF run
<1>2. /\ run.addr \in Addrs
      /\ dst' \in [0..(call.len - 1) -> Byte]
      /\ pos' \in Nat
      /\ step' \in 0..(Len(Runs[call.request]) + 1)
      /\ PlaceInv' /\ PrefixInv'
  BY <1>1, CopyRight DEF IInv, run
<1>3. LruInv' /\ order' \in Seq(Addrs) /\ used' \in Seq(Addrs)
  BY <1>1, <1>2, MissKeepsLru DEF IInv
<1>4. /\ DOMAIN cache' \subseteq DOMAIN cache \cup {run.addr}
      /\ \A a \in DOMAIN cache' :
           cache'[a] = IF a = run.addr THEN Decoded(run.addr) ELSE cache[a]
  BY <1>1 DEF Put
<1>5. CacheCoherent'
  BY <1>4 DEF IInv, CacheCoherent, Decoded, ChunkSz
<1>6. \A a \in DOMAIN cache' : cache'[a] \in [0..(ChunkSz - 1) -> Addrs \X Nat]
  <2>1. \A a \in Addrs : Decoded(a) \in [0..(ChunkSz - 1) -> Addrs \X Nat]
    BY DEF Decoded
  <2> QED
    BY <1>2, <1>4, <2>1 DEF IInv, TypeOK
<1>7. TypeOK'
  BY <1>1, <1>2, <1>3, <1>4, <1>6 DEF IInv, TypeOK
<1>8. OkMeansSlice'
  BY <1>1 DEF InLoop, OkMeansSlice
<1> QED
  BY <1>2, <1>3, <1>5, <1>7, <1>8 DEF IInv

\* A step that leaves the cache alone leaves it right.
LEMMA CacheKept ==
  ASSUME CacheCoherent, LruInv, UNCHANGED <<cache, order, used>>
  PROVE  CacheCoherent' /\ LruInv'
<1>1. CacheCoherent'
  BY DEF CacheCoherent, Decoded
<1>2. LruInv'
  <2>1. Distinct(used)'
    BY DEF LruInv, Distinct
  <2>2. (Len(order) = Lesser(Len(used), Capacity))'
    BY DEF LruInv, Capacity
  <2>3. (\A n \in 1..Len(order) : order[n] = used[n])'
    BY DEF LruInv
  <2>4. (DOMAIN cache = {order[n] : n \in 1..Len(order)})'
    BY DEF LruInv
  <2> QED
    BY <2>1, <2>2, <2>3, <2>4 DEF LruInv
<1> QED
  BY <1>1, <1>2

\* The result of a call, right when it is returned, stays as it is.
LEMMA FinishPreserves ==
  ASSUME IInv, Finish
  PROVE  IInv'
<1>1. /\ outcome = "busy" /\ step = Len(Runs[call.request]) + 1
      /\ outcome' = "ok" /\ returned' = Vsz(call.request)
      /\ UNCHANGED <<call, dst, pos, step, cache, order, used>>
  BY DEF Finish, lru
<1>2. TypeOK'
  <2>1. Vsz(call.request) \in Nat
    BY Scaling, ParameterAssumption DEF IInv, TypeOK, Calls, Vsz
  <2> QED
    BY <1>1, <2>1 DEF IInv, TypeOK
<1>3. OkMeansSlice'
  BY <1>1, LoopEnded DEF IInv, OkMeansSlice, HasSlice, RestUntouched, Vsz, Within
<1>4. CacheCoherent' /\ LruInv'
  BY <1>1, CacheKept DEF IInv
<1> QED
  BY <1>1, <1>2, <1>3, <1>4 DEF IInv, PlaceInv, PrefixInv

\* A call begins: nothing is written, and the cache is what earlier calls left.
LEMMA CallPreserves ==
  ASSUME IInv, CallAgain
  PROVE  IInv'
<1>1. /\ call' \in Calls /\ outcome' = "busy" /\ returned' = 0
      /\ dst' = Fresh(call'.len) /\ pos' = 0 /\ step' = 0
      /\ UNCHANGED <<cache, order, used>>
  BY DEF CallAgain, lru
<1>2. call'.request \in Requests /\ Len(Runs[call'.request]) \in Nat
  BY <1>1, RunsAssumption DEF Calls
<1>3. TypeOK'
  <2>1. dst' \in [0..(call'.len - 1) -> Byte]
    BY <1>1 DEF Fresh, Byte
  <2> QED
    BY <1>1, <1>2, <2>1 DEF IInv, TypeOK
<1>4. PlaceInv'
  BY <1>1, <1>2 DEF PlaceInv
<1>5. PrefixInv'
  BY <1>1 DEF PrefixInv, Fresh
<1>6. CacheCoherent' /\ LruInv'
  BY <1>1, CacheKept DEF IInv
<1> QED
  BY <1>1, <1>3, <1>4, <1>5, <1>6 DEF IInv, OkMeansSlice

\* Failing, at the beginning or half way, leaves the cache as it is; accepting a
\* call leads to the first run.
LEMMA OthersPreserve ==
  ASSUME IInv, Refuse \/ Accept \/ MissFails \/ UNCHANGED vars
  PROVE  IInv'
<1>1. CASE Refuse \/ MissFails
  <2>1. outcome' = "err" /\ UNCHANGED <<call, returned, dst, pos, step, cache, order, used>>
    BY <1>1 DEF Refuse, MissFails, lru
  <2>2. TypeOK' /\ CacheCoherent' /\ LruInv'
    BY <2>1, CacheKept DEF IInv, TypeOK
  <2> QED
    BY <2>1, <2>2 DEF IInv, PlaceInv, PrefixInv, OkMeansSlice
<1>2. CASE Accept
  <2>1. /\ outcome = "busy" /\ step = 0 /\ step' = 1 /\ pos = 0
        /\ call.request \notin IllRanked /\ call.len >= Vsz(call.request)
        /\ call.request \in Requests
        /\ UNCHANGED <<call, outcome, returned, dst, pos, cache, order, used>>
    BY <1>2 DEF Accept, lru, IInv, PlaceInv, TypeOK, Calls
  <2>2. Len(Runs[call.request]) \in Nat
    BY <2>1, RunsAssumption
  <2>3. TypeOK' /\ CacheCoherent' /\ LruInv'
    BY <2>1, <2>2, CacheKept DEF IInv, TypeOK
  <2>4. 1 \in 1..Len(Runs[call.request]) => Current(Run(call.request, 1)) = 0
    BY <2>1, RunPlaces DEF Run
  <2>5. PlaceInv'
    BY <2>1, <2>2, <2>4 DEF PlaceInv
  <2> QED
    BY <2>1, <2>3, <2>5 DEF IInv, PrefixInv, OkMeansSlice
<1>3. CASE UNCHANGED vars
  <2>1. UNCHANGED <<call, outcome, returned, dst, pos, step, cache, order, used>>
    BY <1>3 DEF vars, lru
  <2>2. TypeOK' /\ CacheCoherent' /\ LruInv'
    BY <2>1, CacheKept DEF IInv, TypeOK
  <2>3. PlaceInv' /\ PrefixInv'
    BY <2>1 DEF IInv, PlaceInv, PrefixInv
  <2>4. OkMeansSlice'
    BY <2>1 DEF IInv, OkMeansSlice, HasSlice, RestUntouched
  <2> QED
    BY <2>2, <2>3, <2>4 DEF IInv
<1> QED
  BY <1>1, <1>2, <1>3

\* At the first call nothing is written and nothing is cached.
LEMMA InitIInv == Init => IInv
<1> SUFFICES ASSUME Init PROVE IInv
  OBVIOUS
<1>1. /\ call \in Calls /\ outcome = "busy" /\ returned = 0 /\ dst = Fresh(call.len)
      /\ pos = 0 /\ step = 0 /\ cache = [a \in {} |-> << >>]
      /\ order = << >> /\ used = << >>
  BY DEF Init, Empty
<1>2. call.request \in Requests /\ Len(Runs[call.request]) \in Nat
  BY <1>1, RunsAssumption DEF Calls
<1>3. TypeOK
  <2>1. dst \in [0..(call.len - 1) -> Byte]
    BY <1>1 DEF Fresh, Byte
  <2>2. DOMAIN cache = {}
    BY <1>1
  <2> QED
    BY <1>1, <1>2, <2>1, <2>2 DEF TypeOK
<1>4. PlaceInv
  BY <1>1, <1>2 DEF PlaceInv
<1>5. PrefixInv
  BY <1>1 DEF PrefixInv, Fresh
<1>6. LruInv
  <2>1. Len(order) = 0 /\ Len(used) = 0 /\ DOMAIN cache = {}
    BY <1>1
  <2> QED
    BY <2>1, CapacityPositive DEF LruInv, Distinct, Lesser
<1> QED
  BY <1>1, <1>3, <1>4, <1>5, <1>6 DEF IInv, CacheCoherent, OkMeansSlice

\* The invariant of all that follows, for every run of the reader.
THEOREM Invariance == Spec => []IInv
<1>1. IInv /\ [Next]_vars => IInv'
  BY HitPreserves, MissPreserves, FinishPreserves, CallPreserves, OthersPreserve
     DEF Next, ReadStep
<1> QED
  BY <1>1, InitIInv, PTL DEF Spec

-------------------------------------------------------------------------------
\* The state keeps its type: the loop of read_to (cache.rs:58-89) never takes a
\* run that is not there, whatever fails on the way.
THEOREM TypeCorrect == Spec => []TypeOK
BY Invariance, PTL DEF IInv

\* What is cached of a chunk is the chunk, after any sequence of calls, of which
\* any may have failed half way (cache.rs:66-86).
THEOREM CacheStaysCoherent == Spec => []CacheCoherent
BY Invariance, PTL DEF IInv

\* A successful call within the dataset has filled the buffer with the slice
\* and left the rest alone (cache.rs:47-92).
THEOREM CachedReadIsRight == Spec => []OkMeansSlice
BY Invariance, PTL DEF IInv

\* In the loop the buffer is the slice up to where the next run goes, and
\* untouched behind it: the slice is written without a gap and never twice.
THEOREM BufferIsPrefix == Spec => []WrittenIsPrefix
<1>1. IInv => WrittenIsPrefix
  <2> SUFFICES ASSUME IInv, outcome = "busy", step > 0
               PROVE  /\ \A k \in 0..(pos - 1) : dst[k] = Slice[call.request][k + 1]
                      /\ \A k \in DOMAIN dst : k >= pos => dst[k] = Untouched
                      /\ InLoop => pos = Current(Run(call.request, step))
    BY DEF WrittenIsPrefix
  <2> QED
    BY DEF IInv, PrefixInv, PlaceInv, InLoop
<1> QED
  BY <1>1, Invariance, PTL

\* The cache holds the chunks used most recently, as many as it has room for,
\* for every capacity: none of them is read from the file again.
THEOREM CacheKeepsMostRecent == Spec => []KeepsMostRecent
<1>1. IInv => KeepsMostRecent
  BY DEF IInv, LruInv, KeepsMostRecent
<1> QED
  BY <1>1, Invariance, PTL

\* The caching reader keeps the promise of Reader: whatever it does with its
\* cache, a call fails, or takes effect when it returns.
THEOREM CachedReadRefinesReader == Spec => KeepsPromise
<1>1. Init => Promise!Init
  BY DEF Init, Empty, Promise!Init, Calls, Promise!Calls, Promise!NoBuffer
<1>2. IInv /\ [Next]_vars => [Promise!Next]_(Promise!vars)
  <2> SUFFICES ASSUME IInv, [Next]_vars
               PROVE  [Promise!Next]_(Promise!vars)
    OBVIOUS
  <2>1. CASE Finish
    <3> DEFINE r == call.request
               after == IF outcome' = "ok" THEN dst' ELSE << >>
    <3>1. /\ outcome = "busy" /\ outcome' = "ok" /\ returned' = Vsz(r)
          /\ step = Len(Runs[r]) + 1 /\ UNCHANGED <<call, dst>> /\ after = dst
      BY <2>1 DEF Finish
    <3>2. /\ r \in Requests /\ Len(Runs[r]) \in Nat /\ step > 0
          /\ dst \in [0..(call.len - 1) -> Byte]
      <4>1. r \in Requests /\ dst \in [0..(call.len - 1) -> Byte]
        BY DEF IInv, TypeOK, Calls
      <4>2. Len(Runs[r]) \in Nat
        BY <4>1, RunsAssumption
      <4> QED
        BY <3>1, <4>1, <4>2
    <3>3. r \notin IllRanked /\ call.len >= Vsz(r)
      BY <3>1, <3>2 DEF IInv, PlaceInv
    <3>4. ASSUME Within(r)
          PROVE  dst = [k \in 0..(call.len - 1) |->
                          IF k < Vsz(r) THEN Slice[r][k + 1] ELSE Untouched]
      <4>1. HasSlice(dst, r) /\ RestUntouched(dst, r)
        BY <3>1, <3>4, LoopEnded DEF IInv
      <4>2. call.len \in Nat /\ Vsz(r) \in Nat
        BY <3>2, Scaling, ParameterAssumption DEF IInv, TypeOK, Calls, Vsz
      <4>3. \A k \in 0..(call.len - 1) :
              dst[k] = IF k < Vsz(r) THEN Slice[r][k + 1] ELSE Untouched
        BY <3>2, <4>1, <4>2 DEF HasSlice, RestUntouched
      <4> QED
        BY <3>2, <4>3
    \* Reader's definitions of what both modules share
    <3>5. /\ Promise!Vsz(r) = Vsz(r) /\ Promise!Within(r) = Within(r)
          /\ Promise!Untouched = Untouched /\ Promise!Byte = Byte
      BY DEF Promise!Vsz, Vsz, Promise!Within, Within, Promise!Untouched, Untouched,
             Promise!Byte, Byte
    <3>6. IF Within(r) THEN after = [k \in 0..(call.len - 1) |->
                                       IF k < Vsz(r) THEN Slice[r][k + 1] ELSE Untouched]
          ELSE after \in [0..(call.len - 1) -> Byte]
      BY <3>1, <3>2, <3>4
    <3>7. Promise!Succeed
      BY <3>1, <3>3, <3>5, <3>6 DEF Promise!Succeed
    <3> QED
      BY <3>7 DEF Promise!Next
  <2>2. CASE Refuse \/ MissFails
    BY <2>2 DEF Refuse, MissFails, InLoop, Promise!Next, Promise!Fail
  <2>3. CASE CallAgain
    BY <2>3 DEF CallAgain, Calls, Promise!Next, Promise!CallAgain, Promise!Calls,
                Promise!NoBuffer
  <2>4. CASE Accept \/ Hit \/ Miss
    <3>1. outcome = "busy" /\ UNCHANGED <<call, outcome, returned>>
      BY <2>4 DEF Accept, Hit, Miss, InLoop
    <3> QED
      BY <3>1 DEF Promise!vars
  <2>5. CASE UNCHANGED vars
    BY <2>5 DEF vars, Promise!vars
  <2> QED
    BY <2>1, <2>2, <2>3, <2>4, <2>5 DEF Next, ReadStep
<1> QED
  BY <1>1, <1>2, Invariance, PTL DEF Spec, KeepsPromise, Promise!Spec

-------------------------------------------------------------------------------
(***************************************************************************)
(* Reading values of a type: the functions that do call the reader in ways *)
(* that it allows, and touch nothing of it.                                *)
(***************************************************************************)
\* Seen from the reader, values_to, values and values_dyn_par are callers, and the
\* conversion of what was read is no step of it (dataset.rs:46-86, 139-167).
THEOREM TypedReadsAreReads == SpecTyped => Spec
<1>1. InitTyped => Init
  BY DEF InitTyped
<1>2. [NextTyped]_<<vars, typedVars>> => [Next]_vars
  BY DEF NextTyped, Read, Convert, CallTyped, Next
<1> QED
  BY <1>1, <1>2, PTL DEF SpecTyped, Spec

\* So every buffer that is converted is one of which the promise of Reader has
\* been kept (dataset.rs:54, 82).
THEOREM TypedReadsKeepPromise == SpecTyped => KeepsPromise
BY TypedReadsAreReads, CachedReadRefinesReader

\* And the cache, which outlives the conversions, holds chunks as they are stored:
\* the buffer is converted, never what is cached (dataset.rs:55).
THEOREM TypedReadsKeepCacheCoherent == SpecTyped => []CacheCoherent
BY TypedReadsAreReads, CacheStaysCoherent

-------------------------------------------------------------------------------
\* How long the buffer is, and what is in it when a call has succeeded, within the
\* dataset or not.
OkInv ==
  outcome = "ok" =>
    /\ call.len >= Vsz(call.request)
    /\ returned = Vsz(call.request)
    /\ RestUntouched(dst, call.request)

TypedInv ==
  /\ IInv
  /\ world \in [order : Orders, machine : Machines]
  /\ asked \in [how : Hows, T : Types]
  /\ Leads(asked, call)
  /\ OkInv
  /\ values # NoValues =>
       /\ outcome = "ok"
       /\ values = [bytes |-> ToNative(Filled, asked.T.kind, asked.T.size,
                                      world.order, world.machine)]

\* A typed call begins before anything was read;
LEMMA TypedInvInit == InitTyped => TypedInv
<1> SUFFICES ASSUME InitTyped PROVE TypedInv
  OBVIOUS
<1>1. IInv /\ outcome = "busy"
  BY InitIInv DEF InitTyped, Init
<1> QED
  BY <1>1 DEF InitTyped, TypedInv, OkInv

\* its steps are those of the reader, and the conversion at the end.
LEMMA TypedInvNext == TypedInv /\ [NextTyped]_<<vars, typedVars>> => TypedInv'
<1> SUFFICES ASSUME TypedInv, [NextTyped]_<<vars, typedVars>> PROVE TypedInv'
  OBVIOUS
<1>1. IInv'
  <2>1. [Next]_vars
    BY DEF NextTyped, Read, Convert, CallTyped, Next
  <2> QED
    BY <2>1, HitPreserves, MissPreserves, FinishPreserves, CallPreserves, OthersPreserve
       DEF TypedInv, Next, ReadStep
<1>2. CASE Read
  <2>1. /\ outcome = "busy" /\ UNCHANGED <<call, world, asked, values>>
        /\ outcome' = "ok" => Finish
    BY <1>2 DEF Read, ReadStep, typedVars, Refuse, Accept, Hit, Miss, MissFails, Finish, InLoop
  <2>2. values' = NoValues
    BY <2>1 DEF TypedInv
  <2>3. ASSUME Finish
        PROVE  OkInv'
    <3> DEFINE r == call.request
    <3>1. /\ outcome = "busy" /\ step = Len(Runs[r]) + 1 /\ r \in Requests
          /\ returned' = Vsz(r) /\ UNCHANGED <<call, dst>>
          /\ Len(Runs[r]) \in Nat
      BY <2>3, RunsAssumption DEF Finish, TypedInv, IInv, TypeOK, Calls
    <3>2. /\ call.len >= Vsz(r) /\ pos \in {0, Vsz(r)}
          /\ \A k \in DOMAIN dst : k >= pos => dst[k] = Untouched
      BY <3>1 DEF TypedInv, IInv, PlaceInv, PrefixInv
    <3>3. Vsz(r) \in Nat /\ dst \in [0..(call.len - 1) -> Byte]
      BY <3>1, Scaling, ParameterAssumption DEF Vsz, TypedInv, IInv, TypeOK
    <3>4. RestUntouched(dst, r)
      BY <3>2, <3>3 DEF RestUntouched
    <3> QED
      BY <3>1, <3>2, <3>4 DEF OkInv, RestUntouched, Vsz
  <2>4. OkInv'
    BY <2>1, <2>3 DEF OkInv
  <2> QED
    BY <1>1, <2>1, <2>2, <2>4 DEF TypedInv, Leads, SizeFits, BufferLen
<1>3. CASE Convert
  <2>1. /\ outcome = "ok" /\ UNCHANGED <<call, outcome, returned, dst, world, asked>>
        /\ values' = [bytes |-> ToNative(Filled, asked.T.kind, asked.T.size,
                                        world.order, world.machine)]
    BY <1>3 DEF Convert, vars
  <2>2. Filled' = Filled
    BY <2>1 DEF Filled
  <2>3. OkInv'
    BY <2>1 DEF TypedInv, OkInv, RestUntouched, Vsz
  <2> QED
    BY <1>1, <2>1, <2>2, <2>3 DEF TypedInv, Leads, SizeFits, BufferLen
<1>4. CASE CallTyped
  BY <1>1, <1>4 DEF CallTyped, CallAgain, TypedInv, OkInv, Leads
<1>5. CASE UNCHANGED <<vars, typedVars>>
  <2>1. UNCHANGED <<call, outcome, returned, dst, world, asked, values>>
    BY <1>5 DEF vars, typedVars
  <2>2. Filled' = Filled /\ OkInv'
    BY <2>1 DEF TypedInv, Filled, OkInv, RestUntouched, Vsz
  <2> QED
    BY <1>1, <2>1, <2>2 DEF TypedInv, Leads, SizeFits, BufferLen
<1> QED
  BY <1>2, <1>3, <1>4, <1>5 DEF NextTyped

\* So TypedInv holds.
LEMMA TypedInvHolds == SpecTyped => []TypedInv
BY TypedInvInit, TypedInvNext, PTL DEF SpecTyped
\* Where a byte of the buffer comes from when t bytes at a time are turned round.
From(k, t) == (k \div t) * t + (t - 1 - (k % t))

\* t divides n, as a fact that can be carried along.
Divides(t, n) == n % t = 0

\* What is divided by t is a multiple of t.
LEMMA DividesParts ==
  ASSUME NEW n \in Nat, NEW t \in Nat \ {0}, Divides(t, n)
  PROVE  \E m \in Nat : n = m * t
<1>1. n \div t \in Nat /\ n = ((n \div t) * t) + (n % t)
  BY Arith!PartsOf
<1>2. n % t = 0
  BY DEF Divides
<1> DEFINE m == n \div t
<1>3. m \in Nat /\ m * t \in Int
  BY <1>1
<1>4. n = m * t
  BY <1>1, <1>2, <1>3
<1> QED
  BY <1>3, <1>4

\* What is turned round stays in the buffer.
LEMMA FromWithin ==
  ASSUME NEW n \in Nat, NEW t \in Nat \ {0}, Divides(t, n), NEW k \in 0..(n - 1)
  PROVE  From(k, t) \in 0..(n - 1)
<1>1. PICK m \in Nat : n = m * t
  BY DividesParts
<1> DEFINE q == k \div t
           c == t - 1 - (k % t)
<1>2. q \in 0..(m - 1) /\ k % t \in 0..(t - 1)
  <2>1. k \in Nat /\ k \in 0..(m * t - 1)
    BY <1>1
  <2> QED
    BY <2>1, Arith!PartOf, Arith!PartsOf
<1>3. c \in 0..(t - 1)
  BY <1>2
<1> HIDE DEF q, c
<1>4. q * t + c \in 0..(m * t - 1)
  BY <1>2, <1>3, Arith!PartBelow
<1> QED
  BY <1>1, <1>4 DEF From, q, c

\* The first bytes of all come from the end of the first turn, the last byte from
\* the beginning of the last one.
LEMMA FromEnds ==
  ASSUME NEW n \in Nat \ {0}, NEW t \in Nat \ {0}, Divides(t, n)
  PROVE  /\ From(0, t) = t - 1
         /\ t <= n
         /\ From(n - 1, t) = n - t
<1>1. PICK m \in Nat : n = m * t
  BY DividesParts
<1>2. From(0, t) = t - 1
  BY DEF From
<1>3. m - 1 \in Nat /\ n = ((m - 1) * t) + t
  BY <1>1
<1>4. (m - 1) * t \in Nat
  BY <1>3
<1>5. t <= n /\ n - 1 = ((m - 1) * t) + (t - 1) /\ n - t = (m - 1) * t
  BY <1>3, <1>4
<1>6. t - 1 \in 0..(t - 1) /\ m - 1 \in Int
  BY <1>3
<1>7. From(n - 1, t) = ((m - 1) * t) + (t - 1 - (t - 1))
  BY <1>5, <1>6, Arith!Mirrored DEF From
<1> QED
  BY <1>2, <1>4, <1>5, <1>7

\* What is known of a call that has been converted.
LEMMA TypedFacts ==
  ASSUME TypedInv
  PROVE  /\ call.request \in Requests /\ call.len \in Nat
         /\ world.order \in {"LE", "BE", "Unknown"} /\ world.machine \in {"LE", "BE"}
         /\ asked.T.size \in Nat \ {0}
         /\ Turn \in {1, asked.T.size} /\ GoodTurn \in {1, Dsz}
         /\ Turn \in Nat \ {0} /\ GoodTurn \in Nat \ {0}
         /\ Dsz \in Nat \ {0} /\ Vsz(call.request) \in Nat
         /\ Divides(Turn, call.len)
         /\ dst \in [0..(call.len - 1) -> Byte]
<1>1. /\ call.request \in Requests /\ call.len \in Nat
      /\ dst \in [0..(call.len - 1) -> Byte]
  BY ParameterAssumption DEF TypedInv, IInv, TypeOK, Calls
<1>2. /\ world.order \in {"LE", "BE", "Unknown"} /\ world.machine \in {"LE", "BE"}
      /\ asked.T.size \in Nat \ {0}
  BY TypesAssumption DEF TypedInv
<1>3. Dsz \in Nat \ {0} /\ Vsz(call.request) \in Nat
  BY <1>1, Scaling, ParameterAssumption DEF Vsz
<1>4. Turn \in {1, asked.T.size} /\ GoodTurn \in {1, Dsz}
  BY DEF Turn, GoodTurn, Turned, ToTurn
<1>5. Divides(Turn, call.len)
  <2>1. Divides(asked.T.size, call.len)
    BY DEF TypedInv, Leads, Divides
  <2>2. Divides(1, call.len)
    BY <1>1 DEF Divides
  <2> QED
    BY <1>4, <2>1, <2>2
<1> QED
  BY <1>1, <1>2, <1>3, <1>4, <1>5

\* The buffer that the caller has: every byte of what was read, and of what was
\* not, is where the turn brings it.
LEMMA ValuesAre ==
  ASSUME TypedInv, values # NoValues
  PROVE  /\ DOMAIN values.bytes = 0..(call.len - 1)
         /\ \A k \in 0..(call.len - 1) :
              /\ From(k, Turn) \in 0..(call.len - 1)
              /\ values.bytes[k] = Filled[From(k, Turn)]
<1> DEFINE native == ToNative(Filled, asked.T.kind, asked.T.size, world.order, world.machine)
<1>1. values.bytes = native
  BY DEF TypedInv
<1>2. /\ asked.T.size \in Nat \ {0} /\ Turn \in Nat \ {0} /\ call.len \in Nat
      /\ Divides(Turn, call.len)
      /\ DOMAIN Filled = 0..(call.len - 1)
  BY TypedFacts DEF Filled
<1>3. DOMAIN native = 0..(call.len - 1)
  BY <1>2 DEF ToNative, Swapped, Reversed
<1>4. ASSUME NEW k \in 0..(call.len - 1)
      PROVE  native[k] = Filled[From(k, Turn)]
  <2>1. CASE native = Reversed(Filled, asked.T.size) /\ Turn = asked.T.size
    BY <1>2, <2>1 DEF Reversed, From
  <2>2. CASE native = Filled /\ Turn = 1
    <3>1. From(k, 1) = k
      BY DEF From
    <3> QED
      BY <2>2, <3>1
  <2> QED
    BY <2>1, <2>2 DEF Turn, Turned, ToTurn, ToNative, Swapped
<1> QED
  BY <1>1, <1>2, <1>3, <1>4, FromWithin
\* A byte that was not read is no byte of the file.
LEMMA OwnOrRead ==
  ASSUME TypedInv, NEW k \in 0..(call.len - 1)
  PROVE  /\ Filled[k] = Own(k) \/ Filled[k] \in Addrs \X Nat
         /\ dst[k] = Untouched => Filled[k] = Own(k)
         /\ dst[k] # Untouched => Filled[k] = dst[k]
         /\ Own(k) \notin Addrs \X Nat
<1>1. dst \in [0..(call.len - 1) -> Byte] /\ dst[k] \in Byte
  BY TypedFacts
<1>2. Own(k) \notin Addrs \X Nat
  BY ParameterAssumption DEF Own
<1> QED
  BY <1>1, <1>2 DEF Filled, Byte

\* A function that returns Ok has given the caller the values of the slice, in
\* native order, exactly if the request is within the dataset and the bytes are
\* turned round as many at a time as a value has (dataset.rs:55, 71, 82, 162;
\* byteorder.rs:96).
THEOREM TypedValuesAreNative == SpecTyped => []ValuesAreNative
<1>1. TypedInv => ValuesAreNative
  <2> SUFFICES ASSUME TypedInv, values # NoValues, Vsz(call.request) > 0
               PROVE  HasValues <=> Within(call.request) /\ Turn = GoodTurn
    BY DEF ValuesAreNative
  <2> DEFINE r == call.request
             n == call.len
             good(b) == NativeFrom(b, Dsz, world.order, world.machine)
  <2>1. /\ r \in Requests /\ n \in Nat /\ Dsz \in Nat \ {0} /\ Vsz(r) \in Nat \ {0}
        /\ Turn \in Nat \ {0} /\ GoodTurn \in {1, Dsz} /\ Divides(Turn, n)
        /\ world.order \in {"LE", "BE", "Unknown"} /\ world.machine \in {"LE", "BE"}
    BY TypedFacts
  <2>2. outcome = "ok" /\ n >= Vsz(r)
    BY DEF TypedInv, OkInv
  <2>3. 0 \in 0..(Vsz(r) - 1)
    BY <2>1
  <2>4. HasValues => Within(r)
    BY <2>3 DEF HasValues
  <2> SUFFICES ASSUME Within(r) PROVE HasValues <=> Turn = GoodTurn
    BY <2>4
  <2>5. \A k \in 0..(Vsz(r) - 1) : dst[k] = Slice[r][k + 1]
    BY <2>2 DEF TypedInv, IInv, OkMeansSlice, HasSlice
  <2>6. PICK m \in Nat : Vsz(r) = m * Dsz
    BY <2>1, ParameterAssumption DEF Vsz
  <2>7. Dsz <= Vsz(r)
    <3>1. m # 0
      BY <2>1, <2>6
    <3>2. m - 1 \in Nat /\ m * Dsz = ((m - 1) * Dsz) + Dsz
      BY <2>1, <3>1
    <3>3. (m - 1) * Dsz \in Nat
      BY <2>1, <3>2
    <3> QED
      BY <2>1, <2>6, <3>2, <3>3
  \* the slice's bytes are in the buffer, and none of them is the caller's own
  <2>8. ASSUME NEW k \in 0..(Vsz(r) - 1)
        PROVE  k \in 0..(n - 1) /\ Filled[k] = Slice[r][k + 1] /\ Filled[k] \in Addrs \X Nat
    <3>1. Runs[r] # << >>
      BY <2>1 DEF Within, Vsz
    <3>2. PICK j \in 1..Len(Runs[r]) : k \in Window(Runs[r][j])
      BY <2>1, <3>1, WindowsCover
    <3>3. Runs[r][j] \in RunType
      BY <2>1, ScannedRun
    <3>4. Slice[r][k + 1] = <<Runs[r][j].addr,
                              Start(Runs[r][j]) + (k - Current(Runs[r][j]))>>
      BY <2>1, <3>2, JoinAssumption DEF Run
    <3>5. /\ Start(Runs[r][j]) + (k - Current(Runs[r][j])) \in 0..(ChunkSz - 1)
          /\ ChunkSz \in Nat
      BY <3>2, <3>3, RunBytes
    <3>6. Runs[r][j].addr \in Addrs
      BY <3>3 DEF RunType
    <3>7. Slice[r][k + 1] \in Addrs \X Nat
      BY <3>4, <3>5, <3>6
    <3>8. dst[k] = Slice[r][k + 1] /\ dst[k] # Untouched
      BY <2>5, <3>7, ParameterAssumption DEF Untouched
    <3>9. k \in 0..(n - 1)
      BY <2>1, <2>2
    <3> QED
      BY <3>7, <3>8, <3>9, OwnOrRead
  <2>9. good(0) = GoodTurn - 1 /\ GoodTurn - 1 \in 0..(Vsz(r) - 1)
    BY <2>1, <2>7 DEF NativeFrom, StoredAt, GoodTurn, ToTurn
  \* turned otherwise, the first byte is another one
  <2>10. HasValues => Turn = GoodTurn
    <3> SUFFICES ASSUME HasValues PROVE Turn = GoodTurn
      OBVIOUS
    <3>1. values.bytes[0] = Slice[r][1 + (0 \div Dsz) * Dsz + good(0 % Dsz)]
      BY <2>3 DEF HasValues
    <3>2. (0 \div Dsz) * Dsz = 0 /\ 0 % Dsz = 0
      BY <2>1
    <3>3. values.bytes[0] = Slice[r][GoodTurn]
      BY <2>1, <2>9, <3>1, <3>2
    <3>4. n \in Nat \ {0} /\ 0 \in 0..(n - 1)
      BY <2>1, <2>2
    <3>5. From(0, Turn) = Turn - 1 /\ Turn - 1 \in 0..(n - 1)
      BY <2>1, <3>4, FromEnds
    <3>6. values.bytes[0] = Filled[Turn - 1]
      BY <3>4, <3>5, ValuesAre
    <3>7. Filled[Turn - 1] \in Addrs \X Nat
      <4>1. (GoodTurn - 1) + 1 = GoodTurn
        BY <2>1
      <4>2. Filled[GoodTurn - 1] = Slice[r][(GoodTurn - 1) + 1]
            /\ Filled[GoodTurn - 1] \in Addrs \X Nat
        BY <2>8, <2>9
      <4> QED
        BY <3>3, <3>6, <4>1, <4>2
    <3>8. Turn - 1 \in 0..(Vsz(r) - 1)
      <4>1. dst[Turn - 1] # Untouched
        BY <3>5, <3>7, OwnOrRead
      <4> QED
        BY <2>1, <2>2, <3>5, <4>1, TypedFacts DEF TypedInv, OkInv, RestUntouched
    <3>9. Slice[r][Turn] = Slice[r][GoodTurn]
      BY <2>1, <2>8, <3>3, <3>6, <3>8
    <3>10. Turn \in 1..Vsz(r) /\ GoodTurn \in 1..Vsz(r)
      BY <2>1, <2>9, <3>8
    <3> QED
      BY <2>1, <3>9, <3>10, DistinctAssumption
  <2>11. Turn = GoodTurn => HasValues
    <3> SUFFICES ASSUME Turn = GoodTurn, NEW k \in 0..(Vsz(r) - 1)
                 PROVE  values.bytes[k] = Slice[r][1 + (k \div Dsz) * Dsz + good(k % Dsz)]
      BY DEF HasValues
    <3> DEFINE q == k \div Dsz
               b == k % Dsz
    <3>1. q \in 0..(m - 1) /\ b \in 0..(Dsz - 1) /\ k = q * Dsz + b /\ k \in Nat
      <4>1. k \in 0..(m * Dsz - 1) /\ k \in Nat
        BY <2>6
      <4> QED
        BY <2>1, <4>1, Arith!PartOf, Arith!PartsOf
    <3>2. From(k, Turn) = q * Dsz + good(b) /\ good(b) \in 0..(Dsz - 1)
      <4>1. CASE GoodTurn = 1
        <5>1. From(k, 1) = k
          BY <3>1 DEF From
        <5>2. good(b) = b
          BY <2>1, <3>1, <4>1 DEF NativeFrom, StoredAt, GoodTurn, ToTurn
        <5> QED
          BY <3>1, <4>1, <5>1, <5>2
      <4>2. CASE GoodTurn = Dsz /\ GoodTurn # 1
        <5>1. From(k, Dsz) = q * Dsz + (Dsz - 1 - b)
          BY DEF From
        <5>2. good(b) = Dsz - 1 - b
          BY <2>1, <3>1, <4>2 DEF NativeFrom, StoredAt, GoodTurn, ToTurn
        <5> QED
          BY <2>1, <3>1, <4>2, <5>1, <5>2
      <4> QED
        BY <2>1, <4>1, <4>2
    <3> HIDE DEF q, b
    <3> DEFINE p == q * Dsz + good(b)
    <3>3. p \in 0..(Vsz(r) - 1)
      BY <2>1, <2>6, <3>1, <3>2, Arith!PartBelow
    <3>4. values.bytes[k] = Filled[p] /\ Filled[p] = Slice[r][p + 1]
      BY <2>8, <3>2, <3>3, ValuesAre
    <3>5. p + 1 = 1 + q * Dsz + good(b)
      BY <2>1, <3>1, <3>2
    <3> QED
      BY <3>4, <3>5 DEF q, b
  <2> QED
    BY <2>10, <2>11
<1> QED
  BY <1>1, TypedInvHolds, PTL

\* What is in the caller's buffer behind the values of values_to is as it was,
\* exactly if nothing was turned round (dataset.rs:55).
THEOREM TypedRestIsTheCallers == SpecTyped => []RestIsTheCallers
<1>1. TypedInv => RestIsTheCallers
  <2> SUFFICES ASSUME TypedInv, values # NoValues, returned + Dsz <= call.len
               PROVE  (\A k \in DOMAIN values.bytes :
                         k >= returned => values.bytes[k] = Own(k)) <=> Turn = 1
    BY DEF RestIsTheCallers
  <2> DEFINE n == call.len
  <2>1. /\ n \in Nat /\ Dsz \in Nat \ {0} /\ Vsz(call.request) \in Nat
        /\ Turn \in Nat \ {0} /\ Divides(Turn, n)
        /\ dst \in [0..(n - 1) -> Byte]
    BY TypedFacts
  <2>2. returned = Vsz(call.request) /\ RestUntouched(dst, call.request)
    BY DEF TypedInv, OkInv
  <2>3. /\ DOMAIN values.bytes = 0..(n - 1)
        /\ \A k \in 0..(n - 1) :
             /\ From(k, Turn) \in 0..(n - 1)
             /\ values.bytes[k] = Filled[From(k, Turn)]
    BY ValuesAre
  <2>4. ASSUME Turn = 1, NEW k \in 0..(n - 1), k >= returned
        PROVE  values.bytes[k] = Own(k)
    <3>1. From(k, 1) = k
      BY DEF From
    <3>2. dst[k] = Untouched
      BY <2>1, <2>2, <2>4 DEF RestUntouched
    <3> QED
      BY <2>3, <2>4, <3>1, <3>2, OwnOrRead
  <2>5. ASSUME Turn # 1
        PROVE  \E k \in 0..(n - 1) : k >= returned /\ values.bytes[k] # Own(k)
    <3>1. n \in Nat \ {0} /\ n - 1 \in 0..(n - 1) /\ n - 1 >= returned
      BY <2>1, <2>2
    <3>2. From(n - 1, Turn) = n - Turn
      BY <2>1, <3>1, FromEnds
    <3>3. n - Turn \in 0..(n - 1) /\ n - Turn # n - 1
      BY <2>1, <2>3, <2>5, <3>1, <3>2
    <3>4. values.bytes[n - 1] = Filled[n - Turn]
      BY <2>3, <3>1, <3>2
    <3>5. Filled[n - Turn] # Own(n - 1)
      <4>1. Own(n - Turn) # Own(n - 1)
        BY <3>3 DEF Own
      <4>2. Filled[n - Turn] = Own(n - Turn) \/ Filled[n - Turn] \in Addrs \X Nat
        BY <3>3, OwnOrRead
      <4>3. Own(n - 1) \notin Addrs \X Nat
        BY <3>1, OwnOrRead
      <4> QED
        BY <4>1, <4>2, <4>3
    <3> QED
      BY <3>1, <3>4, <3>5
  <2> QED
    BY <2>3, <2>4, <2>5
<1> QED
  BY <1>1, TypedInvHolds, PTL
===============================================================================
