----------------------------------- MODULE Lru -----------------------------------
(***************************************************************************)
(* The least-recently-used cache of the lru crate, as the caching and the  *)
(* streaming reader use it: of decoded chunks, by the address of the       *)
(* chunk.  Only get() and put() of an entry that is not there are used.    *)
(***************************************************************************)
EXTENDS Integers, Sequences

VARIABLES
  cache,     \* the cached chunks, by address
  order      \* their addresses, the most recently used one first

lru == <<cache, order>>

Lesser(a, b)  == IF a < b THEN a ELSE b
Greater(a, b) == IF a < b THEN b ELSE a

\* LruCache::new
Empty ==
  /\ cache = [a \in {} |-> << >>]
  /\ order = << >>

Cached(a) == a \in DOMAIN cache

\* Where a is in s, which has no element twice; behind the end if it is not.
Place(a, s) ==
  CHOOSE p \in 1..(Len(s) + 1) :
    IF p <= Len(s) THEN s[p] = a ELSE \A n \in 1..Len(s) : s[n] # a

\* s with a moved, or added, to the front.
First(a, s) ==
  LET p == Place(a, s)
  IN [n \in 1..Greater(Len(s), p) |->
        IF n = 1 THEN a ELSE IF n <= p THEN s[n - 1] ELSE s[n]]

\* As a mutant: a look at the cache is not a use.
Peek(a) == UNCHANGED lru

\* get(): the entry becomes the most recent one.
Promote(a) ==
  /\ order' = First(a, order)
  /\ UNCHANGED cache

\* put(), of an entry that is not there, into a cache with room for so many:
\* when it is full the last one goes.
Put(a, data, room) ==
  LET evicted == IF Len(order) >= room THEN {order[Len(order)]} ELSE {}
  IN /\ cache' = [b \in (DOMAIN cache \ evicted) \cup {a} |->
                    IF b = a THEN data ELSE cache[b]]
     /\ order' = [n \in 1..Lesser(Len(order) + 1, room) |->
                    IF n = 1 THEN a ELSE order[n - 1]]
==================================================================================
