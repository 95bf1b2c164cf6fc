--------------------------------- MODULE Filters ---------------------------------
(***************************************************************************)
(* What the filters do to the bytes of a chunk (src/src/filters/shuffle.rs *)
(* and gzip.rs) and how they are undone (decode_chunk in                   *)
(* src/src/reader/chunk.rs).  A byte is a pair of what it is a byte of and *)
(* its place in it: of nothing else, for a byte of the values, or of the   *)
(* bytes that were deflated.  The bytes of deflated data are so told from  *)
(* all others, and say what they inflate to as long as they are in order.  *)
(***************************************************************************)
EXTENDS Integers, Sequences

\* The bytes of n values of size dsz each, as they were written.
Written(n, dsz) == [k \in 1..(n * dsz) |-> <<<<>>, k>>]

\* shuffle: first the first byte of each value, then the second, and so on.
Shuffled(src, wsz) ==
  LET sz == Len(src) \div wsz
  IN [k \in 1..Len(src) |-> src[((k - 1) % sz) * wsz + ((k - 1) \div sz) + 1]]

\* As a mutant: the way back is taken for the way there.
UnshuffledForward(src, N) == Shuffled(src, N)

\* unshuffle, unshuffle_structured: byte i of value j was at i * n + j.
Unshuffled(src, N) ==
  LET n == Len(src) \div N
  IN [k \in 1..Len(src) |-> src[((k - 1) % N) * n + ((k - 1) \div N) + 1]]

Deflated(src) == [k \in 1..Len(src) |-> <<src, k>>]

\* An error, or a panic: no bytes are returned.
Nothing == << >>

\* decompress: fails for anything that is not deflated data from end to end.
Inflated(src) ==
  IF src # Nothing /\ src[1][1] # << >> /\ src = Deflated(src[1][1])
  THEN src[1][1] ELSE Nothing

\* The sizes of values for which unshuffle_sized is implemented; it panics for
\* any other.
Sizes == {1, 2, 4, 8}

UnshuffledSized(src, sz) ==
  IF sz \notin Sizes \/ src = Nothing THEN Nothing ELSE Unshuffled(src, sz)

\* decode_chunk: inflate, then unshuffle, as the two flags say.
DecodeChunk(bytes, dsz, gzipped, shuffled) ==
  LET cache == IF gzipped THEN Inflated(bytes) ELSE bytes
  IN IF shuffled /\ dsz > 1 THEN UnshuffledSized(cache, dsz) ELSE cache

\* What is stored of the bytes after a pipeline of filters, the first one first.
Stored(filters, bytes, dsz) ==
  LET stored[n \in 0..Len(filters)] ==
        IF n = 0 THEN bytes
        ELSE IF filters[n] = "shuffle" THEN Shuffled(stored[n - 1], dsz)
        ELSE Deflated(stored[n - 1])
  IN stored[Len(filters)]
===============================================================================
