--------------------------- MODULE ChunkSlicerProofs ---------------------------
(***************************************************************************)
(* The slicer is right for every dataset, whatever its rank, and every     *)
(* supported request: its runs join to the slice, its two positions agree, *)
(* and it never panics.  For any request each call of next() advances.     *)
(***************************************************************************)
EXTENDS SlicerSupport, ArrayLemmas

-------------------------------------------------------------------------------
(***************************************************************************)
(* The inductive invariant.                                                *)
(***************************************************************************)
\* What chunk_slices makes of a request.
Proper(s) ==
  /\ LaidOut(s.ds)
  /\ s.indices \in Seq(Nat) /\ Len(s.indices) = Len(s.counts)
  /\ s.counts \in Seq(Nat) /\ Len(s.counts) = Len(s.ds.shape)
  /\ s.end = Product(s.counts)
  /\ s.end > 0 => \A d \in 1..Len(s.counts) :
                    s.counts[d] > 0 /\ s.indices[d] + s.counts[d] <= s.ds.shape[d]

\* The values of the slice that one step in dimension d passes over.
Stride(s, d) == SuffixProducts(s.counts)[d + 1]

\* The value of the dataset at x, counted from the start of the slice.
ValueAt(s, x) == [d \in 1..Len(s.counts) |-> s.indices[d] + x[d]]

\* Where a run of a supported slice begins: at the start in the dimensions inside of
\* the innermost that is covered only partly, and in this one at the start or with
\* a chunk.
StartsRun(s, x) ==
  LET p == Innermost(s)
  IN /\ \A e \in (p + 1)..Len(s.counts) : x[e] = 0
     /\ p > 0 => x[p] = 0 \/ (s.indices[p] + x[p]) % s.ds.chunk_shape[p] = 0

\* The first m values of the slice.
Prefix(m) == [k \in 1..m |-> Wanted[k]]

\* The coordinates at which the call of next() began.
Begin == Unravel(offset - advance, slice.counts)

\* What it has advanced over is consecutive in the chunk.
Consecutive ==
  /\ chunk_start + advance <= Product(slice.ds.chunk_shape)
  /\ \A k \in 0..(advance - 1) :
       Wanted[(offset - advance) + k + 1] = [addr |-> chunk.addr, at |-> chunk_start + k]

\* The coordinates, with what is yet to be carried over, name the next value.
Odometer ==
  /\ Fits(offset_coords, slice.counts)
  /\ carry \in Nat
  /\ Place(offset_coords, slice.counts) + carry * Stride(slice, Dim) = offset

\* The call goes from Begin on in the chunk that holds it.
InChunk ==
  /\ chunk = ChunkAtCoord(slice.ds, ValueAt(slice, Begin))
  /\ chunk_start = ChunkStart(ValueAt(slice, Begin), chunk.offset, slice.ds.chunk_dim_sz)
  /\ StartsRun(slice, Begin)

\* So far every dimension was passed, and came round to where it began;
Passing ==
  /\ offset_coords = Begin
  /\ \/ di = 0 /\ carry = 0 /\ advance = 0
     \/ di > 0 /\ Dim >= Innermost(slice) /\ carry = 1 /\ advance = Stride(slice, Dim)

\* or the chunk has one index only in the dimensions that are left, and the loop does
\* nothing but carry over.
Skipping ==
  /\ Dim < Innermost(slice)
  /\ advance > 0
  /\ \A e \in 1..Dim : ChunkSz(e) = 1 /\ slice.ds.chunk_dim_sz[e] # 1
  /\ Odometer
  /\ StartsRun(slice, offset_coords)

\* A call of next() of a supported slice, from when it has found its chunk.
Calling ==
  /\ Rank > 0
  /\ offset - advance \in 0..(slice.end - 1)
  /\ Consecutive
  /\ pc = "loop" => offset < slice.end /\ InChunk /\ (Passing \/ Skipping)
  /\ pc = "carry" =>
       /\ advance > 0 /\ Odometer
       /\ offset < slice.end => Dim < Innermost(slice) /\ StartsRun(slice, offset_coords)
  /\ pc = "return" =>
       /\ advance > 0 /\ Odometer /\ carry = 0
       /\ offset < slice.end => StartsRun(slice, offset_coords)

\* Between two calls the next run begins where StartsRun allows.
Between ==
  offset < slice.end => /\ offset_coords = Unravel(offset, slice.counts)
                        /\ StartsRun(slice, offset_coords)

\* The iterator over a supported slice.
SupportedInv ==
  /\ pc \in {"next", "loop", "carry", "return", "done"}
  /\ offset \in 0..slice.end /\ advance \in Nat /\ chunk_start \in Nat /\ di \in 0..Rank
  /\ emitted = Prefix(IF pc \in {"next", "done"} THEN offset ELSE offset - advance)
  /\ pc = "next" => Between
  /\ pc = "done" => offset = slice.end
  /\ pc \in {"loop", "carry", "return"} => Calling

\* Whatever the request, the slice stays what chunk_slices made of it.
SlicerInv == Proper(slice) /\ (Supported(slice) => SupportedInv)

-------------------------------------------------------------------------------
(***************************************************************************)
(* The slice, and the chunks it goes through.                              *)
(***************************************************************************)
\* A slice and its dataset have one rank.
LEMMA Ranks ==
  ASSUME NEW s, Proper(s)
  PROVE  LET n == Len(s.counts)
         IN /\ n \in Nat
            /\ Len(s.indices) = n /\ Len(s.ds.shape) = n /\ Len(s.ds.chunk_shape) = n
            /\ \A d \in 1..n : /\ s.indices[d] \in Nat /\ s.counts[d] \in Nat
                               /\ s.ds.shape[d] \in Nat /\ s.ds.chunk_shape[d] \in Nat \ {0}
            /\ s.counts \in Seq(Nat) /\ s.ds.shape \in Seq(Nat)
            /\ s.ds.chunk_shape \in Seq(Nat \ {0}) /\ s.ds.chunk_shape \in Seq(Nat)
            /\ s.ds.chunk_dim_sz = DimSizes(s.ds.chunk_shape)
<1> DEFINE n == Len(s.counts)
<1>1. /\ s.indices \in Seq(Nat) /\ s.counts \in Seq(Nat)
      /\ s.ds.shape \in Seq(Nat) /\ s.ds.chunk_shape \in Seq(Nat \ {0})
      /\ Len(s.indices) = n /\ Len(s.ds.shape) = n /\ Len(s.ds.chunk_shape) = n
  BY DEF Proper, LaidOut
<1>2. n \in Nat /\ \A d \in 1..n : s.counts[d] \in Nat
  BY SMTT(30), <1>1
<1>3. \A d \in 1..n : s.indices[d] \in Nat
  <2>1. \A d \in 1..Len(s.indices) : s.indices[d] \in Nat
    <3> DEFINE z == s.indices
    <3>1. z \in Seq(Nat)
      BY <1>1
    <3> HIDE DEF z
    <3>2. \A d \in 1..Len(z) : z[d] \in Nat
      BY <3>1
    <3> QED
      BY <3>2 DEF z
  <2> QED
    BY <1>1, <2>1
<1>4. \A d \in 1..n : s.ds.shape[d] \in Nat
  <2>1. \A d \in 1..Len(s.ds.shape) : s.ds.shape[d] \in Nat
    <3> DEFINE z == s.ds.shape
    <3>1. z \in Seq(Nat)
      BY <1>1
    <3> HIDE DEF z
    <3>2. \A d \in 1..Len(z) : z[d] \in Nat
      BY <3>1
    <3> QED
      BY <3>2 DEF z
  <2> QED
    BY <1>1, <2>1
<1>5. \A d \in 1..n : s.ds.chunk_shape[d] \in Nat \ {0}
  BY <1>1
<1>6. s.ds.chunk_shape \in Seq(Nat)
  BY <1>1
<1>7. s.ds.chunk_dim_sz = DimSizes(s.ds.chunk_shape)
  BY DEF Proper, LaidOut, New
<1> QED
  BY <1>1, <1>2, <1>3, <1>4, <1>5, <1>6, <1>7

\* The strides of the slice,
LEMMA Strides ==
  ASSUME NEW s, Proper(s), s.end > 0
  PROVE  LET n == Len(s.counts)
         IN /\ s.counts \in Seq(Nat \ {0}) /\ \A d \in 1..n : s.counts[d] \in Nat \ {0}
            /\ \A d \in 0..n : Stride(s, d) \in Nat \ {0}
            /\ Stride(s, n) = 1 /\ Stride(s, 0) = s.end /\ s.end \in Nat
            /\ \A d \in 1..n : Stride(s, d - 1) = s.counts[d] * Stride(s, d)
            /\ \A d \in 1..n : DimSizes(s.counts)[d] = Stride(s, d)
            /\ DimSizes(s.counts) \in Seq(Nat) /\ Len(DimSizes(s.counts)) = n
            /\ \A d, e \in 0..n : d <= e => Stride(s, e) <= Stride(s, d)
<1> DEFINE c == s.counts
           n == Len(c)
           p == SuffixProducts(c)
<1>1. n \in Nat /\ c \in Seq(Nat) /\ \A d \in 1..n : c[d] \in Nat /\ c[d] > 0
  BY Ranks DEF Proper
<1>2. c \in Seq(Nat \ {0})
  <2>1. c \in [1..n -> Nat \ {0}]
    <3> HIDE DEF n
    <3>1. c \in [1..n -> Nat]
      BY <1>1 DEF n
    <3> QED
      BY <1>1, <3>1
  <2> HIDE DEF c
  <2> QED
    BY <1>1, <2>1
<1>3. p \in [1..(n + 1) -> Nat \ {0}]
      /\ \A d, e \in 1..(n + 1) : d <= e => p[e] <= p[d]
  BY <1>2, ProductsGrow
<1>4. p[n + 1] = 1 /\ \A d \in 1..n : p[d] = c[d] * p[d + 1]
  BY <1>1, ProductsAre
<1>5. s.end = p[1]
  BY DEF Proper, Product
<1>6. \A d \in 0..n : Stride(s, d) = p[d + 1] /\ d + 1 \in 1..(n + 1)
  BY <1>1 DEF Stride
<1> HIDE DEF p
<1>7. \A d \in 0..n : Stride(s, d) \in Nat \ {0}
  BY <1>3, <1>6
<1>8. Stride(s, n) = 1 /\ Stride(s, 0) = s.end /\ s.end \in Nat
  BY <1>1, <1>4, <1>5, <1>6, <1>7
<1>9. \A d \in 1..n : Stride(s, d - 1) = c[d] * Stride(s, d)
  <2> TAKE d \in 1..n
  <2>1. d - 1 \in 0..n /\ d \in 0..n /\ (d - 1) + 1 = d
    BY <1>1
  <2>2. Stride(s, d - 1) = p[d] /\ Stride(s, d) = p[d + 1]
    BY <1>6, <2>1
  <2> QED
    BY <1>4, <2>2
<1>10. DimSizes(c) = [d \in 1..n |-> Stride(s, d)]
  BY DEF DimSizes, Stride, p
<1>11. DimSizes(c) \in Seq(Nat) /\ Len(DimSizes(c)) = n /\ \A d \in 1..n : DimSizes(c)[d] = Stride(s, d)
  <2>1. \A d \in 1..n : Stride(s, d) \in Nat
    BY <1>1, <1>7
  <2> HIDE DEF n
  <2> QED
    BY <1>1, <1>10, <2>1
<1>12. \A d, e \in 0..n : d <= e => Stride(s, e) <= Stride(s, d)
  <2> TAKE d, e \in 0..n
  <2> HAVE d <= e
  <2>1. d + 1 \in 1..(n + 1) /\ e + 1 \in 1..(n + 1) /\ d + 1 <= e + 1
    BY <1>1
  <2>2. p[e + 1] <= p[d + 1]
    BY <1>3, <2>1
  <2> QED
    BY <1>6, <2>2
<1>13. \A d \in 1..n : c[d] \in Nat \ {0}
  BY <1>1
<1> QED
  BY <1>2, <1>7, <1>8, <1>9, <1>11, <1>12, <1>13

\* and those of its chunks.
LEMMA ChunkStrides ==
  ASSUME NEW s, Proper(s)
  PROVE  LET n == Len(s.counts)
             v == s.ds.chunk_dim_sz
         IN /\ v \in Seq(Nat) /\ Len(v) = n
            /\ \A d \in 1..n : v[d] \in Nat \ {0}
            /\ \A d \in 1..n : v[d] = SuffixProducts(s.ds.chunk_shape)[d + 1]
            /\ n > 0 => v[n] = 1
            /\ \A d, e \in 1..n : d <= e => v[e] <= v[d]
<1> DEFINE c == s.ds.chunk_shape
           n == Len(s.counts)
           v == s.ds.chunk_dim_sz
           p == SuffixProducts(c)
<1>1. n \in Nat /\ Len(c) = n /\ c \in Seq(Nat \ {0}) /\ c \in Seq(Nat) /\ v = DimSizes(c)
  BY Ranks
<1>2. p \in [1..(n + 1) -> Nat \ {0}]
      /\ \A d, e \in 1..(n + 1) : d <= e => p[e] <= p[d]
  BY <1>1, ProductsGrow
<1>3. p[n + 1] = 1
  BY <1>1, ProductsAre
<1>4. v = [d \in 1..n |-> p[d + 1]]
  BY <1>1 DEF DimSizes
<1> HIDE DEF p, v, c, n
<1>5. \A d \in 1..n : d + 1 \in 1..(n + 1) /\ v[d] = p[d + 1] /\ v[d] \in Nat \ {0}
  BY <1>1, <1>2, <1>4
<1>6. v \in Seq(Nat) /\ Len(v) = n
  BY <1>1, <1>4, <1>5
<1>7. n > 0 => v[n] = 1
  BY <1>1, <1>3, <1>5
<1>8. \A d, e \in 1..n : d <= e => v[e] <= v[d]
  <2> TAKE d, e \in 1..n
  <2> HAVE d <= e
  <2>1. d + 1 \in 1..(n + 1) /\ e + 1 \in 1..(n + 1) /\ d + 1 <= e + 1
    BY <1>1
  <2>2. p[e + 1] <= p[d + 1]
    BY <1>2, <2>1
  <2> QED
    BY <1>5, <2>2
<1> QED
  BY <1>5, <1>6, <1>7, <1>8 DEF n, v, p, c

\* They are the same as far as what is within one index is consecutive in the chunk.
LEMMA FullStrides ==
  ASSUME NEW s, Proper(s), NEW d \in 1..Len(s.counts), Full(s, d)
  PROVE  \A e \in d..Len(s.counts) : Stride(s, e) = s.ds.chunk_dim_sz[e]
<1> DEFINE n == Len(s.counts)
           c == s.counts
           b == s.ds.chunk_shape
<1>1. /\ n \in Nat /\ Len(b) = n /\ Len(c) = n /\ b \in Seq(Nat) /\ c \in Seq(Nat)
  BY Ranks
<1>2. d + 1 \in 1..(n + 1) /\ d \in 1..n
  BY <1>1
<1>3. \A e \in (d + 1)..n : c[e] = b[e]
  BY DEF Full
<1>4. \A e \in (d + 1)..(n + 1) : SuffixProducts(c)[e] = SuffixProducts(b)[e]
  <2> HIDE DEF b, c
  <2> QED
    BY <1>1, <1>2, <1>3, SameProducts DEF n, c
<1>5. \A e \in 1..n : s.ds.chunk_dim_sz[e] = SuffixProducts(b)[e + 1]
  BY ChunkStrides
<1> SUFFICES ASSUME NEW e \in d..n PROVE Stride(s, e) = s.ds.chunk_dim_sz[e]
  OBVIOUS
<1>6. e \in 1..n /\ e + 1 \in (d + 1)..(n + 1)
  BY <1>1, <1>2
<1> QED
  BY <1>4, <1>5, <1>6 DEF Stride

\* A value of the slice is one of the dataset.
LEMMA WithinDataset ==
  ASSUME NEW s, Proper(s), s.end > 0, NEW x, Fits(x, s.counts)
  PROVE  LET n == Len(s.counts)
             v == ValueAt(s, x)
         IN /\ v \in Coordinates(s.ds.shape) /\ v \in Seq(Nat) /\ Len(v) = n
            /\ \A d \in 1..n : /\ v[d] = s.indices[d] + x[d] /\ v[d] \in Nat /\ x[d] \in Nat
                               /\ x[d] < s.counts[d] /\ v[d] < s.ds.shape[d]
<1> DEFINE n == Len(s.counts)
           v == ValueAt(s, x)
<1>1. /\ n \in Nat /\ Len(s.ds.shape) = n /\ s.ds.shape \in Seq(Nat)
      /\ \A d \in 1..n : s.indices[d] \in Nat /\ s.counts[d] \in Nat /\ s.ds.shape[d] \in Nat
  BY Ranks
<1>2. \A d \in 1..n : s.indices[d] + s.counts[d] <= s.ds.shape[d]
  BY DEF Proper
<1>3. \A d \in 1..n : x[d] \in Nat /\ x[d] < s.counts[d]
  BY DEF Fits
<1>4. v = [d \in 1..n |-> s.indices[d] + x[d]]
  BY DEF ValueAt
<1> HIDE DEF v
<1>5. \A d \in 1..n : v[d] = s.indices[d] + x[d] /\ v[d] \in Nat /\ v[d] < s.ds.shape[d]
  <2> TAKE d \in 1..n
  <2>1. v[d] = s.indices[d] + x[d]
    BY <1>4
  <2> DEFINE i == s.indices[d]
             k == s.counts[d]
             z == s.ds.shape[d]
  <2>2. /\ i \in Nat /\ k \in Nat /\ z \in Nat /\ x[d] \in Nat /\ x[d] < k /\ i + k <= z
    BY <1>1, <1>2, <1>3
  <2> HIDE DEF i, k, z
  <2>3. i + x[d] \in Nat /\ i + x[d] < z
    BY <2>2
  <2> QED
    BY <2>1, <2>3 DEF i, z
<1>6. v \in Seq(Nat) /\ Len(v) = n
  <2> HIDE DEF n
  <2> QED
    BY <1>1, <1>4, <1>5
<1>7. v \in Coordinates(s.ds.shape)
  <2>1. Fits(v, s.ds.shape)
    BY <1>1, <1>5, <1>6 DEF Fits
  <2> QED
    BY <1>1, <1>6, <2>1, CoordinatesAre
<1> QED
  BY <1>3, <1>5, <1>6, <1>7 DEF v

\* The chunk that chunk_at_coord finds holds the value, and begins at a multiple of the
\* chunk shape.
LEMMA Holder ==
  ASSUME NEW s, Proper(s), s.end > 0, NEW x, Fits(x, s.counts)
  PROVE  LET n == Len(s.counts)
             v == ValueAt(s, x)
             c == ChunkAtCoord(s.ds, v)
         IN /\ ChunkIndex(s.ds, v) \in 1..Len(s.ds.chunks)
            /\ Holds(c, v, s.ds.chunk_shape)
            /\ c.offset \in Seq(Nat) /\ Len(c.offset) = n
            /\ \A d \in 1..n : /\ c.offset[d] \in Nat
                               /\ c.offset[d] % s.ds.chunk_shape[d] = 0
                               /\ c.offset[d] <= v[d]
                               /\ v[d] < c.offset[d] + s.ds.chunk_shape[d]
                               /\ c.offset[d] = (v[d] \div s.ds.chunk_shape[d]) * s.ds.chunk_shape[d]
<1> DEFINE n == Len(s.counts)
           v == ValueAt(s, x)
           m == ChunkIndex(s.ds, v)
           c == ChunkAtCoord(s.ds, v)
           b == s.ds.chunk_shape
<1>1. /\ v \in Coordinates(s.ds.shape) /\ Len(v) = n /\ n \in Nat
      /\ \A d \in 1..n : v[d] \in Nat
  BY WithinDataset, Ranks
<1>2. /\ n \in Nat /\ Len(s.ds.shape) = n /\ \A d \in 1..n : b[d] \in Nat \ {0}
  BY Ranks
<1>3. m \in 1..Len(s.ds.chunks) /\ Holds(s.ds.chunks[m], v, b)
  <2> HIDE DEF v
  <2> QED
    BY <1>1 DEF Proper, LaidOut
<1>4. c = s.ds.chunks[m]
  BY DEF ChunkAtCoord
<1> HIDE DEF v, m, c
<1>5. /\ c.offset \in Seq(Nat) /\ Len(c.offset) = n
      /\ \A d \in 1..n : c.offset[d] % b[d] = 0
  BY <1>2, <1>3, <1>4 DEF Proper, LaidOut
<1>6. \A d \in 1..n : c.offset[d] <= v[d] /\ v[d] < c.offset[d] + b[d]
  BY <1>1, <1>3, <1>4 DEF Holds
<1>7. ASSUME NEW d \in 1..n
      PROVE  c.offset[d] \in Nat /\ c.offset[d] = (v[d] \div b[d]) * b[d]
  <2> DEFINE o == c.offset[d]
             z == b[d]
             y == v[d]
  <2>1. o \in Nat
    BY <1>5
  <2>2. z \in Nat \ {0} /\ y \in Nat /\ o % z = 0 /\ o <= y /\ y < o + z
    BY <1>1, <1>2, <1>5, <1>6
  <2> HIDE DEF o, z, y, n
  <2>3. o = (o \div z) * z + 0 /\ o \div z \in Nat
    BY <2>1, <2>2, PartsOf
  <2> DEFINE k == o \div z
  <2> HIDE DEF k
  <2>4. k \in Nat /\ o = k * z
    BY <2>1, <2>2, <2>3 DEF k
  <2>5. y \div z = k
    BY <2>2, <2>4, InPart
  <2> QED
    BY <2>1, <2>4, <2>5 DEF o, z, y
<1> QED
  BY <1>3, <1>4, <1>5, <1>6, <1>7 DEF c, v, m

\* A value in the box of that chunk is stored in it, at its place in the box.
LEMMA StoredIn ==
  ASSUME NEW s, Proper(s), s.end > 0, NEW x, Fits(x, s.counts), NEW y, Fits(y, s.counts),
         Holds(ChunkAtCoord(s.ds, ValueAt(s, x)), ValueAt(s, y), s.ds.chunk_shape)
  PROVE  LET c == ChunkAtCoord(s.ds, ValueAt(s, x))
         IN Location(s.ds, ValueAt(s, y)) =
              [addr |-> c.addr,
               at   |-> ChunkStart(ValueAt(s, y), c.offset, s.ds.chunk_dim_sz)]
<1> DEFINE v  == ValueAt(s, y)
           m  == ChunkIndex(s.ds, ValueAt(s, x))
           b  == s.ds.chunk_shape
           H  == CHOOSE n \in 1..Len(s.ds.chunks) : Holds(s.ds.chunks[n], v, b)
<1>1. v \in Coordinates(s.ds.shape)
  BY WithinDataset
<1>2. m \in 1..Len(s.ds.chunks)
  BY Holder
<1>3. Holds(s.ds.chunks[m], v, b)
  BY DEF ChunkAtCoord
<1> HIDE DEF v, m
<1>4. \A n \in 1..Len(s.ds.chunks) : Holds(s.ds.chunks[n], v, b) <=> n = ChunkIndex(s.ds, v)
  BY <1>1 DEF Proper, LaidOut
<1>5. H = m
  BY <1>2, <1>3, <1>4
<1>6. Location(s.ds, v) =
        [addr |-> s.ds.chunks[m].addr,
         at   |-> Dot([d \in 1..Len(v) |-> v[d] - s.ds.chunks[m].offset[d]], DimSizes(b))]
  <2> HIDE DEF H
  <2>1. Location(s.ds, v) =
          [addr |-> s.ds.chunks[H].addr,
           at   |-> Dot([d \in 1..Len(v) |-> v[d] - s.ds.chunks[H].offset[d]], DimSizes(b))]
    BY DEF Location, H
  <2> QED
    BY <1>5, <2>1
<1>7. s.ds.chunk_dim_sz = DimSizes(b)
  BY Ranks
<1> QED
  BY <1>6, <1>7 DEF v, m, ChunkAtCoord, ChunkStart

\* The coordinates of a place are numbers below the counts.
LEMMA Within ==
  ASSUME NEW a, NEW b, Fits(a, b)
  PROVE  a \in Seq(Nat) /\ Len(a) = Len(b) /\ \A e \in 1..Len(b) : a[e] \in Nat /\ a[e] < b[e]
BY DEF Fits

\* From x on, j steps in dimension d, and all there is within each, are consecutive in
\* the slice; and they are in the chunk of x, if it is full in the dimensions within d and x
\* is at the start in these.
LEMMA Block ==
  ASSUME NEW s, Proper(s), s.end > 0, NEW x, Fits(x, s.counts),
         NEW d \in 1..Len(s.counts), Full(s, d),
         \A e \in (d + 1)..Len(s.counts) :
           x[e] = 0 /\ ChunkAtCoord(s.ds, ValueAt(s, x)).offset[e] = s.indices[e],
         NEW j \in Nat, x[d] + j <= s.counts[d],
         s.indices[d] + x[d] + j
           <= ChunkAtCoord(s.ds, ValueAt(s, x)).offset[d] + s.ds.chunk_shape[d],
         NEW k \in 0..(j * Stride(s, d) - 1)
  PROVE  LET c  == ChunkAtCoord(s.ds, ValueAt(s, x))
             at == ChunkStart(ValueAt(s, x), c.offset, s.ds.chunk_dim_sz) + k
             q  == Place(x, s.counts) + k
         IN /\ q < s.end
            /\ Location(s.ds, ValueAt(s, Unravel(q, s.counts))) = [addr |-> c.addr, at |-> at]
            /\ at < Product(s.ds.chunk_shape)
<1> DEFINE n  == Len(s.counts)
           v  == DimSizes(s.counts)
           u  == s.ds.chunk_dim_sz
           b  == s.ds.chunk_shape
           W(e) == Stride(s, e)
           c  == ChunkAtCoord(s.ds, ValueAt(s, x))
           o  == c.offset
           t  == Unravel(k, s.counts)
           y  == [e \in 1..n |-> x[e] + t[e]]
           q  == Place(x, s.counts) + k
           f  == [e \in 1..n |-> ValueAt(s, x)[e] - o[e]]
           g  == [e \in 1..n |-> ValueAt(s, y)[e] - o[e]]
<1>1. /\ n \in Nat /\ s.counts \in Seq(Nat) /\ s.counts \in Seq(Nat \ {0}) /\ d \in 1..n
      /\ \A e \in 1..n : s.counts[e] \in Nat \ {0} /\ s.indices[e] \in Nat /\ b[e] \in Nat \ {0}
      /\ b \in Seq(Nat) /\ Len(b) = n
  BY Ranks, Strides
<1>2. /\ \A e \in 0..n : W(e) \in Nat \ {0}
      /\ W(0) = s.end /\ s.end \in Nat /\ s.end = Product(s.counts)
      /\ \A e \in 1..n : W(e - 1) = s.counts[e] * W(e)
      /\ \A e, i \in 0..n : e <= i => W(i) <= W(e)
  BY Strides DEF Proper
<1>3. v \in Seq(Nat) /\ Len(v) = n /\ \A e \in 1..n : v[e] = W(e)
  BY Strides
<1>4. /\ u \in Seq(Nat) /\ Len(u) = n /\ \A e \in 1..n : u[e] \in Nat
      /\ u = DimSizes(b)
      /\ \A e \in d..n : W(e) = u[e]
  BY ChunkStrides, Ranks, FullStrides
<1>5. x \in Seq(Nat) /\ Len(x) = n /\ \A e \in 1..n : x[e] \in Nat /\ x[e] < s.counts[e]
  BY DEF Fits
<1> HIDE DEF W, v, u, b
<1>6. k \in Nat /\ k < j * W(d) /\ d \in 0..n /\ d - 1 \in 0..n
  <2>1. d \in 0..n /\ d - 1 \in 0..n
    BY <1>1
  <2> DEFINE w == W(d)
  <2>2. w \in Nat
    BY <1>2, <2>1
  <2> HIDE DEF w
  <2>3. j * w \in Nat
    BY <2>2
  <2> DEFINE m == j * w
  <2>4. k \in 0..(m - 1)
    BY DEF W, m, w
  <2> HIDE DEF m
  <2> QED
    BY <2>1, <2>3, <2>4 DEF m, w
<1>7. k < W(d - 1) /\ k \in 0..(s.end - 1)
  <2> DEFINE w == W(d)
             a == s.counts[d]
             m == W(d - 1)
  <2>1. w \in Nat /\ a \in Nat /\ m \in Nat /\ m = a * w
    BY <1>1, <1>2, <1>6
  <2>2. j <= a
    <3>1. x[d] \in Nat
      BY <1>1, <1>5
    <3> QED
      BY SMTT(30), <2>1, <3>1
  <2> HIDE DEF w, a, m
  <2>3. j * w <= a * w /\ j * w \in Nat
    BY <2>1, <2>2, TimesOrder
  <2>4. k < m
    BY <1>6, <2>1, <2>3 DEF w
  <2>5. m <= s.end
    <3>1. 0 \in 0..n /\ 0 <= d - 1
      BY <1>1
    <3> QED
      BY <1>2, <1>6, <3>1 DEF m
  <2> QED
    BY <1>2, <1>6, <2>1, <2>4, <2>5 DEF m
<1>8. Fits(t, s.counts) /\ Place(t, s.counts) = k
  <2>1. k \in 0..(Product(s.counts) - 1)
    BY <1>2, <1>7
  <2> QED
    BY <1>1, <2>1, UnravelPlace
<1> HIDE DEF t
<1>9. t \in Seq(Nat) /\ Len(t) = n /\ \A e \in 1..n : t[e] \in Nat /\ t[e] < s.counts[e]
  BY <1>8, Within
<1>10. \A e \in 1..n : t[e] * W(e) <= k
  <2> TAKE e \in 1..n
  <2>1. e \in 1..Len(t) /\ Len(v) = Len(t)
    BY <1>3, <1>9
  <2>2. t[e] * v[e] <= Dot(t, v)
    BY <1>3, <1>9, <2>1, TermBelow
  <2> QED
    BY <1>3, <1>8, <2>2 DEF Place, v
<1>11. \A e \in 1..n : e < d => t[e] = 0
  <2> SUFFICES ASSUME NEW e \in 1..n, e < d, t[e] # 0 PROVE FALSE
    OBVIOUS
  <2> DEFINE w == W(e)
             a == t[e]
  <2>1. a \in Nat /\ a # 0
    BY <1>9
  <2>2. w \in Nat /\ k < w
    <3>1. e \in 0..n /\ e <= d - 1
      BY <1>1
    <3>2. W(d - 1) <= W(e) /\ W(e) \in Nat /\ W(d - 1) \in Nat
      BY <1>2, <1>6, <3>1
    <3> QED
      BY <1>6, <1>7, <3>2
  <2>3. a * w <= k
    BY <1>10
  <2> HIDE DEF a, w
  <2>4. w <= a * w /\ a * w \in Nat
    BY <2>1, <2>2
  <2> QED
    BY <1>6, <2>2, <2>3, <2>4
<1>12. t[d] < j
  <2> DEFINE w == W(d)
             a == t[d]
  <2>1. a \in Nat /\ w \in Nat /\ a * w <= k /\ k < j * w
    BY <1>1, <1>2, <1>6, <1>9, <1>10
  <2> HIDE DEF a, w
  <2>2. ~ (j <= a)
    <3>1. SUFFICES ASSUME j <= a PROVE FALSE
      OBVIOUS
    <3>2. j * w <= a * w /\ j * w \in Nat /\ a * w \in Nat
      BY <2>1, <3>1, TimesOrder
    <3> QED
      BY <1>6, <2>1, <3>2
  <2> QED
    BY <2>1, <2>2 DEF a
<1>13. /\ y \in Seq(Nat) /\ Len(y) = n
       /\ \A e \in 1..n : y[e] = x[e] + t[e] /\ y[e] \in Nat
  <2>1. ASSUME NEW e \in 1..n PROVE x[e] + t[e] \in Nat
    <3>1. x[e] \in Nat /\ t[e] \in Nat
      BY <1>5, <1>9
    <3> QED
      BY <3>1
  <2>2. n \in Nat /\ y = [e \in 1..n |-> x[e] + t[e]]
    BY <1>1
  <2> HIDE DEF n, y
  <2>3. \A e \in 1..n : y[e] = x[e] + t[e]
    BY <2>2
  <2>4. y \in [1..n -> Nat]
    BY <2>1, <2>2
  <2>5. y \in Seq(Nat) /\ Len(y) = n
    BY <2>2, <2>4
  <2>6. \A e \in 1..n : y[e] \in Nat
    BY <2>4
  <2> QED
    BY <2>3, <2>5, <2>6
<1> HIDE DEF y
<1>14. \A e \in 1..n : /\ e < d => y[e] = x[e]
                       /\ e = d => y[e] < x[d] + j /\ x[d] <= y[e]
                       /\ e > d => y[e] = t[e]
  <2> TAKE e \in 1..n
  <2>1. y[e] = x[e] + t[e] /\ x[e] \in Nat /\ t[e] \in Nat
    BY <1>5, <1>9, <1>13
  <2>2. n \in Nat /\ d \in Nat /\ e \in Nat /\ (e > d => e \in (d + 1)..n)
    BY <1>1
  <2>3. e > d => x[e] = 0
    BY <2>2
  <2>4. /\ e < d => t[e] = 0
        /\ e = d => t[e] < j
    BY <1>11, <1>12
  <2> DEFINE a == x[e]
             f1 == t[e]
             r == y[e]
  <2>5. e = d => r < a + j /\ a <= r
    <3> HIDE DEF a, f1, r
    <3>1. r = a + f1 /\ a \in Nat /\ f1 \in Nat
      BY <2>1 DEF a, f1, r
    <3>2. e = d => f1 < j
      BY <2>4 DEF f1
    <3> QED
      BY <3>1, <3>2
  <2>6. e < d => r = a
    BY <2>1, <2>4
  <2>7. e > d => r = f1
    BY <2>1, <2>3
  <2> QED
    BY <2>5, <2>6, <2>7
<1>15. Fits(y, s.counts)
  <2>1. \A e \in 1..n : y[e] < s.counts[e]
    <3> TAKE e \in 1..n
    <3>1. x[e] < s.counts[e] /\ x[e] \in Nat
      BY <1>5
    <3>2. t[e] < s.counts[e]
      BY <1>9
    <3>3. s.counts[e] \in Nat /\ e \in Int /\ d \in Int
      BY <1>1
    <3>4. y[e] \in Nat
      BY <1>13
    <3>5. CASE e < d
      BY <1>14, <3>1, <3>5
    <3>6. CASE e = d
      <4>1. x[e] + j <= s.counts[e] /\ y[e] < x[e] + j
        BY <1>14, <3>6
      <4> DEFINE a == x[e]
                 z == s.counts[e]
                 r == y[e]
      <4>2. a \in Nat /\ z \in Nat /\ r \in Nat /\ a + j <= z /\ r < a + j
        BY <3>1, <3>3, <3>4, <4>1
      <4> HIDE DEF a, z, r
      <4>3. r < z
        BY <4>2
      <4> QED
        BY <4>3 DEF r, z
    <3>7. CASE e > d
      BY <1>14, <3>2, <3>7
    <3> QED
      BY <3>3, <3>5, <3>6, <3>7
  <2> QED
    BY <1>13, <2>1 DEF Fits
<1>16. Place(y, s.counts) = q
  <2>1. Len(t) = Len(x) /\ Len(v) = Len(x) /\ Len(y) = Len(x)
        /\ \A e \in 1..Len(x) : y[e] = x[e] + t[e]
    BY <1>3, <1>5, <1>9, <1>13
  <2>2. Dot(y, v) = Dot(x, v) + Dot(t, v)
    BY <1>3, <1>5, <1>9, <1>13, <2>1, DotAdds
  <2> QED
    BY <1>8, <2>2 DEF Place, v
<1>17. q \in 0..(s.end - 1) /\ y = Unravel(q, s.counts)
  <2>1. q \in 0..(s.end - 1)
    BY <1>1, <1>2, <1>15, <1>16, PlaceBelow
  <2> HIDE DEF q
  <2>2. /\ Fits(Unravel(q, s.counts), s.counts) /\ Place(Unravel(q, s.counts), s.counts) = q
    BY <1>1, <1>2, <2>1, UnravelPlace
  <2>3. y = Unravel(q, s.counts)
    BY <1>1, <1>15, <1>16, <2>2, PlaceSame
  <2> QED
    BY <2>1, <2>3
<1>18. /\ o \in Seq(Nat) /\ Len(o) = n
       /\ \A e \in 1..n : /\ o[e] \in Nat /\ o[e] <= ValueAt(s, x)[e]
                          /\ ValueAt(s, x)[e] < o[e] + b[e]
  BY Holder DEF b
<1>19. /\ Len(ValueAt(s, x)) = n /\ Len(ValueAt(s, y)) = n
       /\ \A e \in 1..n : ValueAt(s, x)[e] = s.indices[e] + x[e]
       /\ \A e \in 1..n : ValueAt(s, y)[e] = s.indices[e] + y[e]
  <2>1. Len(ValueAt(s, x)) = n /\ \A e \in 1..n : ValueAt(s, x)[e] = s.indices[e] + x[e]
    BY <1>1 DEF ValueAt
  <2>2. Len(ValueAt(s, y)) = n /\ \A e \in 1..n : ValueAt(s, y)[e] = s.indices[e] + y[e]
    BY <1>1 DEF ValueAt
  <2> QED
    BY <2>1, <2>2
<1>20. /\ \A e \in (d + 1)..n : o[e] = s.indices[e]
       /\ s.indices[d] + x[d] + j <= o[d] + b[d]
       /\ \A e \in (d + 1)..n : s.counts[e] = b[e]
  BY DEF b, Full
<1> HIDE DEF o
<1>21. \A e \in 1..n : o[e] <= ValueAt(s, y)[e] /\ ValueAt(s, y)[e] < o[e] + b[e]
  <2> TAKE e \in 1..n
  <2> DEFINE i == s.indices[e]
             z == b[e]
             p == o[e]
             a == x[e]
             r == y[e]
  <2>1. /\ i \in Nat /\ z \in Nat /\ p \in Nat /\ a \in Nat /\ r \in Nat /\ e \in Int /\ d \in Int
    <3>1. i \in Nat /\ z \in Nat /\ e \in Int /\ d \in Int
      BY SMTT(30), <1>1
    <3>2. a \in Nat
      BY <1>5
    <3>3. r \in Nat
      BY <1>13
    <3>4. p \in Nat
      BY <1>18
    <3> QED
      BY <3>1, <3>2, <3>3, <3>4
  <2>2. p <= i + a /\ i + a < p + z
    BY <1>18, <1>19
  <2>3. /\ e < d => r = a
        /\ e = d => r < a + j /\ a <= r /\ i + a + j <= p + z
        /\ e > d => p = i /\ r < z
    <3>1. e > d => e \in (d + 1)..n
      BY <1>1
    <3>2. t[e] < s.counts[e]
      BY <1>9
    <3> QED
      BY <1>14, <1>20, <3>1, <3>2
  <2>4. ValueAt(s, y)[e] = i + r
    BY <1>19
  <2> HIDE DEF i, z, p, a, r
  <2>5. p <= i + r /\ i + r < p + z
    BY <2>1, <2>2, <2>3
  <2> QED
    BY <2>4, <2>5 DEF p, z
<1>22. Location(s.ds, ValueAt(s, y)) = [addr |-> c.addr, at |-> ChunkStart(ValueAt(s, y), o, u)]
  <2>1. Holds(c, ValueAt(s, y), b)
    BY <1>19, <1>21 DEF Holds, o
  <2> QED
    BY <1>15, <2>1, StoredIn DEF b, o, u
<1>23. /\ f \in Seq(Nat) /\ Len(f) = n /\ g \in Seq(Nat) /\ Len(g) = n
       /\ \A e \in 1..n : g[e] = f[e] + t[e] /\ g[e] < b[e]
  <2>1. \A e \in 1..n : /\ ValueAt(s, x)[e] - o[e] \in Nat
                        /\ ValueAt(s, y)[e] - o[e] \in Nat
                        /\ ValueAt(s, y)[e] - o[e] = (ValueAt(s, x)[e] - o[e]) + t[e]
                        /\ ValueAt(s, y)[e] - o[e] < b[e]
    <3> TAKE e \in 1..n
    <3> DEFINE i == s.indices[e]
               z == b[e]
               p == o[e]
               a == x[e]
               r == y[e]
    <3>1. /\ i \in Nat /\ z \in Nat /\ p \in Nat /\ a \in Nat /\ r \in Nat /\ t[e] \in Nat /\ r = a + t[e]
      BY <1>1, <1>5, <1>9, <1>13, <1>18
    <3>2. ValueAt(s, x)[e] = i + a /\ ValueAt(s, y)[e] = i + r
      BY <1>19
    <3>3. p <= i + a /\ p <= i + r /\ i + r < p + z
      BY <1>18, <1>21, <3>2
    <3> DEFINE h == t[e]
    <3> HIDE DEF i, z, p, a, r, h
    <3>5. r = a + h /\ h \in Nat
      BY <3>1 DEF h
    <3>4. /\ (i + a) - p \in Nat /\ (i + r) - p \in Nat
          /\ (i + r) - p = ((i + a) - p) + h /\ (i + r) - p < z
      <4>1. i \in Nat /\ z \in Nat /\ p \in Nat /\ a \in Nat /\ h \in Nat /\ r = a + h
        BY <3>1, <3>5
      <4>2. p <= i + a /\ i + r < p + z
        BY <3>3
      <4> DEFINE l == i + a
      <4>3. l \in Nat /\ i + r = l + h
        BY <4>1
      <4> HIDE DEF l
      <4>4. p <= l /\ l + h < p + z
        BY <4>2, <4>3 DEF l
      <4>5. l - p \in Nat /\ (l + h) - p \in Nat /\ (l + h) - p = (l - p) + h /\ (l + h) - p < z
        BY <4>1, <4>3, <4>4
      <4> QED
        BY <4>3, <4>5 DEF l
    <3> QED
      BY <3>2, <3>4 DEF p, z, h
  <2>2. f \in [1..n -> Nat] /\ \A e \in 1..n : f[e] = ValueAt(s, x)[e] - o[e]
    BY <2>1
  <2>3. g \in [1..n -> Nat] /\ \A e \in 1..n : g[e] = ValueAt(s, y)[e] - o[e]
    BY <2>1
  <2> HIDE DEF f, g
  <2>4. \A e \in 1..n : g[e] = f[e] + t[e] /\ g[e] < b[e]
    BY <2>1, <2>2, <2>3
  <2>7. n \in Nat
    BY <1>1
  <2> HIDE DEF n
  <2>5. f \in Seq(Nat) /\ Len(f) = n
    BY <2>2, <2>7
  <2>6. g \in Seq(Nat) /\ Len(g) = n
    BY <2>3, <2>7
  <2> QED
    BY <2>4, <2>5, <2>6
<1>24. ChunkStart(ValueAt(s, x), o, u) = Dot(f, u) /\ ChunkStart(ValueAt(s, y), o, u) = Dot(g, u)
  BY <1>19 DEF ChunkStart
<1> HIDE DEF f, g
<1>25. Dot(g, u) = Dot(f, u) + Dot(t, u)
  <2>1. Len(t) = Len(f) /\ Len(u) = Len(f) /\ Len(g) = Len(f)
        /\ \A e \in 1..Len(f) : g[e] = f[e] + t[e]
    BY <1>4, <1>9, <1>23
  <2> QED
    BY <1>4, <1>9, <1>23, <2>1, DotAdds
<1>26. Dot(t, u) = k
  <2>1. \A e \in 1..n : t[e] * u[e] = t[e] * v[e]
    <3> TAKE e \in 1..n
    <3>1. CASE e < d
      <4>1. t[e] = 0
        BY <1>11, <3>1
      <4>2. u[e] \in Nat /\ v[e] \in Nat
        <5>1. W(e) \in Nat
          BY <1>1, <1>2
        <5> QED
          BY <1>3, <1>4, <5>1
      <4> QED
        BY <4>1, <4>2
    <3>2. CASE ~(e < d)
      <4>1. e \in d..n
        BY <1>1, <3>2
      <4> QED
        BY <1>3, <1>4, <4>1
    <3> QED
      BY <3>1, <3>2
  <2>2. Dot(t, u) = Dot(t, v)
    <3>1. Len(u) = Len(t) /\ Len(v) = Len(t) /\ \A e \in 1..Len(t) : t[e] * u[e] = t[e] * v[e]
      BY <1>3, <1>4, <1>9, <2>1
    <3> QED
      BY <1>3, <1>4, <1>9, <3>1, DotSame
  <2> QED
    BY <1>8, <2>2 DEF Place, v
<1>27. ChunkStart(ValueAt(s, y), o, u) = ChunkStart(ValueAt(s, x), o, u) + k
  BY <1>24, <1>25, <1>26
<1>28. ChunkStart(ValueAt(s, y), o, u) < Product(b)
  <2>1. Fits(g, b)
    BY <1>1, <1>23 DEF Fits
  <2>2. Place(g, b) \in 0..(Product(b) - 1)
    BY <1>1, <2>1, PlaceBelow
  <2>3. Product(b) \in Int
    BY <1>1, ProductNat
  <2> QED
    BY <1>4, <1>24, <2>2, <2>3 DEF Place
<1> QED
  BY <1>2, <1>17, <1>22, <1>27, <1>28 DEF o, u, b, c, q

-------------------------------------------------------------------------------
(*****************************************************************************)
(* A call of next().                                                       *)
(***************************************************************************)
-------------------------------------------------------------------------------
(***************************************************************************)
(* Where the passes of the loop may go on, and where they stop.            *)
(***************************************************************************)
\* There is an innermost dimension that the slice covers only partly, unless it covers
\* all of them.
LEMMA InnermostIs ==
  ASSUME NEW s, Proper(s)
  PROVE  LET p == Innermost(s)
             n == Len(s.counts)
         IN /\ p \in 0..n
            /\ \A d \in 1..n : d > p => Covers(s, d)
            /\ p > 0 => ~Covers(s, p)
<1> DEFINE n == Len(s.counts)
           partial == {d \in 1..n : ~Covers(s, d)}
           T == {n - d : d \in partial}
           Last(d) == d \in partial /\ \A e \in partial : e <= d
<1>1. n \in Nat
  BY Ranks
<1>2. CASE partial = {}
  <2>1. Innermost(s) = 0
    BY <1>2 DEF Innermost
  <2> QED
    BY <1>1, <1>2, <2>1
<1>3. CASE partial # {}
  <2>1. T \in SUBSET Nat /\ T # {}
    <3>1. \A d \in partial : n - d \in Nat
      BY <1>1
    <3> HIDE DEF partial
    <3> QED
      BY <1>3, <3>1
  <2> HIDE DEF T
  <2>2. PICK m \in T : \A k \in T : m <= k
    BY <2>1, Least
  <2>3. PICK d \in partial : m = n - d
    BY DEF T
  <2>4. \A e \in partial : e <= d
    <3> TAKE e \in partial
    <3>1. n - e \in T
      BY DEF T
    <3>2. n - d <= n - e
      BY <2>2, <2>3, <3>1
    <3>3. d \in Int /\ e \in Int /\ n \in Int
      BY <1>1
    <3> QED
      BY <3>2, <3>3
  <2>5. Innermost(s) = CHOOSE a \in partial : \A e \in partial : e <= a
    BY <1>3 DEF Innermost
  <2> DEFINE p == Innermost(s)
  <2> HIDE DEF partial
  <2>6. p \in partial /\ \A e \in partial : e <= p
    BY <2>4, <2>5
  <2> HIDE DEF p
  <2>7. p \in 1..n /\ ~Covers(s, p) /\ \A a \in 1..n : a > p => Covers(s, a)
    <3>1. p \in 1..n /\ ~Covers(s, p)
      BY <2>6 DEF partial
    <3>2. ASSUME NEW a \in 1..n, a > p PROVE Covers(s, a)
      <4>1. ~ (a \in partial)
        BY <1>1, <2>6, <3>1, <3>2
      <4> QED
        BY <4>1 DEF partial
    <3> QED
      BY <3>1, <3>2
  <2> QED
    BY <1>1, <2>7 DEF p
<1> QED
  BY <1>2, <1>3

\* With one index in each dimension up to d, what is within one index of d is all there
\* is;
LEMMA OneIndex ==
  ASSUME NEW s, Proper(s), s.end > 0, NEW d \in 0..Len(s.counts), OneUpTo(s, d)
  PROVE  Stride(s, d) = s.end
<1> DEFINE n == Len(s.counts)
           E == {k \in Nat : k <= d => Stride(s, k) = s.end}
<1>1. /\ n \in Nat /\ d \in Nat /\ d <= n
      /\ Stride(s, 0) = s.end /\ \A k \in 0..n : Stride(s, k) \in Nat
      /\ \A k \in 1..n : Stride(s, k - 1) = s.counts[k] * Stride(s, k)
  BY Ranks, Strides
<1>2. 0 \in E
  BY <1>1
<1>3. \A k \in E : k + 1 \in E
  <2> SUFFICES ASSUME NEW k \in E, k + 1 <= d PROVE Stride(s, k + 1) = s.end
    OBVIOUS
  <2>1. k \in Nat /\ k + 1 \in 1..n /\ k + 1 \in 1..d /\ (k + 1) - 1 = k /\ k <= d /\ k + 1 \in 0..n
    BY <1>1
  <2>2. Stride(s, k) = s.end
    BY <2>1
  <2>3. s.counts[k + 1] = 1
    BY <2>1 DEF OneUpTo
  <2>4. Stride(s, k) = s.counts[k + 1] * Stride(s, k + 1) /\ Stride(s, k + 1) \in Nat
    BY <1>1, <2>1
  <2> QED
    BY <2>2, <2>3, <2>4
<1>4. E = Nat
  <2>1. E \in SUBSET Nat
    OBVIOUS
  <2> HIDE DEF E
  <2> QED
    BY <1>2, <1>3, <2>1, SetInduction
<1> QED
  BY <1>1, <1>4

\* and at the last index of d a step in it leads to the end.
LEMMA LastStep ==
  ASSUME NEW s, Proper(s), s.end > 0, NEW x, Fits(x, s.counts), NEW d \in 1..Len(s.counts),
         OneUpTo(s, d) \/ (OneUpTo(s, d - 1) /\ x[d] + 1 = s.counts[d])
  PROVE  Place(x, s.counts) + Stride(s, d) >= s.end
<1> DEFINE n == Len(s.counts)
           v == DimSizes(s.counts)
           w == Stride(s, d)
           a == x[d]
           q == Place(x, s.counts)
<1>1. /\ n \in Nat /\ d \in 1..n /\ d \in 0..n /\ d - 1 \in 0..n /\ s.counts \in Seq(Nat)
  BY Ranks
<1>2. /\ w \in Nat /\ Stride(s, d - 1) = s.counts[d] * w /\ v[d] = w /\ s.end \in Nat
      /\ v \in Seq(Nat) /\ Len(v) = n
  BY <1>1, Strides
<1>3. x \in Seq(Nat) /\ Len(x) = n /\ a \in Nat
  BY <1>1 DEF Fits
<1>4. a * w <= q /\ q \in Nat
  <2>1. d \in 1..Len(x) /\ Len(v) = Len(x)
    BY <1>1, <1>2, <1>3
  <2> HIDE DEF v, w, a, q
  <2>2. x[d] * v[d] <= Dot(x, v) /\ Dot(x, v) \in Nat
    BY <1>2, <1>3, <2>1, TermBelow
  <2> QED
    BY <1>2, <2>2 DEF q, v, a, Place
<1>5. CASE OneUpTo(s, d)
  <2>1. w = s.end
    BY <1>1, <1>5, OneIndex
  <2> QED
    BY <1>2, <1>4, <2>1
<1>6. CASE OneUpTo(s, d - 1) /\ x[d] + 1 = s.counts[d]
  <2>1. Stride(s, d - 1) = s.end
    BY <1>1, <1>6, OneIndex
  <2>2. s.end = (a + 1) * w
    BY <1>2, <1>6, <2>1
  <2> HIDE DEF w, a, q
  <2>3. (a + 1) * w = a * w + w /\ a * w \in Nat
    BY <1>2, <1>3
  <2> QED
    BY <1>2, <1>4, <2>2, <2>3 DEF w, q
<1> QED
  BY <1>5, <1>6

\* During a call the chunk is that of Begin, cut at the end of the dataset; it is the
\* slice in every dimension inside of the innermost that is covered partly.
LEMMA InCall ==
  ASSUME Proper(slice), SupportedInv, pc = "loop"
  PROVE  /\ slice.end > 0 /\ Rank \in Nat \ {0}
         /\ Fits(Begin, slice.counts) /\ Place(Begin, slice.counts) = offset - advance
         /\ \A d \in 1..Rank :
              /\ Begin[d] \in Nat /\ Begin[d] < slice.counts[d]
              /\ chunk.offset[d] \in Nat /\ ChunkSz(d) \in Nat /\ CountChunkEnd(d) \in Nat
              /\ chunk.offset[d] % slice.ds.chunk_shape[d] = 0
              /\ ChunkSz(d) = Extent(slice, d, slice.indices[d] + Begin[d])
              /\ chunk.offset[d] = ((slice.indices[d] + Begin[d]) \div slice.ds.chunk_shape[d])
                                     * slice.ds.chunk_shape[d]
              /\ chunk.offset[d] + ChunkSz(d) =
                   Lesser(chunk.offset[d] + slice.ds.chunk_shape[d], slice.ds.shape[d])
              /\ slice.indices[d] + CountChunkEnd(d) = chunk.offset[d] + ChunkSz(d)
              /\ Begin[d] < CountChunkEnd(d)
<1> DEFINE n == Rank
<1>1. /\ n \in Nat \ {0} /\ n = Len(slice.counts) /\ slice.counts \in Seq(Nat)
      /\ \A d \in 1..n : /\ slice.indices[d] \in Nat /\ slice.counts[d] \in Nat
                         /\ slice.ds.shape[d] \in Nat /\ slice.ds.chunk_shape[d] \in Nat \ {0}
  <2>1. n = Len(slice.counts) /\ n > 0
    BY DEF SupportedInv, Calling, Rank
  <2> HIDE DEF n
  <2>2. /\ n \in Nat /\ slice.counts \in Seq(Nat)
        /\ \A d \in 1..n : /\ slice.indices[d] \in Nat /\ slice.counts[d] \in Nat
                           /\ slice.ds.shape[d] \in Nat /\ slice.ds.chunk_shape[d] \in Nat \ {0}
    <3>1. Proper(slice)
      OBVIOUS
    <3> QED
      BY <2>1, <3>1, Ranks, Zenon
  <2>3. n \in Nat \ {0}
    BY <2>1, <2>2
  <2> QED
    BY <2>1, <2>2, <2>3
<1>2. slice.end > 0 /\ offset - advance \in 0..(Product(slice.counts) - 1)
  <2>1. slice.end = Product(slice.counts) /\ offset - advance \in 0..(slice.end - 1)
    BY DEF Proper, SupportedInv, Calling
  <2>2. Product(slice.counts) \in Nat
    BY <1>1, ProductNat
  <2> QED
    BY <2>1, <2>2
<1>3. Fits(Begin, slice.counts) /\ Place(Begin, slice.counts) = offset - advance
  BY <1>1, <1>2, UnravelPlace DEF Begin
<1>4. chunk = ChunkAtCoord(slice.ds, ValueAt(slice, Begin))
  BY DEF SupportedInv, Calling, InChunk
<1>5. ASSUME NEW d \in 1..n
      PROVE  /\ Begin[d] \in Nat /\ Begin[d] < slice.counts[d]
             /\ chunk.offset[d] \in Nat /\ ChunkSz(d) \in Nat /\ CountChunkEnd(d) \in Nat
             /\ chunk.offset[d] % slice.ds.chunk_shape[d] = 0
             /\ ChunkSz(d) = Extent(slice, d, slice.indices[d] + Begin[d])
             /\ chunk.offset[d] = ((slice.indices[d] + Begin[d]) \div slice.ds.chunk_shape[d])
                                     * slice.ds.chunk_shape[d]
             /\ chunk.offset[d] + ChunkSz(d) =
                   Lesser(chunk.offset[d] + slice.ds.chunk_shape[d], slice.ds.shape[d])
             /\ slice.indices[d] + CountChunkEnd(d) = chunk.offset[d] + ChunkSz(d)
             /\ Begin[d] < CountChunkEnd(d)
  <2> DEFINE i == slice.indices[d]
             z == slice.ds.chunk_shape[d]
             h == slice.ds.shape[d]
             o == chunk.offset[d]
             x == Begin[d]
  <2>1. i \in Nat /\ z \in Nat \ {0} /\ h \in Nat
    BY <1>1
  <2>2. x \in Nat /\ x < slice.counts[d] /\ i + x < h /\ ValueAt(slice, Begin)[d] = i + x
    BY <1>1, <1>2, <1>3, WithinDataset
  <2>3. o \in Nat /\ o % z = 0 /\ o <= i + x /\ i + x < o + z /\ o = ((i + x) \div z) * z
    BY <1>1, <1>2, <1>3, <1>4, <2>2, Holder
  <2>4. ChunkSz(d) = IF o + z > h THEN z - ((o + z) - h) ELSE z
    BY DEF ChunkSz
  <2>5. Extent(slice, d, i + x) = IF z < h - o THEN z ELSE h - o
    BY <2>3 DEF Extent, Lesser
  <2>6. CountChunkEnd(d) = o + (ChunkSz(d) - i)
    BY DEF CountChunkEnd
  <2> DEFINE q == ChunkSz(d)
             r == Extent(slice, d, i + x)
             f == CountChunkEnd(d)
  <2> HIDE DEF i, z, h, o, x, q, r, f
  <2>7. /\ q \in Nat /\ o + q = (IF o + z < h THEN o + z ELSE h) /\ i + x < o + q /\ q = r
    <3>1. q = IF o + z > h THEN z - ((o + z) - h) ELSE z
      BY <2>4 DEF q, o, z, h
    <3>2. r = IF z < h - o THEN z ELSE h - o
      BY <2>5 DEF r
    <3>3. z \in Nat
      BY <2>1
    <3> QED
      BY <2>1, <2>2, <2>3, <3>1, <3>2, <3>3
  <2>8. f = (o + q) - i
    <3>1. f = o + (q - i)
      BY <2>6 DEF f, o, q, i
    <3> QED
      BY <2>1, <2>3, <2>7, <3>1
  <2>9. f \in Nat /\ i + f = o + q /\ x < f
    <3> HIDE <2>1, <2>2, <2>3
    <3>1. o + q \in Nat /\ i + x < o + q /\ i \in Nat /\ x \in Nat
      BY <2>1, <2>2, <2>3, <2>7
    <3> DEFINE g == o + q
    <3>2. f = g - i /\ g \in Nat /\ i + x < g
      BY <2>8, <3>1
    <3> HIDE DEF g
    <3>3. f \in Nat /\ i + f = g /\ x < f
      BY <3>1, <3>2
    <3> QED
      BY <3>3 DEF g
  <2> QED
    BY <2>2, <2>3, <2>7, <2>9 DEF i, z, h, o, x, q, r, f, Lesser
<1> QED
  BY <1>1, <1>2, <1>3, <1>5

\* The test of the loop is right about that.
LEMMA CoversIt ==
  ASSUME Proper(slice), SupportedInv, pc = "loop", NEW d \in 1..Rank
  PROVE  /\ CoversChunk(d) => Covers(slice, d)
         /\ d > Innermost(slice) =>
              /\ Begin[d] = 0 /\ chunk.offset[d] = slice.indices[d]
              /\ CoversChunk(d)
              /\ slice.counts[d] = ChunkSz(d) /\ slice.counts[d] = CountChunkEnd(d)
<1> DEFINE i == slice.indices[d]
           z == slice.ds.chunk_shape[d]
           h == slice.ds.shape[d]
           o == chunk.offset[d]
           x == Begin[d]
           q == ChunkSz(d)
           f == CountChunkEnd(d)
           k == slice.counts[d]
           r(y) == Extent(slice, d, y)
<1>1. /\ Rank = Len(slice.counts) /\ i \in Nat /\ z \in Nat \ {0} /\ h \in Nat /\ k \in Nat
  BY Ranks DEF Rank
<1>2. /\ x \in Nat /\ o \in Nat /\ q \in Nat /\ f \in Nat
      /\ o % z = 0 /\ q = r(i + x) /\ o = ((i + x) \div z) * z /\ i + f = o + q
  BY InCall
<1>3. \A y : r(y) = Lesser(z, h - (y \div z) * z)
  BY DEF Extent
<1>4. CoversChunk(d) <=> (i = o /\ k = f)
  BY DEF CoversChunk
<1>5. Covers(slice, d) <=> (i % z = 0 /\ k = r(i))
  BY DEF Covers
<1>6. d > Innermost(slice) => x = 0 /\ Covers(slice, d)
  <2> SUFFICES ASSUME d > Innermost(slice) PROVE x = 0 /\ Covers(slice, d)
    OBVIOUS
  <2>1. /\ Innermost(slice) \in 0..Len(slice.counts)
        /\ \A e \in 1..Len(slice.counts) : e > Innermost(slice) => Covers(slice, e)
    BY InnermostIs
  <2>2. StartsRun(slice, Begin)
    <3>1. InChunk
      BY DEF SupportedInv, Calling
    <3> QED
      BY <3>1 DEF InChunk
  <2>3. d \in (Innermost(slice) + 1)..Len(slice.counts)
    BY <1>1, <2>1
  <2>4. \A e \in (Innermost(slice) + 1)..Len(slice.counts) : Begin[e] = 0
    BY <2>2 DEF StartsRun
  <2> QED
    BY <1>1, <2>1, <2>3, <2>4
<1>7. i % z = 0 => i = (i \div z) * z
  <2> HIDE DEF i, z
  <2>1. i \div z \in Nat /\ i = ((i \div z) * z) + (i % z)
    BY <1>1, PartsOf
  <2> DEFINE y == (i \div z) * z
  <2>2. y \in Int
    BY <1>1, <2>1
  <2> HIDE DEF y
  <2>3. i % z = 0 => i = y
    <3>1. i = y + (i % z)
      BY <2>1 DEF y
    <3> QED
      BY <2>2, <3>1
  <2> QED
    BY <2>3 DEF y
<1> HIDE DEF i, z, h, o, x, q, f, k, r
<1>8. CoversChunk(d) => Covers(slice, d)
  <2> SUFFICES ASSUME i = o, k = f PROVE i % z = 0 /\ k = r(i)
    BY <1>4, <1>5
  <2>1. i % z = 0 /\ (i \div z) * z = o
    BY <1>2, <1>7
  <2>2. r(i) = Lesser(z, h - o) /\ r(i + x) = Lesser(z, h - o)
    BY <1>2, <1>3, <2>1
  <2>3. f = q
    <3>1. o \in Nat /\ f \in Nat /\ q \in Nat /\ o + f = o + q
      BY <1>2
    <3> QED
      BY <3>1
  <2> QED
    BY <1>2, <2>1, <2>2, <2>3
<1>9. ASSUME x = 0, i % z = 0, k = r(i)
      PROVE  o = i /\ k = q /\ k = f
  <2>1. i + x = i
    BY <1>1, <1>9
  <2>2. o = i
    BY <1>2, <1>7, <1>9, <2>1
  <2>3. k = q
    BY <1>2, <1>9, <2>1
  <2>4. k = f
    <3>1. o \in Nat /\ f \in Nat /\ q \in Nat /\ o + f = o + q
      BY <1>2, <2>2
    <3> QED
      BY <2>3, <3>1
  <2> QED
    BY <2>2, <2>3, <2>4
<1>10. d > Innermost(slice) => x = 0 /\ o = i /\ CoversChunk(d) /\ k = q /\ k = f
  BY <1>4, <1>5, <1>6, <1>9
<1> QED
  BY <1>8, <1>10 DEF i, o, x, q, f, k

\* While the loop passes dimensions the slice is not at its end.
LEMMA NotAtEnd ==
  ASSUME Proper(slice), SupportedInv, pc = "loop", Passing, di < Rank, di > 0
  PROVE  /\ Dim \in 1..(Rank - 1) /\ Dim >= Innermost(slice)
         /\ carry = 1 /\ advance = Stride(slice, Dim)
         /\ ~OneUpTo(slice, Dim)
         /\ ~(OneUpTo(slice, Dim - 1) /\ Begin[Dim] + 1 = slice.counts[Dim])
<1>1. /\ slice.end > 0 /\ Rank \in Nat \ {0} /\ Rank = Len(slice.counts)
      /\ Fits(Begin, slice.counts) /\ Place(Begin, slice.counts) = offset - advance
  BY InCall DEF Rank
<1>2. /\ Dim \in 1..(Rank - 1) /\ Dim \in 1..Len(slice.counts)
  BY <1>1 DEF Dim, SupportedInv
<1>3. carry = 1 /\ advance = Stride(slice, Dim) /\ Dim >= Innermost(slice)
  BY DEF Passing
<1>4. offset < slice.end /\ offset \in Nat /\ advance \in Nat
  BY DEF SupportedInv, Calling
<1>5. Place(Begin, slice.counts) + Stride(slice, Dim) = offset
  BY <1>1, <1>3, <1>4
<1>6. ~(Place(Begin, slice.counts) + Stride(slice, Dim) >= slice.end)
  <2>1. slice.end \in Int
    BY <1>1, Strides
  <2> QED
    BY <1>4, <1>5, <2>1
<1> QED
  BY <1>1, <1>2, <1>3, <1>6, LastStep

\* A pass that only carries over.
LEMMA SinglePass ==
  ASSUME Proper(slice), Supported(slice), SupportedInv, pc = "loop", Passing, di < Rank,
         ChunkSz(Dim) = 1, slice.ds.chunk_dim_sz[Dim] # 1
  PROVE  LET p == Innermost(slice)
         IN /\ di > 0 /\ Dim \in 1..(Rank - 1) /\ Dim >= p
            /\ carry = 1 /\ advance = Stride(slice, Dim)
            /\ Dim > p => slice.counts[Dim] = 1
            /\ Dim = p =>
                 /\ \A e \in 1..(p - 1) : ChunkSz(e) = 1 /\ slice.ds.chunk_dim_sz[e] # 1
                 /\ \/ Begin[p] + 1 = slice.counts[p]
                    \/ (slice.indices[p] + (Begin[p] + 1)) % slice.ds.chunk_shape[p] = 0
<1> DEFINE p == Innermost(slice)
           n == Rank
           D == Dim
<1>1. n \in Nat \ {0} /\ n = Len(slice.counts) /\ di \in 0..n
  BY InCall DEF Rank, SupportedInv
<1>2. D \in 1..n /\ (di = 0 => D = n)
  BY <1>1 DEF Dim
<1>3. /\ slice.ds.chunk_dim_sz[n] = 1 /\ \A d \in 1..n : slice.ds.chunk_dim_sz[d] \in Nat \ {0}
      /\ \A d, e \in 1..n : d <= e => slice.ds.chunk_dim_sz[e] <= slice.ds.chunk_dim_sz[d]
  BY <1>1, ChunkStrides
<1>4. di > 0
  BY <1>1, <1>2, <1>3
<1>5. /\ D \in 1..(n - 1) /\ D >= p
      /\ carry = 1 /\ advance = Stride(slice, D)
      /\ ~OneUpTo(slice, D)
      /\ ~(OneUpTo(slice, D - 1) /\ Begin[D] + 1 = slice.counts[D])
  BY <1>4, NotAtEnd
<1>6. D > p => slice.counts[D] = 1
  BY <1>2, CoversIt
<1>7. ASSUME D = p
      PROVE  /\ \A e \in 1..(p - 1) : ChunkSz(e) = 1 /\ slice.ds.chunk_dim_sz[e] # 1
             /\ \/ Begin[p] + 1 = slice.counts[p]
                \/ (slice.indices[p] + (Begin[p] + 1)) % slice.ds.chunk_shape[p] = 0
  <2> DEFINE x == slice.indices[p] + Begin[p]
  <2>1. p \in 1..(Len(slice.counts) - 1) /\ p \in 1..n /\ p \in Int
    BY <1>1, <1>5, <1>7
  <2>2. /\ \A d \in 1..n : slice.indices[d] \in Nat /\ slice.counts[d] \in Nat
        /\ \A d \in 1..n : slice.ds.shape[d] \in Nat /\ slice.ds.chunk_shape[d] \in Nat \ {0}
    BY <1>1, Ranks
  <2>3. \A d \in 1..n : Begin[d] \in Nat /\ Begin[d] < slice.counts[d]
                        /\ ChunkSz(d) = Extent(slice, d, slice.indices[d] + Begin[d])
    BY InCall
  <2>4. \A d \in 1..n : slice.indices[d] + Begin[d] \in IndicesIn(slice, d)
    <3> TAKE d \in 1..n
    <3> DEFINE a == slice.indices[d]
               b == Begin[d]
               c == slice.counts[d]
    <3>1. a \in Nat /\ b \in Nat /\ c \in Nat /\ b < c
      BY <2>2, <2>3
    <3> HIDE DEF a, b, c
    <3>2. a + b \in a..(a + c - 1)
      BY <3>1
    <3> QED
      BY <3>2 DEF IndicesIn, a, b, c
  <2>5. \A y \in IndicesIn(slice, p) : MayStop(slice, p, y)
    <3>1. \/ p < p \/ OneUpTo(slice, p)
          \/ p > p /\ MayPass(slice, p)
          \/ p = p /\ \A y \in IndicesIn(slice, p) : MayStop(slice, p, y)
      <4> HIDE DEF p
      <4> QED
        BY <2>1 DEF Supported, p
    <3>2. ~OneUpTo(slice, p)
      BY <1>5, <1>7
    <3>3. ~(p < p) /\ ~(p > p)
      BY <2>1
    <3> QED
      BY <3>1, <3>2, <3>3
  <2>6. MayStop(slice, p, x)
    BY <2>1, <2>4, <2>5
  <2>7. Skipped(slice, p, x)
    BY <1>7, <2>1, <2>3 DEF Skipped
  <2>8. ~(OneUpTo(slice, p - 1) /\ x = LastIndex(slice, p))
    <3> SUFFICES ASSUME OneUpTo(slice, p - 1), x = LastIndex(slice, p) PROVE FALSE
      OBVIOUS
    <3>1. Begin[p] + 1 = slice.counts[p]
      <4> DEFINE a == slice.indices[p]
                 b == Begin[p]
                 c == slice.counts[p]
      <4>1. a \in Nat /\ b \in Nat /\ c \in Nat
        BY <2>1, <2>2, <2>3
      <4>2. a + b = a + c - 1
        BY DEF LastIndex
      <4> HIDE DEF a, b, c
      <4>3. b + 1 = c
        BY <4>1, <4>2
      <4> QED
        BY <4>3 DEF b, c
    <3> QED
      BY <1>5, <1>7, <3>1
  <2>9. \A e \in 1..(p - 1) : \A y \in IndicesIn(slice, e) : Extent(slice, e, y) = 1
    BY <2>6, <2>7, <2>8 DEF MayStop
  <2>10. ASSUME NEW e \in 1..(p - 1)
         PROVE  ChunkSz(e) = 1 /\ slice.ds.chunk_dim_sz[e] # 1
    <3>1. e \in 1..n /\ e <= p
      BY <1>1, <2>1
    <3>2. ChunkSz(e) = 1
      BY <2>3, <2>4, <2>9, <3>1
    <3>3. slice.ds.chunk_dim_sz[p] <= slice.ds.chunk_dim_sz[e]
      BY <1>3, <2>1, <3>1
    <3>4. slice.ds.chunk_dim_sz[p] # 1
      BY <1>7
    <3> QED
      BY <1>3, <2>1, <3>1, <3>2, <3>3, <3>4
  <2>11. \/ Begin[p] + 1 = slice.counts[p]
         \/ (slice.indices[p] + (Begin[p] + 1)) % slice.ds.chunk_shape[p] = 0
    <3> DEFINE a == slice.indices[p]
               b == Begin[p]
               c == slice.counts[p]
               z == slice.ds.chunk_shape[p]
               h == slice.ds.shape[p]
               o == chunk.offset[p]
    <3>1. a \in Nat /\ b \in Nat /\ c \in Nat /\ z \in Nat \ {0} /\ h \in Nat /\ b < c /\ o \in Nat
      BY <2>1, <2>2, <2>3, InCall
    <3>2. a + c <= h
      BY <1>1, <2>1, InCall DEF Proper
    <3>3. o <= a + b /\ a + b < o + 1 /\ o + 1 = (IF o + z < h THEN o + z ELSE h) /\ o % z = 0
          /\ o = ((a + b) \div z) * z
      <4>1. /\ o + ChunkSz(p) = Lesser(o + z, h) /\ o % z = 0
            /\ a + CountChunkEnd(p) = o + ChunkSz(p) /\ b < CountChunkEnd(p)
            /\ CountChunkEnd(p) \in Nat
            /\ o = ((a + b) \div z) * z
        BY <2>1, InCall
      <4>2. ChunkSz(p) = 1
        BY <1>7
      <4> DEFINE f == CountChunkEnd(p)
      <4>3. a + f = o + 1 /\ b < f /\ f \in Nat
        BY <4>1, <4>2
      <4>4. o <= a + b
        <5> DEFINE w == a + b
        <5> HIDE DEF a, b, z, o
        <5>1. w \in Nat
          BY <3>1
        <5> HIDE DEF w
        <5>2. w \div z \in Nat /\ w % z \in 0..(z - 1) /\ w = ((w \div z) * z) + (w % z)
          BY <3>1, <5>1, PartsOf
        <5> DEFINE u == (w \div z) * z
        <5>3. u = o
          BY <4>1 DEF w
        <5> HIDE DEF u
        <5>4. w = u + (w % z)
          BY <5>2 DEF u
        <5>5. w % z \in Nat
          BY <3>1, <5>2
        <5>6. o <= w
          BY <3>1, <5>3, <5>4, <5>5
        <5> QED
          BY <5>6 DEF w
      <4> HIDE DEF f, a, b, c, z, h, o
      <4>5. a + b < o + 1
        BY <3>1, <4>3
      <4> QED
        BY <4>1, <4>2, <4>4, <4>5 DEF Lesser
    <3> HIDE DEF a, b, c, z, h, o
    <3>4. o = a + b
      BY <3>1, <3>3
    <3>5. CASE o + z < h
      <4>1. z = 1
        BY <3>1, <3>3, <3>5
      <4>2. (a + (b + 1)) % z = 0
        BY <3>1, <4>1
      <4> QED
        BY <4>2 DEF a, b, z
    <3>6. CASE ~(o + z < h)
      <4>1. b + 1 = c
        BY <3>1, <3>2, <3>3, <3>4, <3>6
      <4> QED
        BY <4>1 DEF b, c
    <3> QED
      BY <3>5, <3>6
  <2> QED
    BY <2>10, <2>11
<1> QED
  BY <1>4, <1>5, <1>6, <1>7

\* A pass that advances: the end of the dimension is not passed by what is carried into
\* it, and either all it advances over is one block of the chunk, or it advances over
\* nothing.
LEMMA AdvancePass ==
  ASSUME Proper(slice), Supported(slice), SupportedInv, pc = "loop", Passing, di < Rank,
         ~(ChunkSz(Dim) = 1 /\ slice.ds.chunk_dim_sz[Dim] # 1)
  PROVE  /\ Dim \in 1..Rank /\ Dim >= Innermost(slice)
         /\ carry \in {0, 1} /\ advance = carry * Stride(slice, Dim)
         /\ Begin[Dim] + carry < slice.counts[Dim]
         /\ \/ Full(slice, Dim)
            \/ Lesser(slice.counts[Dim], CountChunkEnd(Dim)) = Begin[Dim] + carry
<1> DEFINE p == Innermost(slice)
           n == Rank
           D == Dim
           i == slice.indices[D]
           z == slice.ds.chunk_shape[D]
           h == slice.ds.shape[D]
           k == slice.counts[D]
           o == chunk.offset[D]
           x == Begin[D]
           f == CountChunkEnd(D)
           q == ChunkSz(D)
<1>1. n \in Nat \ {0} /\ n = Len(slice.counts) /\ di \in 0..n
  BY InCall DEF Rank, SupportedInv
<1>2. D \in 1..n /\ (di = 0 => D = n)
  BY <1>1 DEF Dim
<1>3. i \in Nat /\ z \in Nat \ {0} /\ h \in Nat /\ k \in Nat
  BY <1>1, <1>2, Ranks
<1>4. /\ x \in Nat /\ x < k /\ o \in Nat /\ q \in Nat /\ f \in Nat
      /\ q = Extent(slice, D, i + x) /\ o = ((i + x) \div z) * z
      /\ o + q = Lesser(o + z, h) /\ i + f = o + q /\ x < f
  BY <1>2, InCall
<1>5. i + k <= h
  BY <1>1, <1>2, InCall DEF Proper
<1>6. p \in 0..n
  BY <1>1, InnermostIs
<1>7. CASE di = 0
  <2>1. D = n /\ carry = 0 /\ advance = 0
    BY <1>1, <1>2, <1>7 DEF Passing
  <2>2. Stride(slice, D) \in Nat
    BY <1>1, <1>2, InCall, Strides
  <2>3. Full(slice, D)
    <3>1. (D + 1)..Len(slice.counts) = {}
      BY <1>1, <2>1
    <3> QED
      BY <3>1 DEF Full
  <2>4. advance = carry * Stride(slice, D)
    BY <2>1, <2>2
  <2>5. D >= p
    BY <1>1, <1>6, <2>1
  <2>6. x + carry < k
    <3> HIDE DEF x, k
    <3> QED
      BY <1>3, <1>4, <2>1
  <2> QED
    BY <1>2, <2>1, <2>3, <2>4, <2>5, <2>6
<1>8. CASE di # 0
  <2>1. di > 0
    BY <1>1, <1>8
  <2>2. /\ D \in 1..(n - 1) /\ D >= p
        /\ carry = 1 /\ advance = Stride(slice, D)
        /\ ~OneUpTo(slice, D)
        /\ ~(OneUpTo(slice, D - 1) /\ x + 1 = k)
    BY <2>1, NotAtEnd
  <2>3. Stride(slice, D) \in Nat
    BY <1>1, <1>2, InCall, Strides
  <2>4. advance = carry * Stride(slice, D)
    BY <2>2, <2>3
  <2>5. D \in 1..(Len(slice.counts) - 1)
    BY <1>1, <2>2
  <2>6. \/ D < p \/ OneUpTo(slice, D)
        \/ D > p /\ MayPass(slice, D)
        \/ D = p /\ \A y \in IndicesIn(slice, D) : MayStop(slice, D, y)
    <3> HIDE DEF p, D
    <3> QED
      BY <2>5 DEF Supported, p
  <2>7. ~(D < p)
    BY <1>1, <1>2, <1>6, <2>2
  <2>8. ~(q = 1 /\ slice.ds.chunk_dim_sz[D] # 1)
    OBVIOUS
  <2>9. x + 1 < k /\ (Full(slice, D) \/ Lesser(k, f) = x + 1)
    <3>1. CASE D > p /\ MayPass(slice, D)
      <4>1. x = 0 /\ k = q
        BY <1>2, <3>1, CoversIt
      <4>2. Extent(slice, D, i) = q
        <5>1. i + x = i
          BY <1>3, <4>1
        <5> QED
          BY <1>4, <5>1
      <4>3. q # 1
        <5> SUFFICES ASSUME q = 1 PROVE FALSE
          OBVIOUS
        <5>1. Skipped(slice, D, i)
          BY <3>1, <4>2 DEF MayPass
        <5> QED
          BY <2>8, <5>1 DEF Skipped
      <4>4. Full(slice, D)
        BY <3>1, <4>2, <4>3 DEF MayPass
      <4>5. x + 1 < k
        <5> HIDE DEF x, k, q
        <5> QED
          BY <1>3, <1>4, <4>1, <4>3
      <4> QED
        BY <4>4, <4>5
    <3>2. CASE D = p /\ \A y \in IndicesIn(slice, D) : MayStop(slice, D, y)
      <4>1. i + x \in IndicesIn(slice, D)
        <5>1. i + x \in i..(i + k - 1)
          <6> HIDE DEF i, x, k
          <6> QED
            BY <1>3, <1>4
        <5> QED
          BY <5>1 DEF IndicesIn
      <4>2. MayStop(slice, D, i + x)
        BY <3>2, <4>1
      <4>3. i + x = LastIndex(slice, D) <=> x + 1 = k
        <5>1. LastIndex(slice, D) = i + k - 1
          BY DEF LastIndex
        <5> HIDE DEF i, x, k
        <5> QED
          BY <1>3, <1>4, <5>1
      <4>4. ~(OneUpTo(slice, D - 1) /\ i + x = LastIndex(slice, D))
        BY <2>2, <4>3
      <4>5. ~Skipped(slice, D, i + x)
        BY <1>4, <2>8 DEF Skipped
      <4>6. IF Alone(slice, D, i + x) THEN i + x # LastIndex(slice, D) ELSE Full(slice, D)
        BY <4>2, <4>4, <4>5 DEF MayStop
      <4>7. CASE Alone(slice, D, i + x)
        <5>1. x + 1 < k
          <6>1. x + 1 # k
            BY <4>3, <4>6, <4>7
          <6> HIDE DEF x, k
          <6> QED
            BY <1>3, <1>4, <6>1
        <5>2. (i + x) + 1 \in IndicesIn(slice, D)
          <6>1. (i + x) + 1 \in i..(i + k - 1)
            <7> HIDE DEF i, x, k
            <7> QED
              BY <1>3, <1>4, <5>1
          <6> QED
            BY <6>1 DEF IndicesIn
        <5>3. ((i + x) + 1) \div z # (i + x) \div z
          <6>1. (i + x) + 1 # i + x
            <7> HIDE DEF i, x
            <7> QED
              BY <1>3, <1>4
          <6> QED
            BY <4>7, <5>2, <6>1 DEF Alone
        <5> HIDE DEF i, x, k, z, o, h, f, q, D
        <5> DEFINE y == i + x
                   m == y \div z
        <5>4. y \in Nat /\ m \in Nat /\ o = m * z /\ y + 1 \in Nat
          BY <1>3, <1>4, PartsOf
        <5>5. ~(m * z <= y + 1 /\ y + 1 < m * z + z)
          <6>1. (y + 1) \div z # m
            BY <5>3
          <6> HIDE DEF y, m
          <6> QED
            BY <1>3, <5>4, <6>1, InPart
        <5>6. m * z <= y /\ y < m * z + z
          <6>1. y \div z = m
            OBVIOUS
          <6> HIDE DEF y, m
          <6> QED
            BY <1>3, <5>4, <6>1, InPart
        <5> HIDE DEF m
        <5>7. o <= y /\ y + 1 = o + z
          <6>1. o <= y /\ y < o + z /\ ~(o <= y + 1 /\ y + 1 < o + z)
            BY <5>4, <5>5, <5>6
          <6>2. y \in Nat /\ o \in Nat /\ z \in Nat
            BY <1>3, <1>4, <5>4
          <6> HIDE DEF y
          <6> QED
            BY <6>1, <6>2
        <5>8. /\ o + q = (IF o + z < h THEN o + z ELSE h) /\ i + f = o + q
              /\ o \in Nat /\ q \in Nat /\ f \in Nat /\ x \in Nat
          BY <1>4 DEF Lesser
        <5>9. (i + x) + 1 = o + z
          BY <5>7
        <5>10. f = x + 1
          BY <1>3, <1>5, <5>1, <5>8, <5>9
        <5>11. Lesser(k, f) = x + 1
          BY <1>3, <5>1, <5>8, <5>10 DEF Lesser
        <5> QED
          BY <5>1, <5>11
      <4>8. CASE ~Alone(slice, D, i + x)
        <5>1. Full(slice, D)
          BY <4>6, <4>8
        <5>2. PICK y \in IndicesIn(slice, D) : y \div z = (i + x) \div z /\ y # i + x
          BY <4>8 DEF Alone
        <5>3. y \in i..(i + k - 1)
          BY <5>2 DEF IndicesIn
        <5>4. x = 0 \/ (i + x) % z = 0
          <6>1. StartsRun(slice, Begin)
            <7>1. InChunk
              BY DEF SupportedInv, Calling
            <7> QED
              BY <7>1 DEF InChunk
          <6>2. p > 0 /\ p = D
            BY <1>2, <3>2
          <6> HIDE DEF p
          <6> QED
            BY <6>1, <6>2 DEF StartsRun, p
        <5> HIDE DEF i, x, k, z, o, h, f, q, D
        <5>5. y \in Nat /\ i <= y /\ y <= i + (k - 1) /\ i + x \in Nat
          BY <1>3, <1>4, <5>3
        <5>6. CASE x = 0
          <6>1. i + x = i
            BY <1>3, <5>6
          <6>2. y # i
            BY <5>2, <6>1
          <6>3. x + 1 < k
            BY <1>3, <1>4, <5>5, <5>6, <6>2
          <6> QED
            BY <5>1, <6>3
        <5>7. CASE (i + x) % z = 0
          <6>1. i + x <= y
            <7> DEFINE t == i + x
                       a == (t \div z) * z
                       b == (y \div z) * z
            <7>1. t \in Nat /\ y \in Nat /\ y \div z = t \div z
              BY <5>2, <5>5
            <7> HIDE DEF t
            <7>2. t = a + (t % z) /\ y = b + (y % z) /\ y % z \in Nat /\ a = b /\ a \in Nat
              <8>1. t = a + (t % z)
                BY <1>3, <7>1, PartsOf
              <8>2. y = b + (y % z) /\ y % z \in Nat
                BY <1>3, <7>1, PartsOf
              <8>3. a = b
                BY <7>1
              <8>4. t \div z \in Nat /\ z \in Nat
                BY <1>3, <7>1, PartsOf
              <8>5. a \in Nat
                <9> DEFINE w == t \div z
                <9>1. w \in Nat
                  BY <8>4
                <9> HIDE DEF w
                <9>2. w * z \in Nat
                  BY <8>4, <9>1
                <9> QED
                  BY <9>2 DEF w
              <8> HIDE DEF a, b
              <8> QED
                BY <8>1, <8>2, <8>3, <8>5
            <7>3. t % z = 0
              BY <5>7 DEF t
            <7> HIDE DEF a, b
            <7>4. t <= y
              BY <7>2, <7>3
            <7> QED
              BY <7>4 DEF t
          <6>2. x + 1 < k
            <7>1. i + x < y
              BY <5>2, <5>5, <6>1
            <7> QED
              BY <1>3, <1>4, <5>5, <7>1
          <6> QED
            BY <5>1, <6>2
        <5> QED
          BY <5>4, <5>6, <5>7
      <4> QED
        BY <4>7, <4>8
    <3> QED
      BY <2>2, <2>6, <2>7, <3>1, <3>2
  <2> QED
    BY <1>2, <2>2, <2>4, <2>9
<1> QED
  BY <1>7, <1>8

\* The iterator's end is the number of values of the slice,
LEMMA EndIs ==
  ASSUME Proper(slice)
  PROVE  slice.end \in Nat /\ slice.end = Product(slice.counts)
<1>1. slice.counts \in Seq(Nat) /\ slice.end = Product(slice.counts)
  BY DEF Proper
<1> QED
  BY <1>1, ProductNat

\* which are these, one after the other.
LEMMA WantedIs ==
  ASSUME Proper(slice), NEW m \in 0..(slice.end - 1)
  PROVE  /\ Wanted[m + 1] = Location(slice.ds, ValueAt(slice, Unravel(m, slice.counts)))
         /\ slice.end \in Nat /\ slice.end > 0 /\ slice.end = Product(slice.counts)
<1> DEFINE c == slice.counts
           L(k) == LET o == Unravel(k - 1, c)
                   IN Location(slice.ds, [d \in 1..Len(c) |-> slice.indices[d] + o[d]])
<1>1. c \in Seq(Nat) /\ slice.end = Product(c)
  BY DEF Proper
<1>2. Product(c) \in Nat
  BY <1>1, ProductNat
<1>3. m + 1 \in 1..Product(c) /\ (m + 1) - 1 = m /\ slice.end > 0
  BY <1>1, <1>2
<1>4. Wanted = [k \in 1..Product(c) |-> L(k)]
  BY DEF Wanted, SliceOf
<1>5. L(m + 1) = Location(slice.ds, ValueAt(slice, Unravel(m, c)))
  <2>1. Unravel((m + 1) - 1, c) = Unravel(m, c)
    BY <1>3
  <2> QED
    BY <2>1 DEF ValueAt
<1> HIDE DEF L
<1>6. Wanted[m + 1] = L(m + 1)
  BY <1>3, <1>4
<1> QED
  BY <1>1, <1>2, <1>3, <1>5, <1>6

\* The coordinates y are those j steps in dimension d after x, if what is carried out of
\* the dimension is added.
IsAfter(y, s, x, d, j) ==
  /\ Fits(y, s.counts)
  /\ y[d] = (x[d] + j) % s.counts[d]
  /\ \A e \in 1..Len(s.counts) : e # d => y[e] = x[e]
  /\ (x[d] + j) \div s.counts[d] \in Nat
  /\ Place(y, s.counts) + ((x[d] + j) \div s.counts[d]) * Stride(s, d - 1)
       = Place(x, s.counts) + j * Stride(s, d)

\* A step in a dimension turns it like the wheel of an odometer.
LEMMA Turned ==
  ASSUME NEW s, Proper(s), s.end > 0, NEW x, Fits(x, s.counts),
         NEW d \in 1..Len(s.counts), NEW j \in Nat
  PROVE  IsAfter([x EXCEPT ![d] = (x[d] + j) % s.counts[d]], s, x, d, j)
<1> DEFINE c == s.counts
           n == Len(c)
           k == c[d]
           a == x[d]
           u == a + j
           r == u % k
           g == u \div k
           y == [x EXCEPT ![d] = r]
           S == Stride(s, d)
           T == Stride(s, d - 1)
<1>1. n \in Nat /\ c \in Seq(Nat) /\ c \in Seq(Nat \ {0}) /\ k \in Nat \ {0} /\ d \in 1..n
  BY Ranks, Strides
<1>2. x \in Seq(Nat) /\ Len(x) = n /\ a \in Nat
  BY DEF Fits
<1>3. S \in Nat \ {0} /\ T \in Nat \ {0}
  <2>1. d \in 0..n /\ d - 1 \in 0..n
    BY <1>1
  <2> QED
    BY <2>1, Strides
<1>4. T = SuffixProducts(c)[d] /\ S = SuffixProducts(c)[d + 1]
  <2>1. (d - 1) + 1 = d
    BY <1>1
  <2> QED
    BY <2>1 DEF Stride
<1>5. u \in Nat /\ r \in Nat
  <2>1. u \in Nat
    BY <1>2
  <2> HIDE DEF u, k
  <2>2. u % k \in Nat
    BY <1>1, <2>1
  <2> QED
    BY <2>1, <2>2
<1>6. /\ y \in Seq(Nat) /\ Len(y) = n /\ y[d] = r
      /\ \A e \in 1..n : e # d => y[e] = x[e]
  <2> HIDE DEF r, n
  <2> QED
    BY <1>1, <1>2, <1>5, Digit
<1> HIDE DEF y
<1>7. /\ Fits(y, c) /\ g \in Nat
      /\ Place(y, c) + g * SuffixProducts(c)[d] + a * SuffixProducts(c)[d + 1]
           = Place(x, c) + u * SuffixProducts(c)[d + 1]
  <2> HIDE DEF c, u
  <2>1. Fits(x, c) /\ d \in 1..Len(c) /\ Len(y) = Len(c) /\ y[d] = u % c[d]
    BY <1>1, <1>6 DEF c
  <2>2. \A e \in 1..Len(c) : e # d => y[e] = x[e]
    BY <1>6
  <2>3. u \in Nat /\ y \in Seq(Nat)
    BY <1>5, <1>6
  <2> QED
    <3>1. IsTurned(y, x, d, u, c)
      BY <1>1, <2>1, <2>2, <2>3, CarriedOver
    <3> QED
      BY <3>1 DEF IsTurned
<1> DEFINE Y == Place(y, c)
           X == Place(x, c)
<1>8. Y \in Nat /\ X \in Nat
  <2>1. Y \in 0..(Product(c) - 1) /\ X \in 0..(Product(c) - 1)
    BY <1>1, <1>7, PlaceBelow
  <2> QED
    BY <2>1
<1>9. Y + g * T = X + j * S
  <2>1. Y + g * T + a * S = X + u * S
    BY <1>4, <1>7
  <2> HIDE DEF Y, X, g, S, T, a
  <2>2. u * S = a * S + j * S /\ a * S \in Nat /\ j * S \in Nat
    <3>1. S \in Nat \ {0} /\ a \in Nat /\ j \in Nat
      BY <1>2, <1>3
    <3>2. (a + j) * S = a * S + j * S /\ a * S \in Nat
      BY <3>1, ScaledBy
    <3>3. j * S \in Nat
      BY <3>1, ScaledBy
    <3> QED
      BY <3>2, <3>3
  <2>3. g * T \in Nat
    <3>1. g \in Nat /\ T \in Nat
      BY <1>3, <1>7
    <3> QED
      BY <3>1
  <2> DEFINE A == a * S
             B == j * S
             C == g * T
  <2>4. Y + C + A = X + (A + B) /\ A \in Nat /\ B \in Nat /\ C \in Nat
    BY <2>1, <2>2, <2>3
  <2> HIDE DEF A, B, C
  <2>5. Y + C = X + B
    BY SMTT(30), <1>8, <2>4
  <2> QED
    BY <2>5 DEF B, C
<1> QED
  BY <1>6, <1>7, <1>9 DEF y, IsAfter

\* A pass goes on to u in the dimension, diff values further: all that the call has
\* advanced over is consecutive in the chunk, and the coordinates y, with what is carried
\* out of the dimension, name the value after it.
AdvancesTo(u, diff, y) ==
  LET k == slice.counts[Dim]
  IN /\ u \in Nat /\ u > Begin[Dim] /\ u >= Carried(Dim) % k /\ Carried(Dim) \div k = 0
     /\ diff \in Nat /\ advance + diff > 0
     /\ advance + diff = (u - Begin[Dim]) * Stride(slice, Dim)
     /\ offset + diff <= slice.end
     /\ chunk_start + (advance + diff) <= Product(slice.ds.chunk_shape)
     /\ \A j \in 0..((advance + diff) - 1) :
          Wanted[(offset - advance) + j + 1] = [addr |-> chunk.addr, at |-> chunk_start + j]
     /\ Fits(y, slice.counts) /\ u \div k \in Nat
     /\ y[Dim] = u % k /\ \A e \in 1..Rank : e # Dim => y[e] = Begin[e]
     /\ Place(y, slice.counts) + (u \div k) * Stride(slice, Dim - 1) = offset + diff

\* A pass that advances does.
LEMMA AdvanceTo ==
  ASSUME Proper(slice), Supported(slice), SupportedInv, pc = "loop", Passing, di < Rank,
         ~(ChunkSz(Dim) = 1 /\ slice.ds.chunk_dim_sz[Dim] # 1),
         NEW u, u = Lesser(slice.counts[Dim], CountChunkEnd(Dim)),
         NEW diff, diff = (u - (Carried(Dim) % slice.counts[Dim])) * slice.ds.chunk_dim_sz[Dim],
         NEW y, y = [offset_coords EXCEPT ![Dim] = u % slice.counts[Dim]]
  PROVE  AdvancesTo(u, diff, y)
<1> DEFINE n == Rank
           D == Dim
           i == slice.indices[D]
           z == slice.ds.chunk_shape[D]
           h == slice.ds.shape[D]
           k == slice.counts[D]
           o == chunk.offset[D]
           x == Begin[D]
           f == CountChunkEnd(D)
           q == ChunkSz(D)
           S == Stride(slice, D)
           v == slice.ds.chunk_dim_sz[D]
           P == Place(Begin, slice.counts)
<1>1. n \in Nat \ {0} /\ n = Len(slice.counts) /\ slice.counts \in Seq(Nat \ {0}) /\ slice.end > 0
  BY InCall, Strides DEF Rank
<1>2. /\ D \in 1..n /\ D >= Innermost(slice)
      /\ carry \in {0, 1} /\ advance = carry * S
      /\ x + carry < k
      /\ Full(slice, D) \/ Lesser(k, f) = x + carry
  BY AdvancePass
<1>3. i \in Nat /\ z \in Nat \ {0} /\ h \in Nat /\ k \in Nat \ {0}
  BY <1>1, <1>2, Ranks, Strides
<1>4. /\ x \in Nat /\ x < k /\ o \in Nat /\ q \in Nat /\ f \in Nat
      /\ o + q = Lesser(o + z, h) /\ i + f = o + q /\ x < f
  BY <1>2, InCall
<1>5. Fits(Begin, slice.counts) /\ P = offset - advance
  BY InCall
<1>6. S \in Nat \ {0} /\ v \in Nat
  <2>1. D \in 0..Len(slice.counts)
    BY <1>1, <1>2
  <2> QED
    BY <1>1, <1>2, <2>1, Strides, ChunkStrides
<1>7. offset \in Nat /\ advance \in Nat /\ chunk_start \in Nat /\ offset <= slice.end
      /\ slice.end \in Nat /\ P \in Nat /\ P + advance = offset
  <2>1. offset \in 0..slice.end /\ advance \in Nat /\ chunk_start \in Nat
        /\ offset - advance \in 0..(slice.end - 1)
    BY DEF SupportedInv, Calling
  <2>2. slice.end \in Nat
    BY <1>1, Strides
  <2> QED
    BY <1>5, <2>1, <2>2
<1>8. Carried(D) = x + carry
  BY DEF Passing, Carried
<1>9. Carried(D) % k = x + carry /\ Carried(D) \div k = 0
  <2> DEFINE a == x + carry
  <2>1. a \in Nat /\ a < k
    BY <1>2, <1>4
  <2> HIDE DEF a, k
  <2>2. a % k = a /\ a \div k = 0
    BY <1>3, <2>1
  <2> QED
    BY <1>8, <2>2 DEF a
<1>10. u \in Nat /\ u > x /\ u >= x + carry /\ u <= k /\ u <= f
  <2>1. u = IF k < f THEN k ELSE f
    BY DEF Lesser
  <2> HIDE DEF k, f, x
  <2> QED
    BY <1>2, <1>3, <1>4, <2>1
<1>11. diff = (u - (x + carry)) * v
  BY <1>9
<1> DEFINE w == u - (x + carry)
           j == u - x
<1>12. w \in Nat /\ j \in Nat /\ j > 0 /\ j = w + carry /\ x + j = u
  <2> HIDE DEF x
  <2> QED
    BY <1>2, <1>4, <1>10
<1>13. diff = w * S
  <2>1. CASE Full(slice, D)
    <3>1. D \in 1..Len(slice.counts) /\ D \in D..Len(slice.counts)
      BY <1>1, <1>2
    <3>2. S = v
      BY <2>1, <3>1, FullStrides
    <3> QED
      BY <1>11, <3>2
  <2>2. CASE Lesser(k, f) = x + carry
    <3>1. w = 0
      <4>1. u = x + carry
        BY <2>2
      <4>2. x \in Nat /\ carry \in Nat
        BY <1>2, <1>4
      <4> HIDE DEF x
      <4> QED
        BY <4>1, <4>2
    <3>2. diff = w * v
      BY <1>11
    <3> HIDE DEF w, S, v
    <3> QED
      BY <1>6, <3>1, <3>2
  <2> QED
    BY <1>2, <2>1, <2>2
<1>14. diff \in Nat /\ advance + diff = j * S /\ j * S \in Nat /\ j * S > 0
  <2> HIDE DEF w, S, j
  <2>1. carry \in Nat /\ S \in Nat \ {0}
    BY <1>2, <1>6
  <2>2. (w + carry) * S = w * S + carry * S /\ w * S \in Nat /\ carry * S \in Nat
    BY <1>12, <2>1, ScaledBy
  <2>3. j * S \in Nat \ {0}
    <3>1. j \in Nat \ {0}
      BY <1>12
    <3> QED
      BY <2>1, <3>1, Positive
  <2> DEFINE a == w * S
             b == carry * S
             g == j * S
  <2>4. g = a + b /\ a \in Nat /\ b \in Nat /\ g \in Nat \ {0} /\ diff = a /\ advance = b
    BY <1>2, <1>12, <1>13, <2>2, <2>3
  <2> HIDE DEF a, b, g
  <2>5. diff \in Nat /\ advance + diff = g /\ g \in Nat /\ g > 0
    BY <2>4
  <2> QED
    BY <2>5 DEF g
<1> DEFINE A == advance + diff
<1>15. A \in Nat /\ A > 0 /\ offset + diff = P + A
  <2> HIDE DEF P
  <2> QED
    BY <1>7, <1>14
<1>16. /\ offset + diff <= slice.end
       /\ chunk_start + A <= Product(slice.ds.chunk_shape)
       /\ \A m \in 0..(A - 1) :
            Wanted[(offset - advance) + m + 1] = [addr |-> chunk.addr, at |-> chunk_start + m]
  <2>1. CASE Full(slice, D)
    <3> DEFINE c == ChunkAtCoord(slice.ds, ValueAt(slice, Begin))
    <3>1. chunk = c /\ chunk_start = ChunkStart(ValueAt(slice, Begin), c.offset, slice.ds.chunk_dim_sz)
      BY DEF SupportedInv, Calling, InChunk
    <3>2. \A e \in (D + 1)..Len(slice.counts) : Begin[e] = 0 /\ c.offset[e] = slice.indices[e]
      <4> SUFFICES ASSUME NEW e \in (D + 1)..Len(slice.counts)
                   PROVE  Begin[e] = 0 /\ chunk.offset[e] = slice.indices[e]
        BY <3>1
      <4>1. e \in 1..Rank /\ e > D
        BY <1>1, <1>2
      <4>2. Innermost(slice) \in Nat
        BY <1>1, InnermostIs
      <4>3. e > Innermost(slice)
        BY <1>1, <1>2, <4>1, <4>2
      <4> QED
        BY <4>1, <4>3, CoversIt
    <3>3. x + j <= k
      <4> HIDE DEF x, j, k
      <4> QED
        BY <1>10, <1>12
    <3>4. i + x + j <= c.offset[D] + z
      <4>1. c.offset[D] = o
        BY <3>1
      <4>2. o + q <= o + z
        <5>1. o + q = IF o + z < h THEN o + z ELSE h
          BY <1>4 DEF Lesser
        <5> HIDE DEF o, q, z, h
        <5> QED
          BY <1>3, <1>4, <5>1
      <4> HIDE DEF i, x, j, o, z, q, f
      <4>3. i + x + j = i + u
        BY <1>3, <1>4, <1>12
      <4> QED
        BY <1>3, <1>4, <1>10, <4>1, <4>2, <4>3
    <3>5. A = j * S
      BY <1>14
    <3>6. ASSUME NEW m \in 0..(A - 1)
          PROVE  /\ P + m < slice.end
                 /\ Location(slice.ds, ValueAt(slice, Unravel(P + m, slice.counts)))
                      = [addr |-> chunk.addr, at |-> chunk_start + m]
                 /\ chunk_start + m < Product(slice.ds.chunk_shape)
      <4>1. D \in 1..Len(slice.counts)
        BY <1>1, <1>2
      <4>2. m \in 0..(j * S - 1)
        BY <3>5
      <4>3. x + j <= slice.counts[D] /\ slice.indices[D] + x + j <= c.offset[D] + slice.ds.chunk_shape[D]
        BY <3>3, <3>4
      <4> HIDE DEF D, j, c
      <4>4. /\ P + m < slice.end
            /\ Location(slice.ds, ValueAt(slice, Unravel(P + m, slice.counts)))
                 = [addr |-> c.addr,
                    at |-> ChunkStart(ValueAt(slice, Begin), c.offset, slice.ds.chunk_dim_sz) + m]
            /\ ChunkStart(ValueAt(slice, Begin), c.offset, slice.ds.chunk_dim_sz) + m
                 < Product(slice.ds.chunk_shape)
        BY <1>1, <1>5, <1>12, <2>1, <3>2, <4>1, <4>2, <4>3, Block DEF c
      <4> QED
        BY <3>1, <4>4
    <3>7. A - 1 \in 0..(A - 1)
      <4> HIDE DEF A
      <4> QED
        BY <1>15
    <3>8. offset + diff <= slice.end /\ chunk_start + A <= Product(slice.ds.chunk_shape)
      <4>1. P + (A - 1) < slice.end /\ chunk_start + (A - 1) < Product(slice.ds.chunk_shape)
        BY <3>6, <3>7
      <4>2. Product(slice.ds.chunk_shape) \in Int
        <5>1. slice.ds.chunk_shape \in Seq(Nat)
          BY Ranks
        <5> QED
          BY <5>1, ProductNat
      <4> HIDE DEF A, P
      <4> QED
        BY <1>7, <1>15, <4>1, <4>2
    <3>9. ASSUME NEW m \in 0..(A - 1)
          PROVE  Wanted[(offset - advance) + m + 1] = [addr |-> chunk.addr, at |-> chunk_start + m]
      <4>1. P + m \in 0..(slice.end - 1)
        <5>1. P + m < slice.end
          BY <3>6
        <5> HIDE DEF A, P
        <5> QED
          BY <1>7, <1>15, <5>1
      <4>2. (offset - advance) + m + 1 = (P + m) + 1
        <5>1. m \in Nat
          OBVIOUS
        <5> HIDE DEF P
        <5> QED
          BY <1>5, <1>7, <5>1
      <4> QED
        BY <3>6, <4>1, <4>2, WantedIs
    <3> QED
      BY <3>8, <3>9
  <2>2. CASE Lesser(k, f) = x + carry
    <3>1. w = 0
      <4>1. u = x + carry
        BY <2>2
      <4>2. x \in Nat /\ carry \in Nat
        BY <1>2, <1>4
      <4> HIDE DEF x
      <4> QED
        BY <4>1, <4>2
    <3>2. diff = 0
      <4> HIDE DEF w, S
      <4> QED
        BY <1>6, <1>13, <3>1
    <3>3. A = advance /\ offset + diff = offset
      BY <1>7, <3>2
    <3>4. Consecutive
      BY DEF SupportedInv, Calling
    <3> QED
      BY <1>7, <3>3, <3>4 DEF Consecutive
  <2> QED
    BY <1>2, <2>1, <2>2
<1>17. /\ Fits(y, slice.counts) /\ u \div k \in Nat
       /\ y[D] = u % k /\ \A e \in 1..n : e # D => y[e] = Begin[e]
       /\ Place(y, slice.counts) + (u \div k) * Stride(slice, D - 1) = P + j * S
  <2>1. u = x + j /\ j \in Nat /\ D \in 1..Len(slice.counts)
    <3>1. u = x + j
      <4> HIDE DEF x, j
      <4> QED
        BY <1>12
    <3> QED
      BY <1>1, <1>2, <1>12, <3>1
  <2>2. y = [Begin EXCEPT ![D] = (x + j) % k]
    <3>1. y = [Begin EXCEPT ![D] = u % k]
      BY DEF Passing
    <3> HIDE DEF x, j, D, k
    <3> QED
      BY <2>1, <3>1
  <2> DEFINE t == [Begin EXCEPT ![D] = (x + j) % k]
             B == Begin
  <2> HIDE DEF D, j, B
  <2>3. IsAfter(t, slice, B, D, j)
    BY <1>1, <1>5, <2>1, Turned DEF B
  <2> HIDE DEF t
  <2>4. y = t
    BY <2>2 DEF t, B
  <2> QED
    BY <1>1, <2>1, <2>3, <2>4 DEF IsAfter, B
<1>18. P + j * S = offset + diff
  BY <1>14, <1>15
<1> QED
  BY <1>9, <1>10, <1>12, <1>14, <1>15, <1>16, <1>17, <1>18 DEF AdvancesTo

-------------------------------------------------------------------------------
(*****************************************************************************)
(* Every step keeps the invariant.                                         *)
(***************************************************************************)
\* What a call that goes on in the loop has in common before and after a step.
LEMMA SameCall ==
  ASSUME Proper(slice), SupportedInv, pc \in {"loop", "carry", "return"},
         UNCHANGED <<slice, chunk, chunk_start, emitted>>,
         offset' \in Nat, advance' \in Nat, offset' - advance' = offset - advance
  PROVE  /\ Rank' = Rank /\ Rank > 0 /\ Begin' = Begin
         /\ offset' - advance' \in 0..(slice.end - 1)
         /\ emitted' = Prefix(offset - advance)' /\ chunk_start' \in Nat
<1>1. Rank' = Rank /\ Begin' = Begin
  BY DEF Rank, Begin
<1>2. Calling /\ emitted = Prefix(offset - advance) /\ chunk_start \in Nat
  <2>1. pc # "next" /\ pc # "done"
    OBVIOUS
  <2> QED
    BY <2>1 DEF SupportedInv
<1>3. Prefix(offset - advance)' = Prefix(offset - advance)
  BY DEF Prefix, Wanted
<1> QED
  BY <1>1, <1>2, <1>3 DEF Calling

\* A pass that advances: the loop goes on with the coordinates where the call began, or it
\* ends at the innermost dimension that is covered only partly.
LEMMA PassAdvanceKeeps ==
  ASSUME Proper(slice), Supported(slice), SupportedInv, PassAdvance
  PROVE  SupportedInv'
<1> DEFINE n == Rank
           D == Dim
           p == Innermost(slice)
           k == slice.counts[D]
           f == CountChunkEnd(D)
           u == Lesser(k, f)
           cur == Carried(D) % k
           diff == (u - cur) * slice.ds.chunk_dim_sz[D]
           y == [offset_coords EXCEPT ![D] = u % k]
           x == Begin[D]
           A == advance + diff
<1>1. /\ pc = "loop" /\ di < n
      /\ ~(ChunkSz(D) = 1 /\ slice.ds.chunk_dim_sz[D] # 1)
  BY DEF PassAdvance
<1>2. /\ n \in Nat \ {0} /\ n = Len(slice.counts) /\ di \in 0..n /\ D \in 1..n
      /\ slice.end > 0 /\ slice.end \in Nat
      /\ \A d \in 1..n : slice.counts[d] \in Nat \ {0}
  <2>1. n \in Nat \ {0} /\ n = Len(slice.counts) /\ di \in 0..n /\ slice.end > 0
    BY <1>1, InCall DEF Rank, SupportedInv
  <2>2. D \in 1..n
    BY <1>1, <2>1 DEF Dim
  <2> QED
    BY <2>1, <2>2, Strides
<1>3. Passing
  <2>1. Passing \/ Skipping
    BY <1>1 DEF SupportedInv, Calling
  <2>2. D \in 1..Dim
    BY <1>2
  <2>3. ~Skipping
    <3> SUFFICES ASSUME Skipping PROVE FALSE
      OBVIOUS
    <3>1. \A e \in 1..Dim : ChunkSz(e) = 1 /\ slice.ds.chunk_dim_sz[e] # 1
      BY DEF Skipping
    <3> QED
      BY <1>1, <2>2, <3>1
  <2> QED
    BY <2>1, <2>3
<1>4. /\ u \in Nat /\ u > x /\ u >= cur /\ Carried(D) \div k = 0
      /\ diff \in Nat /\ A > 0
      /\ A = (u - x) * Stride(slice, D)
      /\ offset + diff <= slice.end
      /\ chunk_start + A <= Product(slice.ds.chunk_shape)
      /\ \A j \in 0..(A - 1) :
           Wanted[(offset - advance) + j + 1] = [addr |-> chunk.addr, at |-> chunk_start + j]
      /\ Fits(y, slice.counts) /\ u \div k \in Nat
      /\ y[D] = u % k /\ \A e \in 1..n : e # D => y[e] = Begin[e]
      /\ Place(y, slice.counts) + (u \div k) * Stride(slice, D - 1) = offset + diff
  <2> DEFINE v == u
             w == diff
             z == y
  <2>1. /\ v = Lesser(slice.counts[Dim], CountChunkEnd(Dim))
        /\ w = (v - (Carried(Dim) % slice.counts[Dim])) * slice.ds.chunk_dim_sz[Dim]
        /\ z = [offset_coords EXCEPT ![Dim] = v % slice.counts[Dim]]
    OBVIOUS
  <2> HIDE DEF v, w, z
  <2>2. AdvancesTo(v, w, z)
    BY <1>1, <1>3, <2>1, AdvanceTo
  <2> QED
    BY <2>2 DEF AdvancesTo, v, w, z
<1>5. f \in Nat /\ x \in Nat
  BY <1>1, <1>2, InCall
<1>6. offset \in Nat /\ advance \in Nat /\ chunk_start \in Nat
  BY <1>2 DEF SupportedInv
<1>7. /\ offset_coords' = y /\ carry' = u \div k /\ advance' = A /\ offset' = offset + diff
      /\ di' = di + 1 /\ UNCHANGED <<slice, chunk, chunk_start, emitted>>
      /\ pc' = IF CoversChunk(D) /\ offset' < slice.end THEN "loop" ELSE "carry"
  <2>1. ~(f < 0 \/ u < cur)
    <3>1. ~(f < 0)
      <4> HIDE DEF f
      <4> QED
        BY <1>5
    <3>2. cur \in Nat
      <4> DEFINE a == Carried(D)
      <4>1. a \in Nat
        <5>1. offset_coords[D] = x /\ carry \in Nat
          BY <1>3 DEF Passing
        <5>2. a = x + carry
          BY <5>1 DEF Carried
        <5> HIDE DEF x
        <5> QED
          BY <1>5, <5>1, <5>2
      <4>2. k \in Nat \ {0}
        BY <1>2
      <4> HIDE DEF a, k
      <4>3. a % k \in Nat
        BY <4>1, <4>2
      <4> QED
        BY <4>3 DEF a
    <3> HIDE DEF u, cur, f
    <3> QED
      BY <1>4, <3>1, <3>2
  <2>2. /\ offset_coords' = y
        /\ carry' = (Carried(D) \div k) + (u \div k)
        /\ advance' = advance + diff
        /\ offset' = offset + diff
        /\ di' = di + 1
        /\ pc' = IF CoversChunk(D) /\ offset + diff < slice.end THEN "loop"
                 ELSE IF offset + diff > slice.end THEN "panicked"
                 ELSE "carry"
        /\ UNCHANGED <<slice, chunk, chunk_start, emitted>>
    <3> HIDE DEF D
    <3> QED
      BY <2>1 DEF PassAdvance, D
  <2>3. carry' = u \div k
    <3> DEFINE g == u \div k
    <3>1. carry' = 0 + g /\ g \in Nat
      BY <1>4, <2>2
    <3> HIDE DEF g
    <3>2. carry' = g
      BY <3>1
    <3> QED
      BY SMTT(30), <3>2 DEF g
  <2>4. ~(offset + diff > slice.end)
    <3> HIDE DEF diff
    <3> QED
      BY <1>2, <1>4, <1>6
  <2> QED
    BY <2>2, <2>3, <2>4
<1> HIDE DEF diff, cur
<1>8. /\ offset' \in 0..slice.end /\ advance' \in Nat /\ advance' > 0
      /\ offset' - advance' = offset - advance
  BY <1>2, <1>4, <1>6, <1>7
<1>9. /\ Rank' = Rank /\ Rank > 0 /\ Begin' = Begin
      /\ offset' - advance' \in 0..(slice.end - 1)
      /\ emitted' = Prefix(offset - advance)' /\ chunk_start' \in Nat
  <2>1. offset' \in Nat
    BY <1>2, <1>8
  <2>2. /\ Rank' = Rank /\ Rank > 0 /\ Begin' = Begin
        /\ offset' - advance' \in 0..(slice.end - 1)
        /\ emitted' = Prefix(offset - advance)' /\ chunk_start' \in Nat
    BY <1>1, <1>7, <1>8, <2>1, SameCall
  <2> QED
    BY <2>2
<1>10. Consecutive'
  <2>1. chunk_start + A <= Product(slice.ds.chunk_shape)
        /\ \A j \in 0..(A - 1) :
             Wanted[(offset - advance) + j + 1] = [addr |-> chunk.addr, at |-> chunk_start + j]
    BY <1>4
  <2>2. Wanted' = Wanted
    BY <1>7 DEF Wanted
  <2> HIDE DEF A
  <2> QED
    BY <1>7, <1>8, <2>1, <2>2 DEF Consecutive
<1>11. Dim' = D - 1
  BY <1>2, <1>7, <1>9 DEF Dim
<1>12. Odometer'
  <2>1. Fits(y, slice.counts) /\ carry' \in Nat
        /\ Place(y, slice.counts) + carry' * Stride(slice, D - 1) = offset'
    BY <1>4, <1>7
  <2>2. Stride(slice, Dim)' = Stride(slice, D - 1)
    <3> HIDE DEF D
    <3> QED
      BY <1>7, <1>11
  <2>3. Place(offset_coords', slice'.counts) + carry' * Stride(slice, Dim)' = offset'
        /\ Fits(offset_coords', slice'.counts)
    <3> DEFINE T == Stride(slice, D - 1)
    <3>1. Stride(slice, Dim)' = T /\ Place(y, slice.counts) + carry' * T = offset'
      BY <2>1, <2>2
    <3> HIDE DEF T, y
    <3> QED
      BY <1>7, <2>1, <3>1
  <2> HIDE DEF y
  <2> QED
    BY <2>1, <2>3 DEF Odometer
<1>13. \A e \in 1..n : e > p => e = D \/ y[e] = Begin[e]
  BY <1>4
<1>14. p \in 0..n /\ D >= p /\ (p > 0 => ~Covers(slice, p))
  BY <1>1, <1>2, <1>3, InnermostIs, AdvancePass
<1>15. ASSUME D > p
       PROVE  x = 0 /\ k = f /\ CoversChunk(D) /\ y = Begin /\ carry' = 1 /\ advance' = Stride(slice, D - 1)
  <2>1. x = 0 /\ k = f /\ CoversChunk(D)
    BY <1>1, <1>2, <1>15, CoversIt
  <2>2. u = k
    <3> HIDE DEF k, f
    <3> QED
      BY <1>5, <2>1 DEF Lesser
  <2>3. k \in Nat \ {0}
    BY <1>2
  <2>4. u % k = 0 /\ u \div k = 1
    <3> HIDE DEF k, u
    <3> QED
      BY <2>2, <2>3
  <2>5. y = Begin
    <3>1. Fits(Begin, slice.counts) /\ Fits(y, slice.counts)
      BY <1>1, <1>4, InCall
    <3>2. Begin \in Seq(Nat) /\ y \in Seq(Nat) /\ Len(Begin) = n /\ Len(y) = n
      BY <1>2, <3>1 DEF Fits
    <3>3. \A e \in 1..n : y[e] = Begin[e]
      <4> HIDE DEF y
      <4>1. y[D] = Begin[D]
        BY <1>4, <2>1, <2>4
      <4> QED
        BY <1>4, <4>1
    <3> HIDE DEF y, n
    <3> QED
      BY <3>2, <3>3
  <2>6. A = k * Stride(slice, D)
    <3>1. u - x = k
      <4> HIDE DEF u, x, k
      <4> QED
        BY <2>1, <2>2, <2>3
    <3>2. A = (u - x) * Stride(slice, D)
      BY <1>4
    <3> QED
      BY <3>1, <3>2
  <2>7. Stride(slice, D - 1) = k * Stride(slice, D)
    BY <1>2, Strides
  <2> QED
    BY <1>7, <2>1, <2>4, <2>5, <2>6, <2>7
<1>16. offset' < slice.end => pc' = "loop" \/ D = p
  <2>1. D > p \/ D = p
    BY <1>2, <1>14
  <2> QED
    BY <1>7, <1>15, <2>1
<1>17. InChunk
  BY <1>1 DEF SupportedInv, Calling
<1>18. ASSUME pc' = "loop"
       PROVE  offset' < slice'.end /\ InChunk' /\ Passing'
  <2>1. CoversChunk(D) /\ offset' < slice.end
    BY <1>7, <1>18
  <2>2. D > p
    <3>1. Covers(slice, D)
      BY <1>1, <1>2, <2>1, CoversIt
    <3>2. D # p
      BY <1>2, <1>14, <3>1
    <3> HIDE DEF D, p
    <3> QED
      BY <1>2, <1>14, <3>2
  <2>3. y = Begin /\ carry' = 1 /\ advance' = Stride(slice, D - 1)
    BY <1>15, <2>2
  <2>4. Passing'
    <3>1. offset_coords' = Begin'
      BY <1>7, <1>9, <2>3
    <3>2. di' > 0
      BY <1>2, <1>7
    <3>3. Dim' >= Innermost(slice)'
      <4>1. Innermost(slice)' = p
        BY <1>7
      <4>2. D - 1 >= p
        <5> HIDE DEF D, p
        <5> QED
          BY <1>2, <1>14, <2>2
      <4> QED
        BY <1>11, <4>1, <4>2
    <3>4. advance' = Stride(slice, Dim)'
      <4>1. Stride(slice, Dim)' = Stride(slice, D - 1)
        <5> HIDE DEF D
        <5> QED
          BY <1>7, <1>11
      <4> QED
        BY <2>3, <4>1
    <3> QED
      BY <2>3, <3>1, <3>2, <3>3, <3>4 DEF Passing
  <2>5. InChunk'
    BY <1>7, <1>9, <1>17 DEF InChunk
  <2> QED
    BY <1>7, <2>1, <2>4, <2>5
<1>19. ASSUME pc' = "carry", offset' < slice.end
       PROVE  Dim' < Innermost(slice)' /\ StartsRun(slice, offset_coords)'
  <2>1. D = p /\ p > 0
    BY <1>2, <1>16, <1>19
  <2>2. Dim' < Innermost(slice)'
    <3>1. Innermost(slice)' = p
      BY <1>7
    <3>2. D - 1 < p
      BY <1>2, <2>1
    <3> QED
      BY <1>11, <3>1, <3>2
  <2>3. \A e \in (p + 1)..Len(slice.counts) : y[e] = 0
    <3> SUFFICES ASSUME NEW e \in (p + 1)..Len(slice.counts) PROVE y[e] = 0
      OBVIOUS
    <3>1. e \in 1..n /\ e # D /\ e > p
      BY <1>2, <1>14, <2>1
    <3>2. Begin[e] = 0
      BY <1>1, <3>1, CoversIt
    <3> HIDE DEF y
    <3> QED
      BY <1>4, <3>1, <3>2
  <2>4. y[p] = 0 \/ (slice.indices[p] + y[p]) % slice.ds.chunk_shape[p] = 0
    <3> DEFINE i == slice.indices[D]
               z == slice.ds.chunk_shape[D]
               h == slice.ds.shape[D]
               o == chunk.offset[D]
               q == ChunkSz(D)
    <3>1. i \in Nat /\ z \in Nat \ {0} /\ h \in Nat /\ k \in Nat \ {0} /\ i + k <= h
      <4>1. D \in 1..Len(slice.counts)
        BY <1>2
      <4> QED
        BY <1>2, <4>1, Ranks DEF Proper
    <3>2. /\ o \in Nat /\ q \in Nat /\ o % z = 0
          /\ o + q = (IF o + z < h THEN o + z ELSE h) /\ i + f = o + q
      BY <1>1, <1>2, InCall DEF Lesser
    <3>3. y[D] = u % k
      BY <1>4
    <3>4. u = IF k < f THEN k ELSE f
      BY DEF Lesser
    <3> HIDE DEF i, z, h, o, q, k, f, u
    <3>5. CASE u = k
      <4>1. u % k = 0
        BY <3>1, <3>5
      <4> QED
        BY <2>1, <3>3, <4>1
    <3>6. CASE u # k
      <4>1. u = f /\ f < k
        BY <1>5, <3>1, <3>4, <3>6
      <4>2. u % k = f
        BY <1>5, <3>1, <4>1
      <4>3. i + f = o + z
        BY <1>5, <3>1, <3>2, <4>1
      <4>4. (o + z) % z = 0
        <5>1. o = (o \div z) * z + 0 /\ o \div z \in Nat
          BY <3>1, <3>2, PartsOf
        <5> DEFINE m == o \div z
        <5> HIDE DEF m
        <5>2. m \in Nat /\ o = m * z
          <6>1. o = m * z + 0 /\ m \in Nat
            BY <5>1 DEF m
          <6> QED
            BY <3>1, <6>1
        <5>3. (m + 1) * z = m * z + 1 * z /\ 1 * z = z
          BY <3>1, <5>2, ScaledBy
        <5>4. ((m + 1) * z + 0) % z = 0
          <6>1. m + 1 \in Int /\ 0 \in 0..(z - 1)
            BY <3>1, <5>2
          <6> QED
            BY <3>1, <6>1, Parts
        <5> DEFINE a == (m + 1) * z
        <5>5. a = o + z
          BY <5>2, <5>3
        <5>6. a + 0 = a
          BY <3>1, <3>2, <5>5
        <5> QED
          BY <5>4, <5>5, <5>6
      <4>5. (i + y[D]) % z = 0
        BY <3>3, <4>2, <4>3, <4>4
      <4> QED
        BY <2>1, <4>5 DEF i, z
    <3> QED
      BY <3>5, <3>6
  <2>5. StartsRun(slice, y)
    <3> HIDE DEF y
    <3> QED
      BY <2>3, <2>4 DEF StartsRun
  <2>6. StartsRun(slice, offset_coords)'
    <3> HIDE DEF y
    <3> QED
      BY <1>7, <2>5
  <2> QED
    BY <2>2, <2>6
<1>20. pc' \in {"loop", "carry"}
  BY <1>7
<1>21. Calling'
  <2>1. offset' - advance' \in 0..(slice'.end - 1) /\ Rank' > 0
    BY <1>7, <1>9
  <2>2. pc' = "loop" => offset' < slice'.end /\ InChunk' /\ (Passing' \/ Skipping')
    BY <1>18
  <2>3. pc' = "carry" =>
          /\ advance' > 0 /\ Odometer'
          /\ offset' < slice'.end => Dim' < Innermost(slice)' /\ StartsRun(slice, offset_coords)'
    BY <1>7, <1>8, <1>12, <1>19
  <2>4. pc' # "return"
    BY <1>20
  <2> QED
    BY <1>10, <2>1, <2>2, <2>3, <2>4 DEF Calling
<1>22. di' \in 0..Rank'
  BY <1>1, <1>2, <1>7, <1>9
<1>23. offset' \in 0..slice'.end
  BY <1>7, <1>8
<1> QED
  BY <1>8, <1>9, <1>20, <1>21, <1>22, <1>23 DEF SupportedInv

\* Where a run begins as far as the coordinates up to dimension d change.
LEMMA StartKept ==
  ASSUME Proper(slice), NEW x, NEW y, NEW d \in 1..Len(slice.counts),
         d < Innermost(slice), StartsRun(slice, x),
         \A e \in 1..Len(slice.counts) : e # d => y[e] = x[e]
  PROVE  StartsRun(slice, y)
<1> DEFINE n == Len(slice.counts)
           p == Innermost(slice)
<1>1. n \in Nat /\ p \in 0..n /\ d \in 1..n /\ d < p
  BY Ranks, InnermostIs
<1>2. \A e \in (p + 1)..n : x[e] = 0
  BY DEF StartsRun
<1>3. p > 0 => x[p] = 0 \/ (slice.indices[p] + x[p]) % slice.ds.chunk_shape[p] = 0
  BY DEF StartsRun
<1> HIDE DEF p, n
<1>4. \A e \in (p + 1)..n : e \in 1..n /\ e # d
  BY <1>1
<1>5. p \in 1..n /\ p # d
  BY <1>1
<1>6. \A e \in 1..n : e # d => y[e] = x[e]
  BY DEF n
<1>7. y[p] = x[p]
  BY <1>5, <1>6
<1>8. \A e \in (p + 1)..n : y[e] = 0
  BY <1>2, <1>4, <1>6
<1> QED
  BY <1>3, <1>7, <1>8 DEF StartsRun, p, n

\* A pass that only carries over turns the odometer.
LEMMA OdometerTurns ==
  ASSUME Proper(slice), slice.end > 0, Odometer, di \in 0..Rank, di < Rank,
         offset_coords' = [offset_coords EXCEPT ![Dim] = Carried(Dim) % slice.counts[Dim]],
         carry' = Carried(Dim) \div slice.counts[Dim],
         di' = di + 1, UNCHANGED <<slice, offset>>
  PROVE  /\ Dim \in 1..Rank /\ Dim' = Dim - 1 /\ di' \in 0..Rank'
         /\ Odometer'
         /\ IsAfter(offset_coords', slice, offset_coords, Dim, carry)
         /\ Dim < Innermost(slice) /\ StartsRun(slice, offset_coords) => StartsRun(slice, offset_coords)'
<1> DEFINE n == Rank
           D == Dim
           k == slice.counts[D]
<1>1. n \in Nat /\ n = Len(slice.counts) /\ Rank' = n
  BY Ranks DEF Rank
<1>2. D \in 1..n /\ Dim' = D - 1 /\ D \in 1..Len(slice.counts) /\ di' \in 0..Rank'
  BY <1>1 DEF Dim
<1>3. Fits(offset_coords, slice.counts) /\ carry \in Nat
      /\ Place(offset_coords, slice.counts) + carry * Stride(slice, D) = offset
  BY DEF Odometer
<1>4. Carried(D) = offset_coords[D] + carry
  BY DEF Carried
<1>5. IsAfter(offset_coords', slice, offset_coords, D, carry)
  <2> DEFINE x == offset_coords
             y == [x EXCEPT ![D] = (x[D] + carry) % slice.counts[D]]
  <2>1. offset_coords' = y
    BY <1>4
  <2> HIDE DEF D
  <2>2. IsAfter(y, slice, x, D, carry)
    BY <1>2, <1>3, Turned
  <2> HIDE DEF y
  <2> QED
    BY <2>1, <2>2
<1>6. Odometer'
  <2>1. /\ Fits(offset_coords', slice.counts)
        /\ Carried(D) \div k \in Nat
        /\ Place(offset_coords', slice.counts) + (Carried(D) \div k) * Stride(slice, D - 1)
             = Place(offset_coords, slice.counts) + carry * Stride(slice, D)
    BY <1>4, <1>5 DEF IsAfter
  <2>2. Place(offset_coords', slice.counts) + carry' * Stride(slice, D - 1) = offset'
        /\ carry' \in Nat
    BY <1>3, <2>1
  <2>3. Stride(slice, Dim)' = Stride(slice, D - 1)
    <3> HIDE DEF D
    <3> QED
      BY <1>2
  <2>4. Place(offset_coords', slice'.counts) + carry' * Stride(slice, Dim)' = offset'
        /\ Fits(offset_coords', slice'.counts)
    <3> DEFINE T == Stride(slice, D - 1)
    <3>1. Stride(slice, Dim)' = T /\ Place(offset_coords', slice.counts) + carry' * T = offset'
      BY <2>2, <2>3
    <3> HIDE DEF T
    <3> QED
      BY <2>1, <3>1
  <2> QED
    BY <2>2, <2>4 DEF Odometer
<1>7. ASSUME D < Innermost(slice), StartsRun(slice, offset_coords)
      PROVE  StartsRun(slice, offset_coords)'
  <2>1. \A e \in 1..Len(slice.counts) : e # D => offset_coords'[e] = offset_coords[e]
    BY <1>5 DEF IsAfter
  <2> DEFINE y == offset_coords'
  <2> HIDE DEF y, D
  <2>2. StartsRun(slice, y)
    BY <1>2, <1>7, <2>1, StartKept DEF y
  <2> QED
    BY <2>2 DEF y
<1> QED
  BY <1>2, <1>5, <1>6, <1>7

\* A pass that only carries over: in a dimension the slice covers nothing changes, and in the
\* one it covers only partly the rest of the loop is an odometer.
LEMMA PassSingleKeeps ==
  ASSUME Proper(slice), Supported(slice), SupportedInv, PassSingle
  PROVE  SupportedInv'
<1> DEFINE n == Rank
           D == Dim
           p == Innermost(slice)
           k == slice.counts[D]
           x == Begin[D]
<1>1. /\ pc = "loop" /\ di < n
      /\ ChunkSz(D) = 1 /\ slice.ds.chunk_dim_sz[D] # 1
      /\ offset_coords' = [offset_coords EXCEPT ![D] = Carried(D) % slice.counts[D]]
      /\ carry' = Carried(D) \div slice.counts[D]
      /\ di' = di + 1
      /\ UNCHANGED <<slice, offset, chunk, chunk_start, advance, emitted, pc>>
  BY DEF PassSingle
<1>2. /\ n \in Nat \ {0} /\ n = Len(slice.counts) /\ di \in 0..n
      /\ slice.end > 0 /\ slice.end \in Nat
      /\ \A d \in 1..n : slice.counts[d] \in Nat \ {0}
  <2>1. n \in Nat \ {0} /\ n = Len(slice.counts) /\ di \in 0..n /\ slice.end > 0
    BY <1>1, InCall DEF Rank, SupportedInv
  <2> QED
    BY <2>1, Strides
<1>3. D \in 1..n /\ Dim' = D - 1 /\ di' \in 0..Rank' /\ di' > 0
  BY <1>1, <1>2 DEF Dim, Rank
<1>4. p \in 0..n
  BY <1>2, InnermostIs
<1>5. /\ Rank' = Rank /\ Rank > 0 /\ Begin' = Begin
      /\ offset' - advance' \in 0..(slice.end - 1)
      /\ emitted' = Prefix(offset - advance)' /\ chunk_start' \in Nat
      /\ offset' \in 0..slice.end /\ advance' \in Nat
  <2>1. offset \in 0..slice.end /\ advance \in Nat
    BY DEF SupportedInv
  <2>2. offset' \in Nat /\ advance' \in Nat /\ offset' - advance' = offset - advance
    BY <1>1, <1>2, <2>1
  <2> QED
    BY <1>1, <2>1, <2>2, SameCall
<1>6. Consecutive' /\ InChunk' /\ offset' < slice'.end
  <2>1. Consecutive /\ InChunk /\ offset < slice.end
    BY <1>1 DEF SupportedInv, Calling
  <2>2. Wanted' = Wanted
    BY <1>1 DEF Wanted
  <2>3. Consecutive'
    BY <1>1, <2>1, <2>2 DEF Consecutive
  <2>4. InChunk'
    BY <1>1, <1>5, <2>1 DEF InChunk
  <2> QED
    BY <1>1, <2>1, <2>3, <2>4
<1>7. Innermost(slice)' = p
  BY <1>1
<1>8. ASSUME Odometer, advance > 0, D = p \/ D < p,
             \A e \in 1..(D - 1) : ChunkSz(e) = 1 /\ slice.ds.chunk_dim_sz[e] # 1,
             StartsRun(slice, offset_coords)'
      PROVE  Skipping'
  <2>1. Odometer'
    BY <1>1, <1>2, <1>8, OdometerTurns
  <2>2. Dim' < Innermost(slice)'
    <3> HIDE DEF D, p
    <3> QED
      BY <1>2, <1>3, <1>4, <1>7, <1>8
  <2>3. \A e \in 1..(D - 1) : ChunkSz(e)' = 1 /\ slice'.ds.chunk_dim_sz[e] # 1
    <3>1. \A e : ChunkSz(e)' = ChunkSz(e)
      BY <1>1 DEF ChunkSz
    <3> QED
      BY <1>1, <1>8, <3>1
  <2>4. \A e \in 1..Dim' : ChunkSz(e)' = 1 /\ slice'.ds.chunk_dim_sz[e] # 1
    BY <1>3, <2>3
  <2> QED
    BY <1>1, <1>8, <2>1, <2>2, <2>4 DEF Skipping
<1>9. Passing' \/ Skipping'
  <2>1. CASE Skipping
    <3>1. /\ D < p /\ advance > 0 /\ Odometer /\ StartsRun(slice, offset_coords)
          /\ \A e \in 1..D : ChunkSz(e) = 1 /\ slice.ds.chunk_dim_sz[e] # 1
      BY <2>1 DEF Skipping
    <3>2. \A e \in 1..(D - 1) : e \in 1..D
      BY <1>3
    <3>3. StartsRun(slice, offset_coords)'
      BY <1>1, <1>2, <3>1, OdometerTurns
    <3> QED
      BY <1>8, <3>1, <3>2, <3>3
  <2>2. CASE Passing
    <3>1. /\ D \in 1..(n - 1) /\ D >= p
          /\ carry = 1 /\ advance = Stride(slice, D)
          /\ D > p => k = 1
          /\ D = p =>
               /\ \A e \in 1..(p - 1) : ChunkSz(e) = 1 /\ slice.ds.chunk_dim_sz[e] # 1
               /\ \/ x + 1 = slice.counts[p]
                  \/ (slice.indices[p] + (x + 1)) % slice.ds.chunk_shape[p] = 0
      BY <1>1, <2>2, SinglePass
    <3>2. offset_coords = Begin /\ x \in Nat /\ x < k /\ k \in Nat \ {0}
          /\ Fits(Begin, slice.counts) /\ Place(Begin, slice.counts) = offset - advance
      BY <1>1, <1>2, <1>3, <2>2, InCall DEF Passing
    <3>3. Stride(slice, D) \in Nat \ {0}
      <4>1. D \in 0..Len(slice.counts)
        BY <1>2, <1>3
      <4> QED
        BY <1>2, <4>1, Strides
    <3>4. Odometer
      <4> DEFINE S == Stride(slice, D)
                 P == Place(offset_coords, slice.counts)
      <4>1. P = offset - S /\ S \in Nat /\ offset \in Nat
        <5>1. offset \in 0..slice.end
          BY DEF SupportedInv
        <5>2. offset \in Nat
          BY <1>2, <5>1
        <5>3. S \in Nat
          BY <3>3
        <5>4. P = offset - S
          BY <3>1, <3>2
        <5> QED
          BY <5>2, <5>3, <5>4
      <4>2. P + carry * S = offset
        <5> HIDE DEF P, S
        <5> QED
          BY <3>1, <4>1
      <4>3. Fits(offset_coords, slice.counts) /\ carry \in Nat
        BY <3>1, <3>2
      <4> QED
        BY <4>2, <4>3 DEF Odometer
    <3>5. IsAfter(offset_coords', slice, offset_coords, D, carry)
      BY <1>1, <1>2, <3>4, OdometerTurns
    <3>6. /\ offset_coords'[D] = (x + 1) % k /\ carry' = (x + 1) \div k
          /\ \A e \in 1..n : e # D => offset_coords'[e] = Begin[e]
          /\ Fits(offset_coords', slice.counts)
      <4>1. Carried(D) = x + 1
        BY <3>1, <3>2 DEF Carried
      <4> QED
        BY <1>1, <1>2, <3>1, <3>2, <3>5, <4>1 DEF IsAfter
    <3>7. CASE D > p
      <4>1. x = 0 /\ k = 1
        BY <1>1, <1>3, <3>1, <3>7, CoversIt
      <4>2. (x + 1) % k = 0 /\ (x + 1) \div k = 1
        BY <4>1
      <4>3. offset_coords' = Begin
        <5> DEFINE y == offset_coords'
        <5>1. \A e \in 1..n : y[e] = Begin[e]
          BY <3>6, <4>1, <4>2
        <5>2. Begin \in Seq(Nat) /\ y \in Seq(Nat) /\ Len(Begin) = n /\ Len(y) = n
          BY <1>2, <3>2, <3>6 DEF Fits
        <5> HIDE DEF y, n
        <5>3. y = Begin
          BY <5>1, <5>2
        <5> QED
          BY <5>3 DEF y
      <4>4. advance = Stride(slice, D - 1)
        <5>1. Stride(slice, D - 1) = k * Stride(slice, D)
          BY <1>2, <1>3, Strides
        <5> DEFINE S == Stride(slice, D)
        <5>2. S \in Nat /\ Stride(slice, D - 1) = 1 * S
          BY <3>3, <4>1, <5>1
        <5> HIDE DEF S
        <5>3. 1 * S = S
          BY <5>2
        <5> QED
          BY <3>1, <5>2, <5>3 DEF S
      <4>5. advance' = Stride(slice, Dim)'
        <5>1. Stride(slice, Dim)' = Stride(slice, D - 1)
          <6> HIDE DEF D
          <6> QED
            BY <1>1, <1>3
        <5> QED
          BY <1>1, <4>4, <5>1
      <4>6. Dim' >= Innermost(slice)'
        <5>1. D - 1 >= p
          <6> HIDE DEF D, p
          <6> QED
            BY <1>2, <1>3, <1>4, <3>7
        <5> QED
          BY <1>3, <1>7, <5>1
      <4> QED
        BY <1>3, <1>5, <3>6, <4>2, <4>3, <4>5, <4>6 DEF Passing
    <3>8. CASE D = p
      <4>1. StartsRun(slice, offset_coords)'
        <5> DEFINE y == offset_coords'
        <5>1. p > 0 /\ p \in 1..n
          BY <1>3, <3>8
        <5>2. \A e \in (p + 1)..Len(slice.counts) : y[e] = 0
          <6> SUFFICES ASSUME NEW e \in (p + 1)..Len(slice.counts) PROVE y[e] = 0
            OBVIOUS
          <6>1. e \in 1..n /\ e # D /\ e > p
            BY <1>2, <1>4, <3>8
          <6>2. Begin[e] = 0
            BY <1>1, <6>1, CoversIt
          <6> QED
            BY <3>6, <6>1, <6>2
        <5>3. y[p] = 0 \/ (slice.indices[p] + y[p]) % slice.ds.chunk_shape[p] = 0
          <6>1. CASE x + 1 = k
            <7>1. (x + 1) % k = 0
              <8> HIDE DEF x, k
              <8> QED
                BY <3>2, <6>1
            <7> QED
              BY <3>6, <3>8, <7>1
          <6>2. CASE x + 1 # k
            <7>1. (x + 1) % k = x + 1
              <8>1. x + 1 < k /\ x + 1 \in Nat
                <9> HIDE DEF x, k
                <9> QED
                  BY <3>2, <6>2
              <8> HIDE DEF x, k
              <8> QED
                BY <3>2, <8>1
            <7>2. (slice.indices[p] + (x + 1)) % slice.ds.chunk_shape[p] = 0
              BY <3>1, <3>8, <6>2
            <7> QED
              BY <3>6, <3>8, <7>1, <7>2
          <6> QED
            BY <6>1, <6>2
        <5> HIDE DEF y
        <5>4. StartsRun(slice, y)
          BY <5>2, <5>3 DEF StartsRun
        <5> QED
          BY <1>1, <5>4 DEF y
      <4>2. advance > 0
        <5> DEFINE S == Stride(slice, D)
        <5>1. advance = S /\ S \in Nat \ {0}
          BY <3>1, <3>3
        <5> HIDE DEF S
        <5> QED
          BY <5>1
      <4>3. \A e \in 1..(D - 1) : ChunkSz(e) = 1 /\ slice.ds.chunk_dim_sz[e] # 1
        BY <3>1, <3>8
      <4> QED
        BY <1>8, <3>4, <3>8, <4>1, <4>2, <4>3
    <3> QED
      BY <1>2, <1>3, <1>4, <3>1, <3>7, <3>8
  <2>3. Passing \/ Skipping
    BY <1>1 DEF SupportedInv, Calling
  <2> QED
    BY <2>1, <2>2, <2>3
<1>10. pc' = "loop"
  BY <1>1
<1>11. Calling'
  BY <1>1, <1>5, <1>6, <1>9, <1>10 DEF Calling
<1>12. offset' \in 0..slice'.end
  BY <1>1, <1>5
<1> QED
  BY <1>3, <1>5, <1>10, <1>11, <1>12 DEF SupportedInv

\* The loop has been through every dimension only when it did nothing but carry over.
LEMMA LoopEndsKeeps ==
  ASSUME Proper(slice), SupportedInv, LoopEnds
  PROVE  SupportedInv'
<1>1. pc = "loop" /\ di = Rank /\ pc' = "carry" /\ UNCHANGED <<slice, iterator, locals, emitted>>
  BY DEF LoopEnds
<1>2. UNCHANGED <<slice, offset, offset_coords, chunk, chunk_start, advance, carry, di, emitted>>
  BY <1>1 DEF iterator, locals
<1>3. /\ Rank \in Nat \ {0} /\ Rank = Len(slice.counts) /\ slice.end > 0 /\ slice.end \in Nat
      /\ Dim = 0 /\ Dim' = 0
  <2>1. Rank \in Nat \ {0} /\ Rank = Len(slice.counts) /\ slice.end > 0
    BY <1>1, InCall DEF Rank
  <2>2. slice.end \in Nat
    BY <2>1, Strides
  <2>3. Rank' = Rank
    BY <1>2 DEF Rank
  <2> QED
    BY <1>1, <1>2, <2>1, <2>2, <2>3 DEF Dim
<1>4. /\ offset \in 0..slice.end /\ advance \in Nat /\ chunk_start \in Nat
      /\ emitted = Prefix(offset - advance)
      /\ Calling /\ offset < slice.end /\ (Passing \/ Skipping)
  BY <1>1 DEF SupportedInv, Calling
<1>5. ~Passing
  <2> SUFFICES ASSUME Passing PROVE FALSE
    OBVIOUS
  <2>1. advance = Stride(slice, 0)
    BY <1>1, <1>3 DEF Passing
  <2>2. advance = slice.end
    BY <1>3, <2>1, Strides
  <2>3. offset - advance \in 0..(slice.end - 1)
    BY <1>4 DEF Calling
  <2> QED
    BY <1>3, <1>4, <2>2, <2>3
<1>6. Skipping
  BY <1>4, <1>5
<1>7. Odometer' /\ Consecutive' /\ advance' > 0
  <2>1. Odometer /\ advance > 0
    BY <1>6 DEF Skipping
  <2>2. Odometer'
    BY <1>2, <1>3, <2>1 DEF Odometer, Stride
  <2>3. Wanted' = Wanted
    BY <1>2 DEF Wanted
  <2>4. Consecutive'
    BY <1>2, <1>4, <2>3 DEF Calling, Consecutive
  <2> QED
    BY <1>2, <2>1, <2>2, <2>4
<1>8. Dim' < Innermost(slice)' /\ StartsRun(slice, offset_coords)'
  <2>1. Dim < Innermost(slice) /\ StartsRun(slice, offset_coords)
    BY <1>6 DEF Skipping
  <2> QED
    BY <1>2, <1>3, <2>1
<1>9. Rank' = Rank
  BY <1>2 DEF Rank
<1>10. Calling'
  BY <1>1, <1>2, <1>3, <1>4, <1>7, <1>8, <1>9 DEF Calling
<1>11. emitted' = Prefix(offset - advance)'
  BY <1>2, <1>4 DEF Prefix, Wanted
<1>12. di' \in 0..Rank'
  BY <1>1, <1>2, <1>3, <1>9
<1> QED
  BY <1>1, <1>2, <1>4, <1>10, <1>11, <1>12 DEF SupportedInv

\* A pass of the second loop carries over one dimension further out.
LEMMA CarryOverKeeps ==
  ASSUME Proper(slice), SupportedInv, CarryOver
  PROVE  SupportedInv'
<1>1. /\ pc = "carry" /\ di < Rank
      /\ offset_coords' = [offset_coords EXCEPT ![Dim] = Carried(Dim) % slice.counts[Dim]]
      /\ carry' = Carried(Dim) \div slice.counts[Dim]
      /\ di' = di + 1
      /\ pc' = IF carry' = 0 THEN "return" ELSE "carry"
      /\ UNCHANGED <<slice, offset, chunk, chunk_start, advance, emitted>>
  BY DEF CarryOver
<1>2. /\ offset \in 0..slice.end /\ advance \in Nat /\ chunk_start \in Nat /\ di \in 0..Rank
      /\ emitted = Prefix(offset - advance)
      /\ Rank > 0 /\ offset - advance \in 0..(slice.end - 1) /\ Consecutive
      /\ advance > 0 /\ Odometer
      /\ offset < slice.end => Dim < Innermost(slice) /\ StartsRun(slice, offset_coords)
  BY <1>1 DEF SupportedInv, Calling
<1>3. slice.end \in Nat /\ slice.end > 0
  <2>1. LET m == offset - advance IN slice.end \in Nat /\ slice.end > 0
    BY <1>2, WantedIs
  <2> QED
    BY <2>1
<1>4. /\ Dim \in 1..Rank /\ Dim' = Dim - 1 /\ di' \in 0..Rank' /\ Odometer'
      /\ Dim < Innermost(slice) /\ StartsRun(slice, offset_coords) => StartsRun(slice, offset_coords)'
  BY <1>1, <1>2, <1>3, OdometerTurns
<1>5. /\ Rank' = Rank
      /\ offset' - advance' \in 0..(slice.end - 1)
      /\ emitted' = Prefix(offset - advance)' /\ chunk_start' \in Nat
  <2>1. offset' \in Nat /\ advance' \in Nat /\ offset' - advance' = offset - advance
    BY <1>1, <1>2, <1>3
  <2> QED
    BY <1>1, <2>1, SameCall
<1>6. Consecutive'
  <2>1. Wanted' = Wanted
    BY <1>1 DEF Wanted
  <2> QED
    BY <1>1, <1>2, <2>1 DEF Consecutive
<1>7. offset' < slice'.end => Dim' < Innermost(slice)' /\ StartsRun(slice, offset_coords)'
  <2> SUFFICES ASSUME offset' < slice'.end
               PROVE  Dim' < Innermost(slice)' /\ StartsRun(slice, offset_coords)'
    OBVIOUS
  <2>1. Dim < Innermost(slice) /\ StartsRun(slice, offset_coords)
    BY <1>1, <1>2
  <2>2. Innermost(slice)' = Innermost(slice) /\ Innermost(slice) \in Nat
    BY <1>1, InnermostIs, Ranks
  <2>3. Dim' < Innermost(slice)'
    <3> DEFINE d == Dim
               p == Innermost(slice)
    <3>1. d \in Nat /\ p \in Nat /\ d < p
      BY <1>4, <2>1, <2>2
    <3> HIDE DEF d, p
    <3>2. d - 1 < p
      BY <3>1
    <3> QED
      BY <1>4, <2>2, <3>2 DEF d, p
  <2> QED
    BY <1>4, <2>1, <2>3
<1>8. Calling'
  <2>1. pc' = "return" => carry' = 0
    BY <1>1
  <2>2. pc' # "loop"
    BY <1>1
  <2>3. Rank' > 0 /\ offset' - advance' \in 0..(slice'.end - 1) /\ advance' > 0
    BY <1>1, <1>2, <1>5
  <2> QED
    BY <1>4, <1>6, <1>7, <2>1, <2>2, <2>3 DEF Calling
<1> QED
  BY <1>1, <1>2, <1>4, <1>5, <1>8 DEF SupportedInv

\* The coordinates that name a value are those of its place.
LEMMA NamesValue ==
  ASSUME Proper(slice), Odometer, offset \in Nat, offset < slice.end, carry = 0,
         Dim \in 0..Len(slice.counts)
  PROVE  offset_coords = Unravel(offset, slice.counts)
<1> DEFINE c == slice.counts
           P == Place(offset_coords, c)
           S == Stride(slice, Dim)
<1>1. c \in Seq(Nat) /\ slice.end = Product(c)
  BY DEF Proper
<1>2. Fits(offset_coords, c) /\ P + carry * S = offset
  BY DEF Odometer
<1>3. P \in Nat
  <2>1. P \in 0..(Product(c) - 1)
    BY <1>1, <1>2, PlaceBelow
  <2> QED
    BY <2>1
<1>4. slice.end \in Nat /\ slice.end > 0
  BY EndIs
<1>5. S \in Nat
  BY <1>4, Strides
<1>6. P = offset
  <2> HIDE DEF P, S
  <2> QED
    BY <1>2, <1>3, <1>5
<1>7. offset \in 0..(Product(c) - 1)
  BY <1>1, <1>4
<1>8. Fits(Unravel(offset, c), c) /\ Place(Unravel(offset, c), c) = offset
  BY <1>1, <1>7, UnravelPlace
<1> QED
  BY <1>1, <1>2, <1>6, <1>8, PlaceSame

\* The run that is returned is the next of the slice.
LEMMA ReturnKeeps ==
  ASSUME Proper(slice), SupportedInv, Return
  PROVE  SupportedInv'
<1> DEFINE A == advance
           B == offset - advance
           run == [k \in 1..A |-> [addr |-> chunk.addr, at |-> chunk_start + k - 1]]
<1>1. /\ pc = "return" \/ (pc = "carry" /\ di = Rank)
      /\ UNCHANGED <<slice, iterator, locals>>
  BY DEF Return
<1>2. UNCHANGED <<slice, offset, offset_coords, chunk, chunk_start, advance, carry, di>>
  BY <1>1 DEF iterator, locals
<1>3. /\ offset \in 0..slice.end /\ A \in Nat /\ chunk_start \in Nat /\ di \in 0..Rank
      /\ emitted = Prefix(B)
      /\ Rank > 0 /\ B \in 0..(slice.end - 1) /\ Consecutive
      /\ A > 0 /\ Odometer
      /\ pc = "return" => carry = 0 /\ (offset < slice.end => StartsRun(slice, offset_coords))
      /\ pc = "carry" /\ offset < slice.end => StartsRun(slice, offset_coords)
  BY <1>1 DEF SupportedInv, Calling
<1>4. slice.end \in Nat /\ slice.end > 0 /\ Rank \in Nat /\ Rank = Len(slice.counts)
  <2>1. slice.end \in Nat /\ slice.end > 0
    BY <1>3, WantedIs
  <2> QED
    BY <2>1, Ranks DEF Rank
<1>5. offset \in Nat /\ B \in Nat /\ offset = B + A
  BY <1>3, <1>4
<1>6. pc' = "next" /\ emitted' = emitted \o run
  <2>1. chunk_start + A <= Product(slice.ds.chunk_shape)
    BY <1>3 DEF Consecutive
  <2>2. Product(slice.ds.chunk_shape) \in Int
    <3>1. slice.ds.chunk_shape \in Seq(Nat)
      BY Ranks
    <3> QED
      BY <3>1, ProductNat
  <2>3. advance # 0 /\ ~(chunk_start + advance > Product(slice.ds.chunk_shape))
    BY <1>3, <2>1, <2>2
  <2> QED
    BY <2>3 DEF Return
<1>7. emitted' = Prefix(offset)'
  <2>1. Prefix(offset)' = [k \in 1..offset |-> Wanted[k]]
    BY <1>2 DEF Prefix, Wanted
  <2>2. emitted = [k \in 1..B |-> Wanted[k]]
    BY <1>3 DEF Prefix
  <2>3. \A k \in 1..A : run[k] = Wanted[B + k]
    <3> SUFFICES ASSUME NEW k \in 1..A PROVE run[k] = Wanted[B + k]
      OBVIOUS
    <3>1. k - 1 \in 0..(advance - 1)
      BY <1>3
    <3>2. Wanted[(offset - advance) + (k - 1) + 1] = [addr |-> chunk.addr, at |-> chunk_start + (k - 1)]
      BY <1>3, <3>1 DEF Consecutive
    <3>3. (offset - advance) + (k - 1) + 1 = B + k /\ chunk_start + (k - 1) = chunk_start + k - 1
      <4>1. k \in Nat
        OBVIOUS
      <4> HIDE DEF B
      <4>2. B + (k - 1) + 1 = B + k /\ chunk_start + (k - 1) = chunk_start + k - 1
        BY <1>3, <1>5, <4>1
      <4> QED
        BY <4>2 DEF B
    <3> QED
      BY <3>2, <3>3
  <2> DEFINE e == [k \in 1..B |-> Wanted[k]]
             w == [k \in 1..offset |-> Wanted[k]]
  <2> DEFINE V == {Wanted[k] : k \in Nat}
  <2>4. e \in Seq(V) /\ Len(e) = B /\ \A k \in 1..B : e[k] = Wanted[k]
    <3> HIDE DEF B
    <3> QED
      BY <1>5
  <2>5. run \in Seq(V) /\ Len(run) = A
    <3>1. run = [k \in 1..A |-> run[k]]
      OBVIOUS
    <3>2. \A k \in 1..A : run[k] \in V
      <4> TAKE k \in 1..A
      <4>1. B + k \in Nat
        <5>1. k \in Nat
          OBVIOUS
        <5> HIDE DEF B
        <5> QED
          BY <1>5, <5>1
      <4> HIDE DEF run, B
      <4> QED
        BY <2>3, <4>1
    <3> HIDE DEF run, V, A
    <3>3. run \in [1..A -> V]
      BY <3>1, <3>2
    <3> QED
      BY <1>3, <3>3
  <2>6. \A k \in 1..offset : w[k] = Wanted[k]
    OBVIOUS
  <2>7. DOMAIN w = 1..offset
    OBVIOUS
  <2> HIDE DEF e, run, w, A, B, V
  <2>8. e \o run = w
    <3>1. /\ e \o run \in Seq(V) /\ Len(e \o run) = Len(e) + Len(run)
          /\ \A k \in 1..(Len(e) + Len(run)) :
               (e \o run)[k] = IF k <= Len(e) THEN e[k] ELSE run[k - Len(e)]
      BY <2>4, <2>5
    <3>2. Len(e) + Len(run) = offset
      BY <1>5, <2>4, <2>5
    <3>3. \A k \in 1..offset : (IF k <= Len(e) THEN e[k] ELSE run[k - Len(e)]) = Wanted[k]
      <4> TAKE k \in 1..offset
      <4>1. CASE k <= B
        BY <1>5, <2>4, <4>1
      <4>2. CASE ~(k <= B)
        <5>1. k - B \in 1..A /\ B + (k - B) = k
          BY <1>3, <1>5, <4>2
        <5>2. run[k - B] = Wanted[k]
          BY <2>3, <5>1
        <5> QED
          BY <2>4, <4>2, <5>2
      <4> QED
        BY <4>1, <4>2
    <3>4. w = [k \in 1..offset |-> Wanted[k]]
      BY DEF w
    <3> DEFINE r == e \o run
    <3>5. r \in Seq(V) /\ Len(r) = offset /\ \A k \in 1..offset : r[k] = Wanted[k]
      BY <3>1, <3>2, <3>3
    <3> HIDE DEF r
    <3>6. r = [k \in 1..offset |-> r[k]]
      BY <3>5
    <3>7. r = w
      BY <3>4, <3>5, <3>6
    <3> QED
      BY <3>7 DEF r
  <2> QED
    BY <1>6, <2>1, <2>2, <2>8 DEF e, w
<1>8. Between'
  <2> SUFFICES ASSUME offset < slice.end
               PROVE  offset_coords = Unravel(offset, slice.counts) /\ StartsRun(slice, offset_coords)
    BY <1>2 DEF Between
  <2>1. StartsRun(slice, offset_coords)
    BY <1>1, <1>3
  <2>2. Dim \in 0..Len(slice.counts)
    BY <1>3, <1>4 DEF Dim
  <2>3. carry = 0
    <3>1. CASE pc = "return"
      BY <1>3, <3>1
    <3>2. CASE pc = "carry" /\ di = Rank
      <4> DEFINE P == Place(offset_coords, slice.counts)
      <4>1. Dim = 0 /\ Stride(slice, Dim) = slice.end
        <5>1. Dim = 0
          BY <1>4, <3>2 DEF Dim
        <5> QED
          BY <1>4, <5>1, Strides
      <4>2. P + carry * slice.end = offset /\ carry \in Nat
        BY <1>3, <4>1 DEF Odometer
      <4>3. P \in Nat
        <5>1. slice.counts \in Seq(Nat) /\ Fits(offset_coords, slice.counts)
          BY <1>3, Ranks DEF Odometer
        <5>2. P \in 0..(Product(slice.counts) - 1)
          BY <5>1, PlaceBelow
        <5> QED
          BY <5>2
      <4> DEFINE E == slice.end
      <4>4. P + carry * E = offset /\ E \in Nat /\ offset < E
        BY <1>4, <4>2
      <4> HIDE DEF P, E
      <4>5. carry # 0 => E <= carry * E /\ carry * E \in Nat
        BY <4>2, <4>4
      <4> DEFINE g == carry * E
      <4>6. carry # 0 => E <= g /\ g \in Nat
        BY <4>5
      <4>7. P + g = offset
        BY <4>4
      <4> HIDE DEF g
      <4> QED
        BY <1>5, <4>3, <4>4, <4>6, <4>7
    <3> QED
      BY <1>1, <3>1, <3>2
  <2>4. offset_coords = Unravel(offset, slice.counts)
    BY <1>3, <1>5, <2>2, <2>3, NamesValue
  <2> QED
    BY <2>1, <2>4
<1>9. Rank' = Rank
  BY <1>2 DEF Rank
<1> QED
  BY <1>2, <1>3, <1>6, <1>7, <1>8, <1>9 DEF SupportedInv

\* A slice is exhausted when it has been returned whole.
LEMMA ExhaustedKeeps ==
  ASSUME Proper(slice), SupportedInv, Exhausted
  PROVE  SupportedInv'
<1>1. /\ pc = "next" /\ offset >= slice.end /\ pc' = "done"
      /\ UNCHANGED <<slice, offset, offset_coords, chunk, chunk_start, advance, carry, di, emitted>>
  BY DEF Exhausted, iterator, locals
<1>2. /\ offset \in 0..slice.end /\ advance \in Nat /\ chunk_start \in Nat /\ di \in 0..Rank
      /\ emitted = Prefix(offset)
  BY <1>1 DEF SupportedInv
<1>3. offset = slice.end
  <2>1. slice.end \in Nat
    BY EndIs
  <2> QED
    BY <1>1, <1>2, <2>1
<1>4. emitted' = Prefix(offset)' /\ Rank' = Rank
  BY <1>1, <1>2 DEF Prefix, Wanted, Rank
<1> QED
  BY <1>1, <1>2, <1>3, <1>4 DEF SupportedInv

\* A scalar has one chunk, and one value in it.
LEMMA ScalarValue ==
  ASSUME Proper(slice), IsScalar(slice.ds)
  PROVE  /\ slice.end = 1 /\ Len(slice.counts) = 0 /\ Len(slice.ds.chunks) = 1
         /\ Wanted = [k \in 1..1 |-> [addr |-> slice.ds.chunks[1].addr, at |-> 0]]
<1> DEFINE c == slice.counts
           ds == slice.ds
           x == << >>
<1>1. ds.shape = << >> /\ c \in Seq(Nat) /\ Len(c) = 0 /\ c = << >>
  <2>1. ds.shape = << >> /\ c \in Seq(Nat) /\ Len(c) = Len(ds.shape)
    BY DEF Proper, IsScalar
  <2> HIDE DEF c
  <2> QED
    BY <2>1
<1>2. Product(<< >>) = 1 /\ slice.end = 1
  BY <1>1, EmptyProduct DEF Proper
<1>3. Unravel(0, << >>) = << >>
  BY DEF Unravel
<1>4. << >> \in Coordinates(ds.shape)
  <2>1. 0 \in 0..(1 - 1)
    OBVIOUS
  <2> QED
    BY <1>1, <1>2, <1>3, <2>1 DEF Coordinates
<1>5. /\ ChunkIndex(ds, x) \in 1..Len(ds.chunks)
      /\ \A n \in 1..Len(ds.chunks) : Holds(ds.chunks[n], x, ds.chunk_shape) <=> n = ChunkIndex(ds, x)
  <2> HIDE DEF x
  <2> QED
    BY <1>4 DEF Proper, LaidOut, x
<1>6. \A n \in 1..Len(ds.chunks) : Holds(ds.chunks[n], x, ds.chunk_shape)
  BY DEF Holds
<1> DEFINE I == ChunkIndex(ds, x)
           N == Len(ds.chunks)
           H(n) == Holds(ds.chunks[n], x, ds.chunk_shape)
           h == CHOOSE n \in 1..N : H(n)
<1> HIDE DEF I
<1>7. 1 \in 1..N /\ \A n \in 1..N : n = 1
  <2>1. I \in 1..N /\ \A n \in 1..N : n = I
    BY <1>5, <1>6 DEF I
  <2>2. 1 \in 1..N
    <3>1. N \in Nat
      BY DEF Proper, LaidOut
    <3> HIDE DEF N
    <3> QED
      BY <2>1, <3>1
  <2> QED
    BY <2>1, <2>2
<1>11. N = 1
  <2>1. N \in Nat
    BY DEF Proper, LaidOut
  <2> HIDE DEF N
  <2> QED
    BY <1>7, <2>1
<1>8. h = 1
  <2>1. h \in 1..N
    BY <1>6, <1>7
  <2> QED
    BY <1>7, <2>1
<1>9. Location(ds, x) = [addr |-> ds.chunks[1].addr, at |-> 0]
  <2>1. Location(ds, x) =
          [addr |-> ds.chunks[h].addr,
           at   |-> Dot([d \in 1..Len(x) |-> x[d] - ds.chunks[h].offset[d]], DimSizes(ds.chunk_shape))]
    BY DEF Location
  <2>2. Dot([d \in 1..Len(x) |-> x[d] - ds.chunks[h].offset[d]], DimSizes(ds.chunk_shape)) = 0
    <3> DEFINE u == [d \in 1..Len(x) |-> x[d] - ds.chunks[h].offset[d]]
               v == DimSizes(ds.chunk_shape)
    <3>1. Len(ds.chunk_shape) = 0 /\ ds.chunk_shape \in Seq(Nat)
      BY <1>1, Ranks
    <3>2. u = << >>
      OBVIOUS
    <3>3. v = << >>
      <4>1. v = [d \in 1..Len(ds.chunk_shape) |-> SuffixProducts(ds.chunk_shape)[d + 1]]
        BY DEF DimSizes
      <4> HIDE DEF v
      <4> QED
        BY <3>1, <4>1
    <3>4. Dot(<< >>, << >>) = 0
      <4> DEFINE e == << >>
      <4>0. e \in Seq(Nat) /\ Len(e) = 0
        OBVIOUS
      <4> HIDE DEF e
      <4>1. PICK g : /\ g \in [0..Len(e) -> Nat] /\ Dot(e, e) = g[Len(e)] /\ g[0] = 0
                     /\ \A d \in 1..Len(e) : g[d] = g[d - 1] + e[d] * e[d]
        BY <4>0, SumsExist
      <4> QED
        BY <4>0, <4>1 DEF e
    <3> HIDE DEF u, v
    <3>5. Dot(u, v) = 0
      BY <3>2, <3>3, <3>4
    <3> QED
      BY <3>5 DEF u, v
  <2> HIDE DEF h
  <2> QED
    BY <1>8, <2>1, <2>2
<1>10. Wanted = [k \in 1..1 |-> Location(ds, x)]
  <2>1. 0 \in 0..(slice.end - 1)
    BY <1>2
  <2>2. Wanted[0 + 1] = Location(ds, ValueAt(slice, Unravel(0, c)))
    BY <2>1, WantedIs
  <2>3. ValueAt(slice, << >>) = << >>
    BY <1>1 DEF ValueAt
  <2>4. Wanted[1] = Location(ds, x)
    BY <1>1, <1>3, <2>2, <2>3
  <2>5. DOMAIN Wanted = 1..1 /\ Wanted = [k \in 1..1 |-> Wanted[k]]
    BY <1>1, <1>2 DEF Wanted, SliceOf
  <2>6. \A k \in 1..1 : Wanted[k] = Location(ds, x)
    BY <2>4
  <2> QED
    BY <2>5, <2>6
<1> QED
  BY <1>1, <1>2, <1>9, <1>10, <1>11

\* The one value of a dataset without dimensions is the whole slice.
LEMMA NextScalarKeeps ==
  ASSUME Proper(slice), SupportedInv, NextScalar
  PROVE  SupportedInv'
<1> DEFINE v == [addr |-> slice.ds.chunks[1].addr, at |-> 0]
<1>0. Len(slice.ds.chunks) = 1
  BY ScalarValue DEF NextScalar
<1>1. /\ pc = "next" /\ offset < slice.end /\ IsScalar(slice.ds) /\ offset' = offset + 1
      /\ emitted' = Append(emitted, v)
      /\ UNCHANGED <<slice, offset_coords, chunk, chunk_start, advance, carry, di, pc>>
  BY <1>0 DEF NextScalar, locals
<1>2. /\ offset \in 0..slice.end /\ advance \in Nat /\ chunk_start \in Nat /\ di \in 0..Rank
      /\ emitted = Prefix(offset)
  BY <1>1 DEF SupportedInv
<1>3. slice.end = 1 /\ Wanted = [k \in 1..1 |-> v]
  BY <1>1, ScalarValue
<1>4. offset = 0 /\ offset' = 1
  BY <1>1, <1>2, <1>3
<1>5. emitted' = Prefix(offset)'
  <2>1. emitted = << >>
    BY <1>2, <1>4 DEF Prefix
  <2>2. Prefix(offset)' = [k \in 1..1 |-> Wanted[k]]
    BY <1>1, <1>4 DEF Prefix, Wanted
  <2>3. \A k \in 1..1 : Wanted[k] = v
    BY <1>3
  <2> HIDE DEF v
  <2>4. emitted' = << v >>
    BY <1>1, <2>1
  <2>5. [k \in 1..1 |-> Wanted[k]] = << v >>
    BY <2>3
  <2> QED
    BY <2>2, <2>4, <2>5
<1>6. Between' /\ Rank' = Rank
  BY <1>1, <1>3, <1>4 DEF Between, Rank
<1> QED
  BY <1>1, <1>2, <1>3, <1>4, <1>5, <1>6 DEF SupportedInv

\* The chunk that is found holds the next value.
LEMMA LocateKeeps ==
  ASSUME Proper(slice), SupportedInv, Locate
  PROVE  SupportedInv'
<1> DEFINE n == Rank
           x == offset_coords
           v == ValueAt(slice, x)
           c == ChunkAtCoord(slice.ds, v)
           at == ChunkStart(v, c.offset, slice.ds.chunk_dim_sz)
           b == slice.ds.chunk_shape
<1>1. /\ pc = "next" /\ offset < slice.end /\ ~IsScalar(slice.ds)
      /\ UNCHANGED <<slice, offset, offset_coords, emitted>>
  BY DEF Locate, iterator
<1>2. /\ offset \in 0..slice.end /\ emitted = Prefix(offset)
      /\ x = Unravel(offset, slice.counts) /\ StartsRun(slice, x)
  BY <1>1 DEF SupportedInv, Between
<1>3. slice.end \in Nat /\ slice.end > 0 /\ offset \in 0..(slice.end - 1)
      /\ slice.end = Product(slice.counts) /\ slice.counts \in Seq(Nat)
  <2>1. offset \in 0..(slice.end - 1)
    BY <1>1, <1>2, EndIs
  <2> QED
    BY <2>1, WantedIs, Ranks
<1>4. n \in Nat /\ n > 0 /\ n = Len(slice.counts)
  <2>1. n \in Nat /\ n = Len(slice.counts) /\ Len(slice.ds.shape) = n /\ slice.ds.shape \in Seq(Nat)
    BY Ranks DEF Rank
  <2>2. slice.ds.shape # << >>
    BY <1>1 DEF IsScalar
  <2> DEFINE h == slice.ds.shape
  <2> HIDE DEF h, n
  <2>3. n # 0
    BY <2>1, <2>2 DEF h
  <2> QED
    BY <2>1, <2>3 DEF n
<1>5. Fits(x, slice.counts) /\ Place(x, slice.counts) = offset
  BY <1>2, <1>3, UnravelPlace
<1>6. /\ ChunkIndex(slice.ds, v) \in 1..Len(slice.ds.chunks)
      /\ Holds(c, v, b) /\ Len(v) = n
      /\ c.offset \in Seq(Nat) /\ Len(c.offset) = n
      /\ \A d \in 1..n : c.offset[d] \in Nat /\ c.offset[d] <= v[d] /\ v[d] < c.offset[d] + b[d]
      /\ \A d \in 1..n : v[d] = slice.indices[d] + x[d] /\ v[d] \in Nat /\ x[d] \in Nat
                         /\ x[d] < slice.counts[d] /\ slice.indices[d] \in Nat /\ b[d] \in Nat
  BY <1>3, <1>4, <1>5, Holder, WithinDataset, Ranks
<1>7. Here = v
  BY DEF Here, ValueAt, Rank
<1>8. ~Mislocated
  <2>1. Contains(c, v, b) = "Equal"
    <3> DEFINE out == {d \in 1..Len(v) : v[d] < c.offset[d] \/ v[d] >= c.offset[d] + b[d]}
    <3>1. ASSUME NEW d \in 1..Len(v) PROVE ~(v[d] < c.offset[d] \/ v[d] >= c.offset[d] + b[d])
      <4> DEFINE o == c.offset[d]
                 w == v[d]
                 z == b[d]
      <4>1. o \in Nat /\ w \in Nat /\ z \in Nat /\ o <= w /\ w < o + z
        BY <1>6
      <4> HIDE DEF o, w, z
      <4>2. ~(w < o \/ w >= o + z)
        BY <4>1
      <4> QED
        BY <4>2 DEF o, w, z
    <3>2. out = {}
      BY <3>1
    <3> QED
      BY <3>2 DEF Contains
  <2> HIDE DEF v
  <2> QED
    BY <1>6, <1>7, <2>1 DEF Mislocated
<1>9. /\ pc' = "loop" /\ chunk' = c /\ chunk_start' = at /\ advance' = 0 /\ carry' = 0 /\ di' = 0
  <2> HIDE DEF v
  <2> QED
    BY <1>7, <1>8 DEF Locate
<1>10. at \in Nat /\ at <= Product(b)
  <2>1. at \in Nat
    <3> DEFINE f == [d \in 1..Len(v) |-> v[d] - c.offset[d]]
               w == slice.ds.chunk_dim_sz
    <3>1. w \in Seq(Nat) /\ Len(w) = n
      BY <1>4, ChunkStrides
    <3>2. f \in Seq(Nat) /\ Len(f) = n
      <4>1. \A d \in 1..n : v[d] - c.offset[d] \in Nat
        <5> TAKE d \in 1..n
        <5> DEFINE o == c.offset[d]
                   q == v[d]
        <5>1. o \in Nat /\ q \in Nat /\ o <= q
          BY <1>6
        <5> HIDE DEF o, q
        <5>2. q - o \in Nat
          BY <5>1
        <5> QED
          BY <5>2 DEF o, q
      <4>2. f = [d \in 1..n |-> v[d] - c.offset[d]]
        BY <1>6
      <4> HIDE DEF v, c, n, f
      <4> QED
        BY <1>4, <4>1, <4>2
    <3>3. at = Dot(f, w)
      BY DEF ChunkStart
    <3> HIDE DEF f, w
    <3>4. Dot(f, w) \in Nat
      <4>1. n \in 1..Len(f) /\ Len(w) = Len(f)
        BY <1>4, <3>1, <3>2
      <4> QED
        BY <3>1, <3>2, <4>1, TermBelow
    <3> QED
      BY <3>3, <3>4
  <2>2. at + 0 < Product(b)
    <3>1. Full(slice, n)
      <4>1. (n + 1)..Len(slice.counts) = {}
        BY <1>4
      <4> QED
        BY <4>1 DEF Full
    <3>2. n \in 1..Len(slice.counts) /\ (n + 1)..Len(slice.counts) = {}
      BY <1>4
    <3>3. Stride(slice, n) = 1
      BY <1>3, <1>4, Strides
    <3>4. 0 \in 0..(1 * Stride(slice, n) - 1)
      BY <3>3
    <3>5. x[n] + 1 <= slice.counts[n]
      <4> DEFINE p == x[n]
                 q == slice.counts[n]
      <4>1. p \in Nat /\ q \in Nat /\ p < q
        BY <1>3, <1>4, <1>6, Ranks
      <4> HIDE DEF p, q
      <4>2. p + 1 <= q
        BY <4>1
      <4> QED
        BY <4>2 DEF p, q
    <3>6. slice.indices[n] + x[n] + 1 <= c.offset[n] + b[n]
      <4> DEFINE p == slice.indices[n] + x[n]
                 q == c.offset[n] + b[n]
      <4>1. p \in Nat /\ q \in Nat /\ p < q
        <5>1. n \in 1..n
          BY <1>4
        <5>2. p = v[n] /\ v[n] \in Nat /\ v[n] < q
          BY <1>6, <5>1
        <5>3. c.offset[n] \in Nat /\ b[n] \in Nat
          BY <1>6, <5>1
        <5> QED
          BY <5>2, <5>3
      <4> HIDE DEF p, q
      <4>2. p + 1 <= q
        BY <4>1
      <4> QED
        BY <4>2 DEF p, q
    <3> DEFINE m == 1
               z == 0
    <3>7. m \in Nat /\ x[n] + m <= slice.counts[n]
          /\ slice.indices[n] + x[n] + m <= c.offset[n] + slice.ds.chunk_shape[n]
          /\ z \in 0..(m * Stride(slice, n) - 1)
          /\ \A e \in (n + 1)..Len(slice.counts) : x[e] = 0 /\ c.offset[e] = slice.indices[e]
      BY <3>2, <3>4, <3>5, <3>6
    <3> HIDE DEF m, z, n
    <3>8. ChunkStart(ValueAt(slice, x), c.offset, slice.ds.chunk_dim_sz) + z
            < Product(slice.ds.chunk_shape)
      BY <1>3, <1>5, <3>1, <3>2, <3>7, Block
    <3> QED
      BY <3>8 DEF z
  <2>3. Product(b) \in Int
    <3>1. b \in Seq(Nat)
      BY Ranks
    <3> QED
      BY <3>1, ProductNat
  <2> HIDE DEF at, b
  <2> QED
    BY <2>1, <2>2, <2>3
<1> HIDE DEF v
<1>11. offset' - advance' = offset /\ Begin' = x /\ Rank' = n
  <2>1. offset' - advance' = offset
    BY <1>1, <1>2, <1>3, <1>9
  <2>2. Begin' = Unravel(offset' - advance', slice'.counts)
    BY DEF Begin
  <2>3. Rank' = n
    BY <1>1 DEF Rank
  <2> QED
    BY <1>1, <1>2, <2>1, <2>2, <2>3
<1>12. InChunk'
  BY <1>1, <1>2, <1>9, <1>11 DEF InChunk, v
<1>13. Passing'
  BY <1>1, <1>9, <1>11 DEF Passing
<1>14. Consecutive'
  <2>1. chunk_start' + advance' <= Product(slice'.ds.chunk_shape)
    <3>1. at + 0 = at
      <4> HIDE DEF at
      <4> QED
        BY <1>10
    <3> QED
      BY <1>1, <1>9, <1>10, <3>1
  <2>2. 0..(advance' - 1) = {}
    BY <1>9
  <2> QED
    BY <2>1, <2>2 DEF Consecutive
<1>15. Calling'
  <2>1. Rank' > 0 /\ offset' - advance' \in 0..(slice'.end - 1) /\ offset' < slice'.end
    BY <1>1, <1>3, <1>4, <1>11
  <2> QED
    BY <1>9, <1>12, <1>13, <1>14, <2>1 DEF Calling
<1>16. emitted' = Prefix(offset - advance)'
  BY <1>1, <1>2, <1>11 DEF Prefix, Wanted
<1>17. di' \in 0..Rank' /\ advance' \in Nat /\ chunk_start' \in Nat /\ offset' \in 0..slice'.end
  BY <1>1, <1>2, <1>4, <1>9, <1>10, <1>11
<1> QED
  BY <1>9, <1>15, <1>16, <1>17 DEF SupportedInv

-------------------------------------------------------------------------------
(*****************************************************************************)
(* The results.                                                            *)
(***************************************************************************)
\* chunk_slices makes a proper slice of every request.
LEMMA ChunkSlicesProper ==
  ASSUME NEW r \in Requests
  PROVE  /\ Proper(ChunkSlices(r)) /\ Len(ChunkSlices(r).counts) = Len(r.counts)
<1> DEFINE s == ChunkSlices(r)
           n == Len(r.counts)
           empty == EmptyRequest(r.ds, r.indices, r.counts)
           zero == [d \in 1..n |-> 0]
<1>1. /\ LaidOut(r.ds)
      /\ r.indices \in Seq(Nat) /\ Len(r.indices) = Len(r.ds.shape)
      /\ r.counts \in Seq(Nat) /\ n = Len(r.ds.shape)
  BY RequestsAssumption
<1>2. n \in Nat
  BY <1>1
<1>3. CASE empty
  <2>1. s = [ds |-> r.ds, indices |-> zero, counts |-> zero, end |-> 0]
    BY <1>3 DEF ChunkSlices
  <2>2. zero \in Seq(Nat) /\ Len(zero) = n /\ \A d \in 1..n : zero[d] = 0
    <3> HIDE DEF n
    <3> QED
      BY <1>2
  <2>3. n > 0
    BY <1>1, <1>2, <1>3 DEF EmptyRequest
  <2>4. Product(zero) = 0
    <3> HIDE DEF zero
    <3>1. /\ SuffixProducts(zero) \in [1..(Len(zero) + 1) -> Nat]
          /\ \A d \in 1..Len(zero) : SuffixProducts(zero)[d] = zero[d] * SuffixProducts(zero)[d + 1]
      BY <2>2, ProductsAre
    <3>2. 1 \in 1..n /\ 1 + 1 \in 1..(n + 1)
      BY <1>2, <2>3
    <3>3. SuffixProducts(zero)[1] = 0 * SuffixProducts(zero)[1 + 1] /\ SuffixProducts(zero)[1 + 1] \in Nat
      BY <2>2, <3>1, <3>2
    <3> QED
      BY <3>3 DEF Product
  <2> HIDE DEF zero, s, n
  <2>5. Proper(s)
    BY <1>1, <2>1, <2>2, <2>4 DEF Proper
  <2> QED
    BY <2>1, <2>2, <2>5 DEF s, n
<1>4. CASE ~empty
  <2>1. s = [ds |-> r.ds, indices |-> r.indices, counts |-> r.counts, end |-> Product(r.counts)]
    BY <1>4 DEF ChunkSlices
  <2>2. ASSUME NEW d \in 1..n
        PROVE  r.counts[d] > 0 /\ r.indices[d] + r.counts[d] <= r.ds.shape[d]
    <3> DEFINE i == r.indices[d]
               k == r.counts[d]
               h == r.ds.shape[d]
    <3>1. d \in 1..Len(r.ds.shape)
      BY <1>1
    <3>2. ~(i + k > h) /\ k # 0
      BY <1>4, <3>1 DEF EmptyRequest
    <3>3. r.ds.shape \in Seq(Nat)
      BY <1>1 DEF LaidOut
    <3>4. i \in Nat /\ k \in Nat
      BY SMTT(30), <1>1, <3>1
    <3>5. h \in Nat
      <4> DEFINE z == r.ds.shape
      <4> HIDE DEF z
      <4>1. z \in Seq(Nat) /\ d \in 1..Len(z)
        BY <3>1, <3>3 DEF z
      <4>2. z[d] \in Nat
        BY <4>1
      <4> QED
        BY <4>2 DEF z
    <3> HIDE DEF i, k, h
    <3>6. k > 0 /\ i + k <= h
      BY <3>2, <3>4, <3>5
    <3> QED
      BY <3>6 DEF i, k, h
  <2> HIDE DEF s
  <2>3. Proper(s)
    BY <1>1, <2>1, <2>2 DEF Proper
  <2> QED
    BY <2>1, <2>3 DEF s
<1> QED
  BY <1>3, <1>4

\* A new iterator is before its first call, at the origin.
LEMMA InitSlicerInv == Init => SlicerInv
<1> SUFFICES ASSUME Init PROVE SlicerInv
  OBVIOUS
<1>1. PICK r \in Requests : /\ slice = ChunkSlices(r)
                            /\ offset_coords = [d \in 1..Len(r.counts) |-> 0]
  BY DEF Init
<1>2. Proper(slice) /\ Len(slice.counts) = Len(r.counts)
  BY <1>1, ChunkSlicesProper
<1> DEFINE n == Len(slice.counts)
           x == offset_coords
           c == slice.counts
<1>3. /\ offset = 0 /\ advance = 0 /\ chunk_start = 0 /\ di = 0 /\ emitted = << >> /\ pc = "next"
  BY DEF Init
<1>4. n \in Nat /\ Rank = n /\ slice.end \in Nat
  BY <1>2, Ranks, EndIs DEF Rank
<1>5. emitted = Prefix(offset)
  BY <1>3 DEF Prefix
<1>6. Between
  <2> SUFFICES ASSUME slice.end > 0
               PROVE  x = Unravel(0, c) /\ StartsRun(slice, x)
    BY <1>3, <1>4 DEF Between
  <2>1. x = [d \in 1..n |-> 0]
    BY <1>1, <1>2
  <2>2. \A d \in 1..n : c[d] \in Nat \ {0} /\ DimSizes(c)[d] \in Nat \ {0}
    <3> TAKE d \in 1..n
    <3>1. d \in 0..n /\ DimSizes(c)[d] = Stride(slice, d) /\ c[d] \in Nat \ {0}
      <4>1. d \in 0..n
        BY <1>4
      <4>2. DimSizes(c)[d] = Stride(slice, d) /\ c[d] \in Nat \ {0}
        BY <1>2, Strides
      <4> QED
        BY <4>1, <4>2
    <3>2. Stride(slice, d) \in Nat \ {0}
      BY <1>2, <3>1, Strides
    <3> QED
      BY <3>1, <3>2
  <2>3. \A d \in 1..n : (0 \div DimSizes(c)[d]) % c[d] = 0
    <3> TAKE d \in 1..n
    <3> DEFINE a == DimSizes(c)[d]
               b == c[d]
    <3>1. a \in Nat \ {0} /\ b \in Nat \ {0}
      BY <2>2
    <3> HIDE DEF a, b
    <3>2. 0 \div a = 0 /\ 0 % b = 0
      BY <3>1
    <3> QED
      BY <3>2 DEF a, b
  <2>4. x = Unravel(0, c)
    <3>1. Unravel(0, c) = [d \in 1..n |-> (0 \div DimSizes(c)[d]) % c[d]]
      BY DEF Unravel
    <3> HIDE DEF x, c, n
    <3> QED
      BY <2>1, <2>3, <3>1
  <2>5. StartsRun(slice, x)
    <3>1. Innermost(slice) \in 0..n
      BY <1>2, InnermostIs
    <3>2. \A e \in 1..n : x[e] = 0
      BY <2>1
    <3> HIDE DEF x
    <3>3. \A e \in (Innermost(slice) + 1)..n : e \in 1..n
      BY <1>4, <3>1
    <3>4. Innermost(slice) > 0 => Innermost(slice) \in 1..n
      BY <1>4, <3>1
    <3> QED
      BY <3>2, <3>3, <3>4 DEF StartsRun
  <2> QED
    BY <2>4, <2>5
<1>7. SupportedInv
  <2>1. offset \in 0..slice.end /\ advance \in Nat /\ chunk_start \in Nat /\ di \in 0..Rank
    BY <1>3, <1>4
  <2> QED
    BY <1>3, <1>5, <1>6, <2>1 DEF SupportedInv
<1> QED
  BY <1>2, <1>7 DEF SlicerInv

\* One step of next() after the other.
LEMMA NextSlicerInv == SlicerInv /\ [Next]_vars => SlicerInv'
<1> SUFFICES ASSUME SlicerInv, [Next]_vars PROVE SlicerInv'
  OBVIOUS
<1>1. slice' = slice
  BY DEF Next, vars, Exhausted, NextScalar, Locate, PassSingle, PassAdvance, LoopEnds,
         CarryOver, Return
<1>2. Proper(slice)'
  BY <1>1 DEF SlicerInv
<1> SUFFICES ASSUME Supported(slice) PROVE SupportedInv'
  BY <1>1, <1>2 DEF SlicerInv
<1>3. Proper(slice) /\ SupportedInv
  BY DEF SlicerInv
<1>4. CASE Exhausted
  BY <1>3, <1>4, ExhaustedKeeps
<1>5. CASE NextScalar
  BY <1>3, <1>5, NextScalarKeeps
<1>6. CASE Locate
  BY <1>3, <1>6, LocateKeeps
<1>7. CASE PassSingle
  BY <1>3, <1>7, PassSingleKeeps
<1>8. CASE PassAdvance
  BY <1>3, <1>8, PassAdvanceKeeps
<1>9. CASE LoopEnds
  BY <1>3, <1>9, LoopEndsKeeps
<1>10. CASE CarryOver
  BY <1>3, <1>10, CarryOverKeeps
<1>11. CASE Return
  BY <1>3, <1>11, ReturnKeeps
<1>12. CASE UNCHANGED vars
  <2>1. UNCHANGED <<slice, offset, offset_coords, chunk, chunk_start, advance, carry, di, emitted, pc>>
    BY <1>12 DEF vars, iterator, locals
  <2> QED
    BY <1>3, <2>1 DEF SupportedInv, Prefix, Wanted, Rank, Between, Calling, Consecutive, InChunk,
                      Begin, Passing, Skipping, Odometer, Dim, ChunkSz
<1> QED
  BY <1>4, <1>5, <1>6, <1>7, <1>8, <1>9, <1>10, <1>11, <1>12 DEF Next

\* The inductive invariant, for every dataset, rank and request.
THEOREM SlicerInvariant == Spec => []SlicerInv
<1> QED
  BY InitSlicerInv, NextSlicerInv, PTL DEF Spec

\* What is returned of a supported slice is its beginning.
LEMMA ReturnedIs ==
  ASSUME SlicerInv, Supported(slice)
  PROVE  \E m \in 0..Len(Wanted) : /\ emitted = Prefix(m) /\ Len(emitted) = m
                                   /\ pc \in {"next", "done"} => m = offset
<1> DEFINE m == IF pc \in {"next", "done"} THEN offset ELSE offset - advance
<1>1. Proper(slice) /\ SupportedInv
  BY DEF SlicerInv
<1>2. slice.end \in Nat /\ slice.end = Product(slice.counts)
  BY <1>1, EndIs
<1>3. m \in 0..slice.end
  <2>1. CASE pc \in {"next", "done"}
    BY <1>1, <2>1 DEF SupportedInv
  <2>2. CASE ~(pc \in {"next", "done"})
    <3>1. offset - advance \in 0..(slice.end - 1)
      BY <1>1, <2>2 DEF SupportedInv, Calling
    <3>2. m = offset - advance
      BY <2>2
    <3> HIDE DEF m
    <3> QED
      BY <1>2, <3>1, <3>2
  <2> QED
    BY <2>1, <2>2
<1>4. Len(Wanted) = slice.end
  <2>1. Wanted = [k \in 1..Product(slice.counts) |-> Wanted[k]]
    BY DEF Wanted, SliceOf
  <2> QED
    BY <1>2, <2>1
<1>5. emitted = Prefix(m)
  BY <1>1 DEF SupportedInv
<1>6. pc \in {"next", "done"} => m = offset
  OBVIOUS
<1> HIDE DEF m
<1>7. Len(emitted) = m
  BY <1>2, <1>3, <1>5 DEF Prefix
<1> QED
  BY <1>3, <1>4, <1>5, <1>6, <1>7

\* Every value of a supported slice that is returned is the right one, in its place, at
\* every moment: stopping half way is safe (dataset.rs:285, 321).
THEOREM RunsJoin == Spec => []JoinsIfSupported
<1>1. SlicerInv => JoinsIfSupported
  <2> SUFFICES ASSUME SlicerInv, Supported(slice) PROVE JoinIsSlice
    BY DEF JoinsIfSupported
  <2>1. PICK m \in 0..Len(Wanted) : /\ emitted = Prefix(m) /\ Len(emitted) = m
                                    /\ pc \in {"next", "done"} => m = offset
    BY ReturnedIs
  <2>2. Len(Wanted) \in Nat
    <3>1. slice.end \in Nat /\ slice.end = Product(slice.counts)
      BY EndIs DEF SlicerInv
    <3>2. Wanted = [k \in 1..slice.end |-> Wanted[k]]
      BY <3>1 DEF Wanted, SliceOf
    <3> QED
      BY <3>1, <3>2
  <2>3. \A k \in 1..Len(emitted) : emitted[k] = Wanted[k]
    BY <2>1 DEF Prefix
  <2>4. Len(emitted) <= Len(Wanted)
    BY <2>1, <2>2
  <2> QED
    BY <2>1, <2>3, <2>4 DEF JoinIsSlice
<1> QED
  BY <1>1, SlicerInvariant, PTL

\* For every supported slice the coordinates name the value that the count says, however
\* often a carry ran through the dimensions (dataset.rs:575, 611).
THEOREM PositionsStayTogether == Spec => []PositionsAgreeIfSupported
<1>1. SlicerInv => PositionsAgreeIfSupported
  BY DEF SlicerInv, SupportedInv, Between, PositionsAgreeIfSupported, PositionsAgree
<1> QED
  BY <1>1, SlicerInvariant, PTL

\* For every supported slice no assertion fails and nothing underflows, and when next()
\* returns None all of the slice has been returned (dataset.rs:518, 601, 621, 629).
THEOREM SupportedIsRight ==
  Spec => [](Supported(slice) => NeverPanics /\ (pc = "done" => emitted = Wanted))
<1>1. SlicerInv => (Supported(slice) => NeverPanics /\ (pc = "done" => emitted = Wanted))
  <2> SUFFICES ASSUME SlicerInv, Supported(slice)
               PROVE  NeverPanics /\ (pc = "done" => emitted = Wanted)
    OBVIOUS
  <2>1. NeverPanics
    BY DEF SlicerInv, SupportedInv, NeverPanics
  <2>2. ASSUME pc = "done" PROVE emitted = Wanted
    <3>1. emitted = Prefix(slice.end)
      BY <2>2 DEF SlicerInv, SupportedInv
    <3>2. slice.end = Product(slice.counts)
      BY EndIs DEF SlicerInv
    <3>3. Wanted = [k \in 1..Product(slice.counts) |-> Wanted[k]]
      BY DEF Wanted, SliceOf
    <3> QED
      BY <3>1, <3>2, <3>3 DEF Prefix
  <2> QED
    BY <2>1, <2>2
<1> QED
  BY <1>1, SlicerInvariant, PTL

-------------------------------------------------------------------------------
(***************************************************************************)
(* Every call advances, for every request, supported or not.               *)
(***************************************************************************)
\* The coordinates stay within the slice; a call that has made its first pass has
\* advanced.
AdvancingInv ==
  /\ Proper(slice)
  /\ offset \in Nat
  /\ slice.end > 0 => Fits(offset_coords, slice.counts)
  /\ pc \in {"loop", "carry", "return"} =>
       /\ slice.end > 0 /\ Rank > 0 /\ di \in 0..Rank /\ carry \in Nat /\ advance \in Nat
       /\ chunk.offset \in Seq(Nat) /\ Len(chunk.offset) = Rank
       /\ IF pc = "loop" /\ di = 0
          THEN carry = 0 /\ chunk = ChunkAtCoord(slice.ds, ValueAt(slice, offset_coords))
          ELSE advance > 0

\* A coordinate that is set within its dimension.
LEMMA SetCoordinate ==
  ASSUME NEW c \in Seq(Nat), NEW x, Fits(x, c), NEW d \in 1..Len(c), NEW y \in Nat, y < c[d]
  PROVE  Fits([x EXCEPT ![d] = y], c)
<1> DEFINE z == [x EXCEPT ![d] = y]
<1>1. x \in Seq(Nat) /\ Len(x) = Len(c) /\ \A e \in 1..Len(c) : x[e] < c[e]
  BY DEF Fits
<1>2. z \in Seq(Nat) /\ Len(z) = Len(c)
  BY <1>1
<1>3. \A e \in 1..Len(c) : z[e] = IF e = d THEN y ELSE x[e]
  BY <1>1
<1> HIDE DEF z
<1>4. Fits(z, c)
  BY <1>1, <1>2, <1>3 DEF Fits
<1> QED
  BY <1>4 DEF z

\* The quotient and the remainder of what is in a dimension.
LEMMA Remainder ==
  ASSUME NEW a \in Nat, NEW b \in Nat \ {0}
  PROVE  a % b \in Nat /\ a % b < b /\ a \div b \in Nat /\ (a < b => a % b = a)
<1>1. a % b \in 0..(b - 1)
  OBVIOUS
<1>2. a \div b \in Nat
  OBVIOUS
<1>3. a < b => a % b = a
  OBVIOUS
<1> QED
  BY <1>1, <1>2, <1>3

\* What a pass works on.
LEMMA PassFacts ==
  ASSUME AdvancingInv, pc \in {"loop", "carry"}, di < Rank
  PROVE  /\ Dim \in 1..Rank /\ Rank = Len(slice.counts) /\ Rank \in Nat
         /\ slice.counts[Dim] \in Nat \ {0} /\ offset_coords[Dim] \in Nat
         /\ offset_coords[Dim] < slice.counts[Dim]
         /\ Carried(Dim) \in Nat /\ carry \in Nat /\ advance \in Nat
         /\ di \in Nat /\ di + 1 \in 0..Rank
         /\ slice.counts \in Seq(Nat) /\ Fits(offset_coords, slice.counts)
<1>1. Rank \in Nat /\ Rank = Len(slice.counts) /\ slice.counts \in Seq(Nat)
  BY Ranks DEF Rank, AdvancingInv
<1>2. /\ slice.end > 0 /\ di \in 0..Rank /\ carry \in Nat /\ advance \in Nat
      /\ Fits(offset_coords, slice.counts)
  BY DEF AdvancingInv
<1>3. Dim \in 1..Rank /\ di \in Nat /\ di + 1 \in 0..Rank
  BY <1>1, <1>2 DEF Dim
<1>4. slice.counts[Dim] \in Nat \ {0}
  BY <1>1, <1>2, <1>3, Strides DEF AdvancingInv
<1>5. offset_coords[Dim] \in Nat /\ offset_coords[Dim] < slice.counts[Dim]
  BY SMTT(30), <1>1, <1>2, <1>3 DEF Fits
<1>6. Carried(Dim) \in Nat
  BY <1>2, <1>5 DEF Carried
<1> QED
  BY <1>1, <1>2, <1>3, <1>4, <1>5, <1>6

LEMMA AdvancingInit == Init => AdvancingInv
<1> SUFFICES ASSUME Init PROVE AdvancingInv
  OBVIOUS
<1>1. PICK r \in Requests : /\ slice = ChunkSlices(r)
                            /\ offset_coords = [d \in 1..Len(r.counts) |-> 0]
  BY DEF Init
<1>2. Proper(slice) /\ Len(slice.counts) = Len(r.counts)
  BY <1>1, ChunkSlicesProper
<1>3. ASSUME slice.end > 0 PROVE Fits(offset_coords, slice.counts)
  <2> DEFINE n == Len(slice.counts)
             c == slice.counts
             x == offset_coords
  <2>1. n \in Nat /\ \A d \in 1..n : c[d] \in Nat \ {0}
    BY <1>2, <1>3, Ranks, Strides
  <2>2. x = [d \in 1..n |-> 0]
    BY <1>1, <1>2
  <2> HIDE DEF n, x
  <2>3. x \in Seq(Nat) /\ Len(x) = n /\ \A d \in 1..n : x[d] = 0
    BY <2>1, <2>2
  <2> QED
    BY <2>1, <2>3 DEF Fits, n, x
<1> QED
  BY <1>2, <1>3 DEF Init, AdvancingInv

\* Locate finds the chunk of the coordinates,
LEMMA LocateAdvancing ==
  ASSUME AdvancingInv, Locate
  PROVE  AdvancingInv'
<1>1. /\ pc = "next" /\ offset < slice.end /\ ~IsScalar(slice.ds)
      /\ UNCHANGED <<slice, offset, offset_coords>>
  BY DEF Locate, iterator
<1>2. slice.end > 0 /\ Proper(slice) /\ Fits(offset_coords, slice.counts) /\ offset \in Nat
  <2>1. slice.end \in Nat /\ offset \in Nat
    BY EndIs DEF AdvancingInv
  <2> QED
    BY <1>1, <2>1 DEF AdvancingInv
<1>3. CASE pc' = "panicked"
  BY <1>1, <1>2, <1>3 DEF AdvancingInv
<1>4. CASE pc' # "panicked"
  <2>1. Here = ValueAt(slice, offset_coords)
    BY DEF Here, ValueAt, Rank
  <2>2. /\ pc' = "loop" /\ chunk' = ChunkAtCoord(slice.ds, ValueAt(slice, offset_coords))
        /\ advance' = 0 /\ carry' = 0 /\ di' = 0
    BY <1>4, <2>1 DEF Locate
  <2>3. Rank \in Nat /\ Rank > 0 /\ Rank' = Rank
    <3>1. Rank \in Nat /\ Len(slice.ds.shape) = Rank /\ slice.ds.shape \in Seq(Nat)
      BY <1>2, Ranks DEF Rank
    <3>2. slice.ds.shape # << >>
      BY <1>1 DEF IsScalar
    <3> DEFINE h == slice.ds.shape
               n == Rank
    <3> HIDE DEF h, n
    <3>3. n # 0
      BY <3>1, <3>2 DEF h, n
    <3>4. Rank' = Rank
      BY <1>1 DEF Rank
    <3> QED
      BY <3>1, <3>3, <3>4 DEF n
  <2>4. chunk'.offset \in Seq(Nat) /\ Len(chunk'.offset) = Rank
    BY <1>2, <2>2, Holder DEF Rank
  <2>5. ValueAt(slice, offset_coords)' = ValueAt(slice, offset_coords)
    BY <1>1 DEF ValueAt
  <2> QED
    BY <1>1, <1>2, <2>2, <2>3, <2>4, <2>5 DEF AdvancingInv
<1> QED
  BY <1>3, <1>4

\* and the first pass goes on in it: the last dimension is never skipped, and the
\* chunk does not end before the coordinate that is in it.
LEMMA PassAdvances ==
  ASSUME AdvancingInv, PassAdvance
  PROVE  AdvancingInv'
<1> DEFINE c  == slice.counts[Dim]
           x  == offset_coords[Dim]
           e  == CountChunkEnd(Dim)
           cu == Carried(Dim) % c
           up == Lesser(c, e)
           w  == slice.ds.chunk_dim_sz[Dim]
           df == (up - cu) * w
<1>1. /\ pc = "loop" /\ di < Rank /\ UNCHANGED <<slice, chunk>>
  BY DEF PassAdvance
<1>2. Proper(slice) /\ offset \in Nat /\ slice.end > 0 /\ Rank > 0
  BY <1>1 DEF AdvancingInv
<1>3. /\ Dim \in 1..Rank /\ Rank = Len(slice.counts) /\ Rank \in Nat
      /\ c \in Nat \ {0} /\ x \in Nat /\ x < c
      /\ Carried(Dim) \in Nat /\ carry \in Nat /\ advance \in Nat
      /\ di \in Nat /\ di + 1 \in 0..Rank
      /\ slice.counts \in Seq(Nat) /\ Fits(offset_coords, slice.counts)
  BY <1>1, PassFacts
<1>4. CASE e < 0 \/ up < cu
  <2>1. pc' = "panicked" /\ UNCHANGED <<offset, offset_coords>>
    BY <1>4 DEF PassAdvance, iterator
  <2> QED
    BY <1>1, <2>1 DEF AdvancingInv
<1>5. CASE ~(e < 0 \/ up < cu)
  <2>1. /\ offset_coords' = [offset_coords EXCEPT ![Dim] = up % c]
        /\ carry' = (Carried(Dim) \div c) + (up \div c)
        /\ advance' = advance + df /\ offset' = offset + df /\ di' = di + 1
        /\ pc' \in {"loop", "carry", "panicked"}
    BY <1>5 DEF PassAdvance
  <2>2. w \in Nat \ {0} /\ (di = 0 => w = 1)
    <3>1. di = 0 => Dim = Len(slice.counts)
      BY <1>3 DEF Dim
    <3> QED
      BY <1>2, <1>3, <3>1, ChunkStrides
  <2>3. /\ slice.indices[Dim] \in Nat /\ slice.ds.shape[Dim] \in Nat
        /\ slice.ds.chunk_shape[Dim] \in Nat \ {0}
    BY <1>2, <1>3, Ranks
  <2>4. chunk.offset[Dim] \in Nat
    <3> DEFINE z == chunk.offset
    <3>1. z \in Seq(Nat) /\ Len(z) = Rank
      BY <1>1 DEF AdvancingInv
    <3> HIDE DEF z
    <3>2. z[Dim] \in Nat
      BY SMTT(30), <1>3, <3>1
    <3> QED
      BY <3>2 DEF z
  <2>5. e \in Nat /\ cu \in Nat /\ cu < c
    <3>1. ChunkSz(Dim) \in Int
      BY <2>3, <2>4 DEF ChunkSz
    <3>2. e \in Int
      BY <2>3, <2>4, <3>1 DEF CountChunkEnd
    <3>3. cu \in Nat /\ cu < c
      <4> DEFINE a == Carried(Dim)
      <4> HIDE DEF a, c
      <4>1. a % c \in Nat /\ a % c < c
        BY <1>3, Remainder DEF a
      <4> QED
        BY <4>1 DEF a
    <3> HIDE DEF e, cu
    <3> QED
      BY <1>5, <3>2, <3>3
  <2>6. up \in Nat /\ up >= cu
    <3> HIDE DEF e, cu, c
    <3> QED
      BY <1>3, <1>5, <2>5 DEF Lesser
  <2>7. df \in Nat
    <3> HIDE DEF up, cu, w
    <3>1. up - cu \in Nat
      BY <2>5, <2>6
    <3> DEFINE k == up - cu
    <3> HIDE DEF k
    <3> QED
      BY <2>2, <3>1 DEF k
  <2>8. ASSUME di = 0 PROVE df > 0
    <3>1. /\ carry = 0 /\ chunk = ChunkAtCoord(slice.ds, ValueAt(slice, offset_coords))
      BY <1>1, <2>8 DEF AdvancingInv
    <3> DEFINE v == ValueAt(slice, offset_coords)
               o == chunk.offset[Dim]
               b == slice.ds.chunk_shape[Dim]
               h == slice.ds.shape[Dim]
               i == slice.indices[Dim]
    <3>2. v[Dim] = i + x /\ v[Dim] < h
      BY <1>2, <1>3, WithinDataset
    <3>3. v[Dim] < o + b
      BY <1>2, <1>3, <3>1, Holder
    <3>4. e = o + (IF o + b > h THEN b - ((o + b) - h) ELSE b) - i
      BY DEF CountChunkEnd, ChunkSz
    <3>5. cu = x
      <4>1. Carried(Dim) = x
        BY <1>3, <3>1 DEF Carried
      <4> HIDE DEF x, c
      <4> QED
        BY <1>3, <4>1, Remainder
    <3> HIDE DEF v, o, b, h, i, x, e, c, cu
    <3>6. x < e
      <4>1. o \in Nat /\ b \in Nat /\ h \in Nat /\ i \in Nat /\ x \in Nat
        BY <1>3, <2>3, <2>4 DEF o, b, h, i
      <4>2. i + x < h /\ i + x < o + b
        BY <3>2, <3>3
      <4> QED
        BY <3>4, <4>1, <4>2
    <3>7. up > cu
      BY <1>3, <2>5, <3>5, <3>6 DEF Lesser
    <3> HIDE DEF up, w
    <3> QED
      BY <2>2, <2>5, <2>6, <2>8, <3>7
  <2>9. di > 0 => advance > 0
    BY <1>1 DEF AdvancingInv
  <2> HIDE DEF df
  <2>10. advance' \in Nat /\ advance' > 0 /\ offset' \in Nat
    BY <1>2, <1>3, <2>1, <2>7, <2>8, <2>9
  <2>11. Fits(offset_coords', slice.counts) /\ carry' \in Nat
    <3> DEFINE a == Carried(Dim)
    <3> HIDE DEF up, c, a
    <3>1. up % c \in Nat /\ up % c < c /\ up \div c \in Nat /\ a \div c \in Nat
      BY <1>3, <2>6, Remainder DEF a
    <3>2. Fits([offset_coords EXCEPT ![Dim] = up % c], slice.counts)
      BY <1>3, <3>1, SetCoordinate DEF c
    <3> QED
      BY <2>1, <3>1, <3>2 DEF a
  <2>12. Rank' = Rank /\ di' \in 0..Rank /\ di' # 0
    BY <1>1, <1>3, <2>1 DEF Rank
  <2>13. pc' \in {"loop", "carry"} => chunk'.offset \in Seq(Nat) /\ Len(chunk'.offset) = Rank
    BY <1>1 DEF AdvancingInv
  <2> QED
    BY <1>1, <1>2, <2>1, <2>10, <2>11, <2>12, <2>13 DEF AdvancingInv
<1> QED
  BY <1>4, <1>5

\* A pass that only carries is never the first one.
LEMMA SingleAdvancing ==
  ASSUME AdvancingInv, PassSingle \/ CarryOver
  PROVE  AdvancingInv'
<1> DEFINE c == slice.counts[Dim]
           a == Carried(Dim)
<1>1. /\ pc \in {"loop", "carry"} /\ di < Rank
      /\ UNCHANGED <<slice, offset, chunk, advance>>
      /\ offset_coords' = [offset_coords EXCEPT ![Dim] = a % c]
      /\ carry' = a \div c /\ di' = di + 1
      /\ pc' \in {"loop", "carry", "return"}
  BY DEF PassSingle, CarryOver
<1>2. Proper(slice) /\ offset \in Nat /\ slice.end > 0 /\ Rank > 0
      /\ chunk.offset \in Seq(Nat) /\ Len(chunk.offset) = Rank
  BY <1>1 DEF AdvancingInv
<1>3. /\ Dim \in 1..Rank /\ Rank = Len(slice.counts) /\ Rank \in Nat
      /\ c \in Nat \ {0} /\ a \in Nat /\ advance \in Nat
      /\ di \in Nat /\ di + 1 \in 0..Rank
      /\ slice.counts \in Seq(Nat) /\ Fits(offset_coords, slice.counts)
  BY <1>1, PassFacts
<1>4. advance > 0
  <2>1. CASE PassSingle
    <3>1. di # 0
      <4> SUFFICES ASSUME di = 0 PROVE FALSE
        OBVIOUS
      <4>1. Dim = Len(slice.counts) /\ Len(slice.counts) > 0
        BY <1>2, <1>3 DEF Dim
      <4>2. slice.ds.chunk_dim_sz[Dim] = 1
        BY <1>2, <4>1, ChunkStrides
      <4> QED
        BY <2>1, <4>2 DEF PassSingle
    <3> QED
      BY <2>1, <3>1 DEF PassSingle, AdvancingInv
  <2>2. CASE CarryOver
    BY <2>2 DEF CarryOver, AdvancingInv
  <2> QED
    BY <2>1, <2>2
<1>5. Fits(offset_coords', slice.counts) /\ carry' \in Nat
  <2> HIDE DEF a, c
  <2>1. a % c \in Nat /\ a % c < c /\ a \div c \in Nat
    BY <1>3, Remainder
  <2>2. Fits([offset_coords EXCEPT ![Dim] = a % c], slice.counts)
    BY <1>3, <2>1, SetCoordinate DEF c
  <2> QED
    BY <1>1, <2>1, <2>2
<1>6. Rank' = Rank /\ di' # 0
  BY <1>1, <1>3 DEF Rank
<1> QED
  BY <1>1, <1>2, <1>3, <1>4, <1>5, <1>6 DEF AdvancingInv

LEMMA AdvancingNext == AdvancingInv /\ [Next]_vars => AdvancingInv'
<1> SUFFICES ASSUME AdvancingInv, [Next]_vars PROVE AdvancingInv'
  OBVIOUS
<1>1. CASE Exhausted
  BY <1>1 DEF Exhausted, AdvancingInv, iterator
<1>2. CASE NextScalar
  <2>1. /\ UNCHANGED <<slice, offset_coords>> /\ offset' \in {offset, offset + 1}
        /\ pc' \in {"next", "panicked"}
    BY <1>2 DEF NextScalar
  <2> QED
    BY <2>1 DEF AdvancingInv
<1>3. CASE Locate
  BY <1>3, LocateAdvancing
<1>4. CASE PassSingle
  BY <1>4, SingleAdvancing
<1>5. CASE PassAdvance
  BY <1>5, PassAdvances
<1>6. CASE LoopEnds
  <2>1. /\ pc = "loop" /\ di = Rank /\ pc' = "carry"
        /\ UNCHANGED <<slice, offset, offset_coords, chunk, advance, carry, di>>
    BY <1>6 DEF LoopEnds, iterator, locals
  <2>2. Rank' = Rank /\ Rank > 0 /\ Rank \in Nat
    BY <2>1, Ranks DEF Rank, AdvancingInv
  <2>3. di # 0
    BY <2>1, <2>2
  <2> QED
    BY <2>1, <2>2, <2>3 DEF AdvancingInv
<1>7. CASE CarryOver
  BY <1>7, SingleAdvancing
<1>8. CASE Return
  <2>1. UNCHANGED <<slice, offset, offset_coords>> /\ pc' \in {"next", "panicked"}
    BY <1>8 DEF Return, iterator
  <2> QED
    BY <2>1 DEF AdvancingInv
<1>9. CASE UNCHANGED vars
  <2>1. UNCHANGED <<slice, offset, offset_coords, chunk, advance, carry, di, pc>>
    BY <1>9 DEF vars, iterator, locals
  <2> QED
    BY <2>1 DEF AdvancingInv, Rank, ValueAt
<1> QED
  BY <1>1, <1>2, <1>3, <1>4, <1>5, <1>6, <1>7, <1>8, <1>9 DEF Next

\* Every call of next() has advanced when it returns, whatever the request: the
\* assertion that it does is never needed, and a release build does not loop over
\* empty runs (dataset.rs:621).
THEOREM EveryCallAdvances == Spec => [](pc \in {"carry", "return"} => advance > 0)
<1>1. AdvancingInv => (pc \in {"carry", "return"} => advance > 0)
  BY DEF AdvancingInv
<1> QED
  BY <1>1, AdvancingInit, AdvancingNext, PTL DEF Spec

-------------------------------------------------------------------------------
\* A slice that does not cover, in the last dimension, the chunk that it begins in is
\* supported, whatever it is in the others: the loop never goes on (dataset.rs:594).
THEOREM PartlyInLastIsSupported ==
  ASSUME NEW s, s.counts \in Seq(Nat), ~Covers(s, Len(s.counts))
  PROVE  Supported(s)
<1> DEFINE n == Len(s.counts)
           partial == {d \in 1..n : ~Covers(s, d)}
<1>1. CASE n = 0
  <2>1. 1..(n - 1) = {}
    BY <1>1
  <2> HIDE DEF n
  <2> QED
    BY <2>1 DEF Supported, n
<1>2. CASE n # 0
  <2>1. n \in Nat /\ n \in 1..n
    BY <1>2
  <2>2. n \in partial /\ \A e \in partial : e <= n
    BY <2>1
  <2>3. \A d \in partial : (\A e \in partial : e <= d) => d = n
    <3> SUFFICES ASSUME NEW d \in partial, \A e \in partial : e <= d PROVE d = n
      OBVIOUS
    <3>1. d \in 1..n /\ n <= d
      BY <2>2
    <3> QED
      BY <2>1, <3>1
  <2>4. Innermost(s) = n
    <3>1. partial # {} /\ \E d \in partial : \A e \in partial : e <= d
      BY <2>2
    <3> HIDE DEF n
    <3>2. Innermost(s) = CHOOSE d \in partial : \A e \in partial : e <= d
      BY <3>1, Zenon DEF Innermost, n
    <3> HIDE DEF partial
    <3> QED
      BY <2>3, <3>1, <3>2
  <2>5. \A d \in 1..(n - 1) : d < n
    BY <2>1
  <2> HIDE DEF n
  <2> QED
    BY <2>4, <2>5, Zenon DEF Supported, n
<1> QED
  BY <1>1, <1>2

\* The datasets assumed of the requests are those that Dataset::index makes: of one whose
\* chunks are sorted and all there, as it leaves them, every value lies in the chunk that
\* chunk_at_coord names, and in no other (dataset.rs:138, 167).
THEOREM SortedIsLaidOut ==
  ASSUME NEW s, NEW cs, Shapely(s, cs), NEW chunks, Sorted(chunks, s, cs),
         Len(chunks) = Product(Counts(s, cs))
  PROVE  LaidOut(New(s, chunks, cs))
<1> DEFINE ds == New(s, chunks, cs)
<1>1. /\ ds.shape = s /\ ds.chunks = chunks /\ ds.chunk_shape = cs
      /\ s \in Seq(Nat) /\ cs \in Seq(Nat \ {0}) /\ Len(cs) = Len(s)
  BY DEF New, Shapely
<1>2. /\ Len(chunks) \in Nat
      /\ \A i \in 1..Len(chunks) : OnGrid(chunks[i].offset, s, cs)
      /\ \A i, j \in 1..Len(chunks) : i < j => Precedes(chunks[i].offset, chunks[j].offset)
  BY DEF Sorted
<1>3. ASSUME NEW i \in 1..Len(chunks)
      PROVE  LET o == chunks[i].offset
             IN /\ o \in Seq(Nat) /\ Len(o) = Len(s)
                /\ \A d \in 1..Len(o) : o[d] % cs[d] = 0
  <2> DEFINE o == chunks[i].offset
  <2>1. o \in Seq(Nat) /\ Len(o) = Len(s)
        /\ \A d \in 1..Len(s) : o[d] \in {k * cs[d] : k \in 0..(CeilDiv(s[d], cs[d]) - 1)}
    BY <1>2 DEF OnGrid
  <2>2. ASSUME NEW d \in 1..Len(s) PROVE o[d] % cs[d] = 0
    <3> DEFINE w == cs[d]
               a == o[d]
    <3>1. w \in Nat \ {0}
      BY <1>1
    <3>2. PICK k \in 0..(CeilDiv(s[d], cs[d]) - 1) : a = k * w
      BY <2>1
    <3> HIDE DEF w, a
    <3>3. k \in Int /\ 0 \in 0..(w - 1)
      BY <3>1
    <3>4. (k * w + 0) % w = 0
      BY <3>1, <3>3, Parts
    <3> DEFINE m == k * w
    <3>5. m \in Int
      BY <3>1, <3>3
    <3> HIDE DEF m
    <3>6. a % w = 0
      <4>1. (m + 0) % w = 0 /\ a = m
        BY <3>2, <3>4 DEF m
      <4>2. m + 0 = m
        BY <3>5
      <4> QED
        BY <4>1, <4>2
    <3> QED
      BY <3>6 DEF a, w
  <2> QED
    BY <2>1, <2>2
<1>4. ASSUME NEW x \in Coordinates(s)
      PROVE  /\ ChunkIndex(ds, x) \in 1..Len(chunks)
             /\ \A n \in 1..Len(chunks) : Holds(chunks[n], x, cs) <=> n = ChunkIndex(ds, x)
  <2> DEFINE m == ChunkIndex(ds, x)
  <2>1. m \in 1..Len(chunks) /\ Holds(chunks[m], x, cs)
    BY ChunkFound
  <2> HIDE DEF m
  <2>2. Fits(x, s)
    BY <1>1, CoordinatesAre
  <2>3. ASSUME NEW n \in 1..Len(chunks), Holds(chunks[n], x, cs) PROVE n = m
    <3>1. OnGrid(chunks[n].offset, s, cs) /\ OnGrid(chunks[m].offset, s, cs)
      BY <1>2, <2>1
    <3>2. Cell(chunks[n].offset, cs) = Cell(x, cs)
      BY <2>2, <2>3, <3>1, CellHolds
    <3>3. Cell(chunks[m].offset, cs) = Cell(x, cs)
      BY <2>1, <2>2, <3>1, CellHolds
    <3>4. chunks[n].offset = chunks[m].offset
      BY <3>1, <3>2, <3>3, CellSame
    <3> DEFINE o == chunks[n].offset
    <3>5. ~Precedes(o, o)
      <4>1. \A d \in 1..Len(o) : o[d] \in Nat
        <5>1. o \in Seq(Nat)
          BY <1>3
        <5> HIDE DEF o
        <5> QED
          BY <5>1
      <4> HIDE DEF o
      <4> QED
        BY <4>1 DEF Precedes
    <3>6. ~(n < m) /\ ~(m < n)
      BY <1>2, <2>1, <3>4, <3>5
    <3> QED
      BY <2>1, <3>6
  <2> QED
    BY <2>1, <2>3 DEF m
<1> HIDE DEF ds
<1>5. ds = New(ds.shape, ds.chunks, ds.chunk_shape)
  BY <1>1 DEF ds
<1> QED
  BY <1>1, <1>2, <1>3, <1>4, <1>5 DEF LaidOut, ds
===============================================================================
