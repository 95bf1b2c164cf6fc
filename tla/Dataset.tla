-------------------------------- MODULE Dataset --------------------------------
(***************************************************************************)
(* The layout of one HDF5 dataset (src/src/idx/dataset/dataset.rs, struct  *)
(* Dataset) and its chunks (src/src/idx/chunk.rs): how the strides are     *)
(* derived from the shapes, and how the chunk that holds a coordinate is   *)
(* found.  A chunk is a record of its address in the file and of the       *)
(* coordinates where it begins; its storage size matters to the readers    *)
(* only, which decide whether reading it succeeds.                         *)
(***************************************************************************)
EXTENDS Arrays

\* Dataset::new: the dataset with the three families of strides.  The chunks
\* are taken in the order in which they are given.
New(shape, chunks, chunk_shape) ==
  [ shape         |-> shape,
    chunks        |-> chunks,
    chunk_shape   |-> chunk_shape,
    scaled_dim_sz |-> DimSizes([d \in 1..Len(shape) |->
                                  CeilDiv(shape[d], chunk_shape[d])]),
    dim_sz        |-> DimSizes(shape),
    chunk_dim_sz  |-> DimSizes(chunk_shape) ]

IsScalar(ds) == ds.shape = << >>

\* Chunk::contains: the first dimension in which i leaves the chunk decides.
Contains(c, i, chunk_shape) ==
  LET Below(d) == i[d] < c.offset[d]
      Above(d) == i[d] >= c.offset[d] + chunk_shape[d]
      out      == {d \in 1..Len(i) : Below(d) \/ Above(d)}
  IN IF out = {} THEN "Equal"
     ELSE IF Below(CHOOSE d \in out : \A e \in out : d <= e)
          THEN "Less" ELSE "Greater"

\* Dataset::chunk_at_coord: the position, in the sorted list of chunks, of the
\* chunk that should hold the coordinate (from 1; the code counts from 0).
ChunkIndex(ds, i) ==
  1 + Dot([d \in 1..Len(i) |-> i[d] \div ds.chunk_shape[d]], ds.scaled_dim_sz)

ChunkAtCoord(ds, i) == ds.chunks[ChunkIndex(ds, i)]

\* ChunkSlicer::chunk_start: the position of a coordinate within a chunk.
ChunkStart(coords, chunk_offset, dim_sz) ==
  Dot([d \in 1..Len(coords) |-> coords[d] - chunk_offset[d]], dim_sz)

\* The condition of Dataset::chunk_slices for an empty iterator.
EmptyRequest(ds, indices, counts) ==
  \/ \E d \in 1..Len(ds.shape) : indices[d] + counts[d] > ds.shape[d]
  \/ \E d \in 1..Len(ds.shape) : counts[d] = 0

-------------------------------------------------------------------------------
(***************************************************************************)
(* What the layout promises, stated without the code's index arithmetic:   *)
(* the value at coordinate x is stored in the chunk whose box holds x, at  *)
(* its row-major position in that box.                                     *)
(***************************************************************************)
Holds(c, x, chunk_shape) ==
  \A d \in 1..Len(x) : /\ c.offset[d] <= x[d]
                       /\ x[d] < c.offset[d] + chunk_shape[d]

\* The ordinal of a coordinate in a box: how many of the box come before it.
\* A value is named by the address of its chunk and its position in it.
Location(ds, x) ==
  LET c == ds.chunks[CHOOSE n \in 1..Len(ds.chunks) :
                           Holds(ds.chunks[n], x, ds.chunk_shape)]
  IN [ addr |-> c.addr,
       at   |-> Dot([d \in 1..Len(x) |-> x[d] - c.offset[d]],
                    DimSizes(ds.chunk_shape)) ]

\* The slice a request stands for, in row-major order: what a reader of the
\* dataset is asked to produce.
SliceOf(ds, indices, counts) ==
  [k \in 1..Product(counts) |->
     LET o == Unravel(k - 1, counts)
     IN Location(ds, [d \in 1..Len(counts) |-> indices[d] + o[d]])]
===============================================================================
