------------------------------ MODULE DatasetIndex ------------------------------
(***************************************************************************)
(* Indexing one dataset (Dataset::index in                                 *)
(* src/src/idx/dataset/dataset.rs): its filters, its layout and, when it   *)
(* is chunked, the chunks the HDF5 library visits, in an order of its own  *)
(* and without those that were never allocated.  The chunks are sorted and *)
(* counted, and the dataset is laid out.  From then on the file is read    *)
(* without the library: what is wrong here is wrong in every read.         *)
(*                                                                         *)
(* A dataset, as the library describes it, is a record of its shape, its   *)
(* filters, the size of a value (dsize), the shape of its chunks (chunk,   *)
(* or NotChunked), its address (when contiguous, or NoAddress), the chunks *)
(* that are allocated, and for the address of each the filters left out    *)
(* for it (skipped): the library stores a chunk without a filter that      *)
(* fails, as deflate does when the result would be larger.  GroupIndex     *)
(* opens one dataset after the other.                                      *)
(***************************************************************************)
EXTENDS Dataset, Filters, FiniteSets, Functions

VARIABLES
  file,       \* the dataset that is indexed
  f,          \* the next filter
  shuffle, gzip,
  unvisited,  \* allocated chunks the library has still to visit
  found,      \* the chunks so far
  result,     \* the layout of the indexed dataset
  pc          \* "idle" between two datasets

datasetVars == <<file, f, shuffle, gzip, unvisited, found, result, pc>>

NoAddress  == -1
NotChunked == << -1 >>
NoDataset  == << >>

Zero == [d \in 1..Len(file.shape) |-> 0]

IsChunked  == file.chunk # NotChunked
ChunkShape == IF IsChunked THEN file.chunk ELSE file.shape

\* What the library says of a dataset.  The chunks are on a grid that begins at
\* the origin, inside of the dataset, each of them once; a contiguous dataset has
\* an address when it has values.
FileOk(d) ==
  /\ d.shape \in Seq(Nat)
  /\ d.filters \in Seq(STRING)
  /\ d.address \in Int /\ d.dsize \in Nat \ {0}
  /\ d.chunk # NotChunked =>
       /\ d.chunk \in Seq(Nat \ {0}) /\ Len(d.chunk) = Len(d.shape)
       /\ IsFiniteSet(d.allocated)
       /\ \A c \in d.allocated :
            /\ Len(c.offset) = Len(d.shape) /\ c.offset \in Seq(Nat)
            /\ \A n \in 1..Len(d.shape) :
                 c.offset[n] \in {k * d.chunk[n] : k \in 0..(CeilDiv(d.shape[n], d.chunk[n]) - 1)}
       /\ \A b, c \in d.allocated : b.offset = c.offset => b = c
  /\ d.chunk = NotChunked /\ d.address # NoAddress => \A n \in 1..Len(d.shape) : d.shape[n] # 0

NoFile ==
  [shape |-> << >>, filters |-> << >>, dsize |-> 1, chunk |-> NotChunked,
   address |-> NoAddress, allocated |-> {}, skipped |-> << >>]

InitDataset ==
  /\ file = NoFile
  /\ f = 1
  /\ shuffle = FALSE /\ gzip = FALSE
  /\ unvisited = {}
  /\ found = << >>
  /\ result = NoDataset
  /\ pc = "idle"

\* Dataset::index is called.
Open(d) ==
  /\ pc = "idle"
  /\ file' = d
  /\ f' = 1
  /\ shuffle' = FALSE /\ gzip' = FALSE
  /\ found' = << >>
  /\ pc' = "filters"
  /\ UNCHANGED <<unvisited, result>>

\* As a mutant: a dataset that is refused is left out.
RejectSkips == pc' = "idle" /\ UNCHANGED <<file, f, shuffle, gzip, unvisited, found, result>>

Reject == pc' = "rejected" /\ UNCHANGED <<file, f, shuffle, gzip, unvisited, found, result>>

\* One filter of the pipeline: that it is there is kept, its place is not.
ReadFilter ==
  /\ pc = "filters"
  /\ f <= Len(file.filters)
  /\ file.filters[f] \in {"shuffle", "deflate"}
  /\ shuffle' = (shuffle \/ file.filters[f] = "shuffle")
  /\ gzip' = (gzip \/ file.filters[f] = "deflate")
  /\ f' = f + 1
  /\ UNCHANGED <<file, unvisited, found, result, pc>>

UnsupportedFilter ==
  /\ pc = "filters"
  /\ f <= Len(file.filters)
  /\ file.filters[f] \notin {"shuffle", "deflate"}
  /\ Reject

FiltersRead ==
  /\ pc = "filters"
  /\ f > Len(file.filters)
  /\ pc' = "layout"
  /\ UNCHANGED <<file, f, shuffle, gzip, unvisited, found, result>>

\* A contiguous dataset is one chunk.
Contiguous ==
  /\ pc = "layout"
  /\ ~IsChunked /\ file.address # NoAddress
  /\ found' = << [addr |-> file.address, offset |-> Zero] >>
  /\ pc' = "sort"
  /\ UNCHANGED <<file, f, shuffle, gzip, unvisited, result>>

Chunked ==
  /\ pc = "layout"
  /\ IsChunked /\ file.address = NoAddress
  /\ unvisited' = file.allocated
  /\ pc' = "visit"
  /\ UNCHANGED <<file, f, shuffle, gzip, found, result>>

\* Neither: the values are in the header, or nowhere yet.
UnsupportedLayout ==
  /\ pc = "layout"
  /\ IsChunked <=> file.address # NoAddress
  /\ Reject

\* chunks_visit calls back for a chunk, in the order of the file's own index.
Visit ==
  /\ pc = "visit"
  /\ \E c \in unvisited :
       /\ unvisited' = unvisited \ {c}
       /\ found' = Append(found, c)
  /\ UNCHANGED <<file, f, shuffle, gzip, result, pc>>

Visited ==
  /\ pc = "visit"
  /\ unvisited = {}
  /\ pc' = "sort"
  /\ UNCHANGED <<file, f, shuffle, gzip, unvisited, found, result>>

\* As a mutant: the chunks stay in the order of the visit.
KeepOrder ==
  /\ pc = "sort"
  /\ pc' = "count"
  /\ UNCHANGED <<file, f, shuffle, gzip, unvisited, found, result>>

\* The chunks are sorted by their first coordinates (Chunk::cmp).
Sort ==
  /\ pc = "sort"
  /\ \E p \in Bijection(1..Len(found), 1..Len(found)) :
       /\ \A i, j \in 1..Len(found) :
            i < j => ~Precedes(found[p[j]].offset, found[p[i]].offset)
       /\ found' = [n \in 1..Len(found) |-> found[p[n]]]
  /\ pc' = "count"
  /\ UNCHANGED <<file, f, shuffle, gzip, unvisited, result>>

\* As a mutant: the chunks that are cut at the edge are not expected.
ExpectedWhole ==
  Product([d \in 1..Len(file.shape) |-> file.shape[d] \div ChunkShape[d]])

\* How many chunks cover the dataset.
Expected ==
  Product([d \in 1..Len(file.shape) |-> CeilDiv(file.shape[d], ChunkShape[d])])

Unexpected ==
  /\ pc = "count"
  /\ Len(found) # Expected
  /\ Reject

LayOut ==
  /\ pc = "count"
  /\ Len(found) = Expected
  /\ result' = New(file.shape, found, ChunkShape)
  /\ pc' = "indexed"
  /\ UNCHANGED <<file, f, shuffle, gzip, unvisited, found>>

\* A call of the library fails, or an answer is not to be had.
LibraryFails ==
  /\ pc \in {"filters", "layout", "visit"}
  /\ pc' = "failed"
  /\ UNCHANGED <<file, f, shuffle, gzip, unvisited, found, result>>

Index ==
  \/ ReadFilter \/ UnsupportedFilter \/ FiltersRead
  \/ Contiguous \/ Chunked \/ UnsupportedLayout
  \/ Visit \/ Visited \/ Sort \/ Unexpected \/ LayOut
  \/ LibraryFails

-------------------------------------------------------------------------------
\* In an indexed dataset the arithmetic of chunk_at_coord (dataset.rs:358) finds
\* for every coordinate the chunk of the file that holds it, in whatever order
\* the library visited them.
FindsEveryChunk ==
  pc = "indexed" =>
    \A x \in Coordinates(file.shape) :
      LET c == ChunkAtCoord(result, x)
      IN /\ Holds(c, x, ChunkShape)
         /\ IsChunked => c \in file.allocated
         /\ ~IsChunked => c.addr = file.address

\* A dataset is indexed when its filters and its layout are supported and all
\* of its chunks are in the file, and only then: the number of chunks is enough
\* to tell (dataset.rs:138).
AllChunksInFile(d) ==
  \A x \in Coordinates(d.shape) : \E c \in d.allocated : Holds(c, x, d.chunk)

Indexable(d) ==
  /\ \A n \in 1..Len(d.filters) : d.filters[n] \in {"shuffle", "deflate"}
  /\ IF d.chunk # NotChunked THEN d.address = NoAddress /\ AllChunksInFile(d)
     ELSE d.address # NoAddress

IndexedIfIndexable ==
  /\ pc = "indexed" => Indexable(file)
  /\ pc = "rejected" => ~Indexable(file)

\* The filters that changed the bytes of the chunk at addr: shuffling values of
\* one byte does not.
Applied(addr) ==
  LET kept == SelectSeq([n \in 1..Len(file.filters) |-> n],
                LAMBDA n : /\ n \notin file.skipped[addr]
                           /\ file.dsize > 1 \/ file.filters[n] # "shuffle")
  IN [n \in 1..Len(kept) |-> file.filters[kept[n]]]

\* What the two flags stand for.
Undone == (IF shuffle /\ file.dsize > 1 THEN <<"shuffle">> ELSE << >>)
            \o (IF gzip THEN <<"deflate">> ELSE << >>)

\* Of an indexed dataset a chunk is decoded to what was written exactly if the
\* filters applied to it are those the flags stand for, in that order, and it
\* can be unshuffled.  The flags forget the order and the number of the filters,
\* and the index forgets that the library left one out for a chunk; values of,
\* say, three bytes are indexed when shuffled, and reading them panics
\* (dataset.rs:62, 109, shuffle.rs:123, reader/chunk.rs:48).
DecodesExactly ==
  pc = "indexed" =>
    \A n \in 1..Len(found) :
      LET bytes  == Written(Product(ChunkShape), file.dsize)
          stored == Stored(Applied(found[n].addr), bytes, file.dsize)
      IN DecodeChunk(stored, file.dsize, gzip, shuffle) = bytes
           <=> /\ Applied(found[n].addr) = Undone
               /\ shuffle => file.dsize \in Sizes
===============================================================================
