----------------------------- MODULE MCChunkSlicer -----------------------------
(***************************************************************************)
(* Bounded instances of ChunkSlicer: datasets of rank NDims with extents   *)
(* up to MaxExtent and chunk shapes up to MaxChunk (chunks may be larger   *)
(* than an extendible dataset), and the slices Scope selects.  The scope   *)
(* "all ranks" joins the supported slices of that rank, every slice in two *)
(* dimensions with numbers up to MaxPlane, everything there is in one      *)
(* dimension with numbers up to MaxFlat, and scalars.                      *)
(***************************************************************************)
EXTENDS SlicerSupport, Grid

CONSTANTS NDims, MaxExtent, MaxChunk, MaxPlane, MaxFlat, Scope

ASSUME Scope \in {"fixed size", "contiguous", "all ranks"}

Layouts == [1..NDims -> 1..MaxExtent] \X [1..NDims -> 1..MaxChunk]
Planes  == [1..2 -> 1..MaxPlane] \X [1..2 -> 1..MaxPlane]

\* Every slice within the dataset and not empty, with numbers up to most.
SlicesWithin(ds, most) ==
  {r \in [ ds      : {ds},
           indices : [1..Len(ds.shape) -> 0..(most - 1)],
           counts  : [1..Len(ds.shape) -> 1..most] ] :
     \A d \in 1..Len(ds.shape) : r.indices[d] + r.counts[d] <= ds.shape[d]}

InBounds(layouts, most) ==
  UNION {SlicesWithin(GridDataset(l[1], l[2]), most) : l \in layouts}

\* Any index and count in one dimension, those outside of the dataset and
\* empty ones too, and a scalar.
Flat ==
  {[ds |-> GridDataset(<<>>, <<>>), indices |-> <<>>, counts |-> <<>>]} \cup
  {[ds |-> GridDataset(<<n>>, <<c>>), indices |-> <<i>>, counts |-> <<k>>] :
     n \in 1..MaxFlat, c \in 1..MaxFlat, i \in 0..MaxFlat, k \in 0..MaxFlat}

\* The chunk shapes the HDF5 library accepts for a dataset of fixed size.
FixedSize(layouts) ==
  {l \in layouts : \A d \in 1..NDims : l[2][d] <= l[1][d]}

\* Datasets of one chunk, as contiguous ones are laid out.
OneChunk(layouts) == {l \in layouts : l[1] = l[2]}

MCRequests ==
  CASE Scope = "fixed size" -> InBounds(FixedSize(Layouts), MaxExtent)
    [] Scope = "contiguous" -> InBounds(OneChunk(Layouts), MaxExtent)
    [] Scope = "all ranks" ->
         Flat \cup InBounds(Planes, MaxPlane)
           \cup {r \in InBounds(Layouts, MaxExtent) : Supported(r)}
===============================================================================
