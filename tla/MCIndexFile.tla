------------------------------ MODULE MCIndexFile ------------------------------
(***************************************************************************)
(* IndexFile with a data file that is replaced twice, two runs of hfxidx   *)
(* of which one is stopped, and calls that read two chunks.                *)
(***************************************************************************)
EXTENDS IndexFile

MCChunks == {"a", "b"}
===============================================================================
