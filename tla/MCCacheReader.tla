------------------------------ MODULE MCCacheReader ------------------------------
(***************************************************************************)
(* CacheReader on the requests of MCReadRequests, with values of two bytes *)
(* and a buffer that is too small, exact, or larger than any request.      *)
(***************************************************************************)
EXTENDS CacheReader, MCReadRequests

SliceTable == SliceBytes(Dsz)
MCSlice   == SliceTable
MCDstLens == {8, 24, 26}
===============================================================================
