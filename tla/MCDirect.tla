-------------------------------- MODULE MCDirect --------------------------------
(***************************************************************************)
(* Direct on the requests of MCReadRequests, with values of two bytes and  *)
(* a buffer that is too small, exact, or larger than any, and two threads. *)
(***************************************************************************)
EXTENDS Direct, MCReadRequests

CONSTANTS w1, w2

SliceTable == SliceBytes(Dsz)
MCSlice    == SliceTable
MCDstLens  == {8, 24, 26}
MCWorkers  == {w1, w2}
===============================================================================
