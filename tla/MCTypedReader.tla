------------------------------ MODULE MCTypedReader ------------------------------
(***************************************************************************)
(* TypedReader on the requests of MCReadRequests, with values of four      *)
(* bytes, types of one to eight, and buffers that are too small, exact, or *)
(* two values longer than any request.                                     *)
(***************************************************************************)
EXTENDS TypedReader, MCReadRequests

SliceTable == SliceBytes(Dsz)
MCSlice == SliceTable

LOCAL Type(k, n) == [kind |-> k, size |-> n]
MCTypes == {Type("Int", 1), Type("UInt", 2), Type("Int", 4), Type("Float", 4), Type("Float", 8)}
MCOrders == {"LE", "BE", "Unknown"}
MCMachines == {"LE", "BE"}

\* The sizes that values and values_dyn_par come to, and one that is longer.
MCDstLens == {0, 4, 6, 8, 12, 16, 24, 48, 56}
===============================================================================
