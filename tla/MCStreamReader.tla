----------------------------- MODULE MCStreamReader -----------------------------
(***************************************************************************)
(* StreamReader on the requests of MCReadRequests, and on values of all    *)
(* the kinds and orders that are treated differently: numbers that XDR     *)
(* widens, numbers that it does not, and values that are no numbers; with  *)
(* values asked for by their size, and by others.                          *)
(***************************************************************************)
EXTENDS StreamReader, MCReadRequests

SliceTable == SliceBytes(1)
MCSlice == SliceTable

Type(k, size, o) == [kind |-> k, dsize |-> size, order |-> o]

MCDatasets ==
  { Type("Int", 1, "LE"), Type("UInt", 2, "LE"), Type("Int", 2, "BE"),
    Type("Float", 4, "LE"), Type("Float", 4, "BE"), Type("Float", 4, "Unknown"),
    Type("Custom", 3, "Unknown"), Type("Custom", 2, "BE") }

MCMachines == {"LE", "BE"}
MCTypes == {[kind |-> "UInt", size |-> 1], [kind |-> "Int", size |-> 2],
            [kind |-> "UInt", size |-> 4], [kind |-> "Float", size |-> 4]}
===============================================================================
