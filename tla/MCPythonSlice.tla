----------------------------- MODULE MCPythonSlice -----------------------------
(***************************************************************************)
(* PythonSlice beside the requests of MCExtents: every subscript of one    *)
(* item with numbers from -MaxNumber to MaxNumber, of two items with fewer *)
(* forms, and with one item more than the dataset has dimensions.          *)
(***************************************************************************)
EXTENDS PythonSlice, MCExtents

CONSTANT MaxNumber

Index(n)               == [form |-> "int", n |-> n]
SliceTo(from, upto)    == [form |-> "slice", from |-> from, upto |-> upto, step |-> 1]
Stride(step)           == [form |-> "slice", from |-> None, upto |-> None, step |-> step]
Other                  == [form |-> "other"]

Numbers == (-MaxNumber)..MaxNumber
Ints    == {Index(n) : n \in Numbers}
Slices  == {SliceTo(from, upto) : from, upto \in Numbers \cup {None}}
Full    == SliceTo(None, None)

MCSubscripts ==
  {<< >>}
    \cup {<<i>> : i \in Ints \cup Slices \cup {Other, Stride(2), Stride(-1)}}
    \cup {<<i, j>> : i \in Ints \cup {SliceTo(1, None), Other},
                     j \in Ints \cup {SliceTo(0, 2), SliceTo(2, 1), Full, Other, Stride(2)}}
    \cup {<<Full, Full, k>> : k \in {Full, Other, Stride(2)}}
===============================================================================
