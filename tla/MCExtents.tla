------------------------------- MODULE MCExtents -------------------------------
(***************************************************************************)
(* Extents on every form of range with numbers of Width bits, for datasets *)
(* of one dimension, on pairs of ranges with numbers up to Some for two,   *)
(* and on the requests that are refused.                                   *)
(***************************************************************************)
EXTENDS Extents

CONSTANTS MaxExtent, Some

Ranges(max) ==
  [form : {"index", "from"}, start : 0..max, end : {0}]
    \cup [form : {"range", "inclusive", "counted"}, start : 0..max, end : 0..max]
    \cup {[form |-> "full", start |-> 0, end |-> 0]}

StrangeRanges == [form : Strange, start : {0}, end : {0}]

Each(ranges, uneven) == [all |-> FALSE, each |-> ranges, uneven |-> uneven]

AskedTable ==
  {[all |-> TRUE, each |-> << >>, uneven |-> FALSE], Each(<< >>, FALSE)}
    \cup {Each(<<r>>, FALSE) : r \in Ranges(2^Width - 1) \cup StrangeRanges}
    \cup {Each(<<r, q>>, FALSE) : r \in Ranges(Some), q \in Ranges(Some)}
    \cup {Each(<<r, q>>, FALSE) : r \in StrangeRanges, q \in Ranges(0)}
    \cup {Each(<<r>>, TRUE) : r \in Ranges(0)}

ShapeTable == UNION {[1..rank -> 0..MaxExtent] : rank \in 0..2}

MCAsked  == AskedTable
MCShapes == ShapeTable
===============================================================================
