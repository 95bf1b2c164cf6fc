------------------------------ MODULE PythonSlice ------------------------------
(***************************************************************************)
(* Subscripts of the Python class Dataset (__getitem__ and read_py_array   *)
(* in src/src/python.rs).  A tuple of integers and slices becomes start    *)
(* indices and counts, an array is allocated for them without setting its  *)
(* values, and they are read as any other caller's are, by the steps of    *)
(* Extents.  A panic and an error both come out as a Python exception.     *)
(* Numbers near the largest that Python passes on, and data types that the *)
(* class does not know, are left out.                                      *)
(***************************************************************************)
EXTENDS Extents, FiniteSets

CONSTANTS
  Subscripts,   \* tuples of items: "int", "slice" or, for what is neither, "other"
  None          \* no tuple, and no bound of a slice

ASSUME NoneAssumption == None \notin Int /\ None \notin Subscripts

ASSUME SubscriptsAssumption ==
  Subscripts \subseteq
    Seq([form : {"int"}, n : Int]
          \cup [form : {"slice"}, from : Int \cup {None}, upto : Int \cup {None}, step : Int]
          \cup [form : {"other"}])

\* Sizes that Python cannot pass on are left out.
ASSUME PythonShapesAssumption == Shapes \subseteq Seq(0..(2^(Width - 1) - 1))

VARIABLES
  items,   \* the subscript; None when the caller is not Python
  dims     \* the shape of the array

pythonVars == <<items, dims>>

\* An integer is turned into a slice of one index.
AsSlice(item) ==
  IF item.form = "int" THEN [from |-> item.n, upto |-> item.n + 1, step |-> 1]
  ELSE [from |-> item.from, upto |-> item.upto, step |-> item.step]

\* PySlice::indices, for steps forward.
Clip(bound, size, default) ==
  CASE bound = None -> default
    [] bound # None /\ bound < 0 -> IF bound + size < 0 THEN 0 ELSE bound + size
    [] bound # None /\ bound >= 0 -> IF bound > size THEN size ELSE bound

\* As a mutant: the end for the count.
RangeToEnd(item, size) ==
  LET s == AsSlice(item)
  IN [form  |-> "counted",
      start |-> Clip(s.from, size, 0),
      end   |-> Clip(s.upto, size, size)]

\* The start and the count of a dimension.
RangeOf(item, size) ==
  LET s     == AsSlice(item)
      start == Clip(s.from, size, 0)
  IN [form  |-> "counted",
      start |-> start,
      end   |-> Wrap(Clip(s.upto, size, size) - start)]

\* The items that meet a dimension, and those that are looked at: zip takes one
\* more before it finds that there is no dimension left.
Met       == 1..Lesser(Len(items), Len(shape))
LookedAt  == 1..Lesser(Len(items), Len(shape) + 1)

\* Dims without an item are read whole.
RangeAt(d) ==
  IF d \in Met THEN RangeOf(items[d], shape[d])
  ELSE [form |-> "counted", start |-> 0, end |-> shape[d]]

\* What the code panics at: other items, steps, and lengths below zero, which
\* are no length of an array.
Accepts ==
  /\ \A k \in LookedAt : items[k].form # "other"
  /\ \A d \in Met : AsSlice(items[d]).step = 1
  /\ \A d \in 1..Len(shape) : RangeAt(d).end < 2^(Width - 1)

\* Dims of one index, and empty ones, are dropped.
DimsOf(lengths) ==
  LET long[d \in 0..Len(lengths)] ==
        IF d = 0 THEN << >>
        ELSE IF lengths[d] > 1 THEN Append(long[d - 1], lengths[d]) ELSE long[d - 1]
  IN IF long[Len(lengths)] = << >> THEN <<1>> ELSE long[Len(lengths)]

-------------------------------------------------------------------------------
InitPython ==
  /\ dims = << >>
  /\ \/ Init /\ items = None
     \/ /\ items \in Subscripts
        /\ shape \in Shapes
        /\ asked = [all |-> TRUE, each |-> << >>, uneven |-> FALSE]
        /\ extents = NoExtents /\ counts = << >> /\ window = NoWindow
        /\ pc = "python"

GetItem ==
  /\ pc = "python"
  /\ Accepts
  /\ LET ranges == [d \in 1..Len(shape) |-> RangeAt(d)]
     IN /\ dims'  = DimsOf([d \in 1..Len(shape) |-> ranges[d].end])
        /\ asked' = [all |-> FALSE, each |-> ranges, uneven |-> FALSE]
  /\ pc' = "asked"
  /\ UNCHANGED <<items, shape, extents, counts, window>>

Raise ==
  /\ pc = "python"
  /\ ~Accepts
  /\ pc' = "raised"
  /\ UNCHANGED <<pythonVars, asked, shape, extents, counts, window>>

NextPython == GetItem \/ Raise \/ (Next /\ UNCHANGED pythonVars)

SpecPython == InitPython /\ [][NextPython]_<<vars, pythonVars>>

-------------------------------------------------------------------------------
\* The indices an item stands for in Python.
Selected(item, size) ==
  LET at(b) == IF b < 0 THEN b + size ELSE b
  IN {k \in 0..(size - 1) :
        IF item.form = "int" THEN k = at(item.n)
        ELSE /\ item.from = None \/ k >= at(item.from)
             /\ item.upto = None \/ k <  at(item.upto)}

SelectedAt(d) == IF d \in Met THEN Selected(items[d], shape[d]) ELSE 0..(shape[d] - 1)

LastIndex(d) == d \in Met /\ items[d].form = "int" /\ items[d].n = -1

Unreadable ==
  \E k \in LookedAt :
    \/ items[k].form = "other"
    \/ k \in Met /\ items[k].form = "slice" /\ items[k].step # 1

\* A subscript that has a meaning in every dimension is read as Python means
\* it, into an array of that many values: all but the index -1, the end of which
\* is 0.  That one is refused where the dimension has more than one index, and
\* so is what means nothing (5:5, or an index behind the last) when its end is
\* before its start; otherwise nothing is read, and an array is returned that
\* was not written to (python.rs:112, 210).
PythonGetsTheSlice ==
  items # None =>
    LET can  == \A d \in Dims : SelectedAt(d) # {} /\ ~LastIndex(d)
        read == \A d \in Dims : SelectedAt(d) =
                  window.indices[d]..(window.indices[d] + window.counts[d] - 1)
        size == Product([d \in Dims |-> Cardinality(SelectedAt(d))])
    IN /\ pc # "refused"
       /\ pc = "sliced" => /\ ~Unreadable
                           /\ \A d \in Dims : LastIndex(d) => shape[d] <= 1
                           /\ window.empty = ~can
                           /\ can => read /\ Product(dims) = size
       /\ pc = "raised" => Unreadable \/ ~can
===============================================================================
