------------------------------ MODULE ExtentsProofs ------------------------------
(***************************************************************************)
(* What a caller writes is what is read: for indices of any width, shapes  *)
(* of any rank and size, and whatever is asked for, from Rust and from     *)
(* Python.                                                                 *)
(***************************************************************************)
EXTENDS PythonSlice, ArrayLemmas, FiniteSetTheorems

Number == 0..(2^Width - 1)

\* The ranges of a request, as they are written.
AskedRange == [form : Forms \cup Strange, start : Number, end : Number]

AskedOk(a) == /\ a.all \in BOOLEAN /\ a.uneven \in BOOLEAN
              /\ a.each \in Seq(AskedRange)

Meaningless ==
  ~asked.all /\ \/ asked.uneven
                \/ Len(asked.each) # Len(shape)
                \/ \E d \in 1..Len(asked.each) : Unsupported(asked.each[d])

\* What the request is converted to.
Converted == IF asked.all THEN NoExtents
             ELSE [all |-> FALSE, each |-> [d \in 1..Len(asked.each) |-> Convert(asked.each[d])]]

\* Each step has done its part and nothing else.
StepsInv ==
  /\ shape \in Seq(Number)
  /\ AskedOk(asked)
  /\ pc \in {"converted", "sized", "sliced"} =>
       /\ extents = Converted
       /\ asked.all \/ ~asked.uneven
       /\ asked.all \/ \A d \in 1..Len(asked.each) : ~Unsupported(asked.each[d])
  /\ pc \in {"sized", "sliced"} =>
       /\ RankAgrees(extents, shape)
       /\ counts = StartCount(extents, shape).counts
  /\ pc = "sliced" =>
       LET sc == StartCount(extents, shape)
       IN window = [indices |-> sc.indices, counts |-> sc.counts,
                    empty |-> Leaves(sc.indices, sc.counts, shape)]
  /\ pc = "refused" => Meaningless

LEMMA StepsInvInit == Init => StepsInv
<1> SUFFICES ASSUME Init PROVE StepsInv
  OBVIOUS
<1>1. shape \in Seq(Number)
  BY ShapesAssumption DEF Init, Number
<1>2. asked \in [all : BOOLEAN, uneven : BOOLEAN, each : Seq(AskedRange)]
  BY AskedAssumption DEF Init, AskedRange, Number
<1>3. AskedOk(asked)
  BY <1>2 DEF AskedOk
<1> QED
  BY <1>1, <1>3 DEF Init, StepsInv

LEMMA StepsInvNext == StepsInv /\ [Next]_vars => StepsInv'
<1> SUFFICES ASSUME StepsInv, [Next]_vars PROVE StepsInv'
  OBVIOUS
<1>1. UNCHANGED <<asked, shape>>
  BY DEF Next, ConvertAll, ConvertEach, ConvertFails, GetCounts, WrongRank, Slice, Refuse, vars
<1>2. shape' \in Seq(Number) /\ AskedOk(asked') /\ Converted' = Converted
      /\ Meaningless' = Meaningless
  BY <1>1 DEF StepsInv, Converted, Meaningless
<1>3. CASE ConvertAll
  BY <1>1, <1>2, <1>3 DEF ConvertAll, StepsInv, Converted
<1>4. CASE ConvertEach
  BY <1>1, <1>2, <1>4 DEF ConvertEach, StepsInv, Converted
<1>5. CASE ConvertFails
  BY <1>1, <1>2, <1>5 DEF ConvertFails, Refuse, StepsInv, Meaningless
<1>6. CASE GetCounts
  BY <1>1, <1>2, <1>6 DEF GetCounts, StepsInv
<1>7. CASE WrongRank
  <2>1. Meaningless
    BY <1>7 DEF WrongRank, RankAgrees, StepsInv, Converted, NoExtents, Meaningless
  <2> QED
    BY <1>1, <1>2, <1>7, <2>1 DEF WrongRank, Refuse, StepsInv
<1>8. CASE Slice
  BY <1>1, <1>2, <1>8 DEF Slice, StepsInv
<1>9. CASE UNCHANGED vars
  BY <1>2, <1>9 DEF vars, StepsInv
<1> QED
  BY <1>3, <1>4, <1>5, <1>6, <1>7, <1>8, <1>9 DEF Next

LEMMA StepsHold == Spec => []StepsInv
BY StepsInvInit, StepsInvNext, PTL DEF Spec
-------------------------------------------------------------------------------
LEMMA PowerFacts == 2^Width \in Nat \ {0} /\ Number \subseteq Nat
<1>1. 2^Width \in Nat \ {0}
  BY WidthAssumption
<1> QED
  BY <1>1 DEF Number

\* A number that fits its width is not changed.
LEMMA WrapFits ==
  ASSUME NEW n \in Nat, n < 2^Width
  PROVE  Wrap(n) = n
BY PowerFacts DEF Wrap

\* Intervals that begin somewhere and have so many elements.
LEMMA Intervals ==
  ASSUME NEW i \in Nat, NEW c \in Nat, NEW size \in Nat
  PROVE  /\ i..(i + c - 1) = {} <=> c = 0
         /\ i..(i + c - 1) \subseteq 0..(size - 1) <=> c = 0 \/ i + c <= size
<1>1. CASE c = 0
  BY <1>1
<1>2. CASE c # 0
  <2>1. i \in i..(i + c - 1) /\ i + c - 1 \in i..(i + c - 1)
    BY <1>2
  <2>2. i + c <= size => i..(i + c - 1) \subseteq 0..(size - 1)
    OBVIOUS
  <2>3. i..(i + c - 1) \subseteq 0..(size - 1) => i + c - 1 \in 0..(size - 1)
    BY <2>1
  <2> QED
    BY <1>2, <2>1, <2>2, <2>3
<1> QED
  BY <1>1, <1>2

\* An interval whose end fits its width: the check is right about it.
LEMMA CheckRight ==
  ASSUME NEW i \in Nat, NEW c \in Nat, NEW size \in Nat, i + c < 2^Width
  PROVE  ~(Wrap(i + c) > size \/ c = 0)
           <=> i..(i + c - 1) # {} /\ i..(i + c - 1) \subseteq 0..(size - 1)
<1> DEFINE D == i..(i + c - 1)
<1>1. Wrap(i + c) = i + c
  BY WrapFits
<1>2. (D = {} <=> c = 0) /\ (D \subseteq 0..(size - 1) <=> c = 0 \/ i + c <= size)
  BY Intervals
<1> HIDE DEF D
<1>3. ~(Wrap(i + c) > size \/ c = 0) <=> D # {} /\ D \subseteq 0..(size - 1)
  BY <1>1, <1>2
<1> QED
  BY <1>3 DEF D

\* A range that is in its dimension becomes the interval that it denotes; the
\* check turns away any other that is not among those that slip through.
LEMMA RangeRight ==
  ASSUME NEW r \in AskedRange, ~Unsupported(r), NEW size \in Number
  PROVE  LET i    == Convert(r).start
             c    == CanonicalCount(Convert(r), size)
             fits == Denoted(r, size) # {} /\ Denoted(r, size) \subseteq 0..(size - 1)
         IN /\ i \in Nat /\ c \in Nat
            /\ fits => ~Slips(r, size) /\ Denoted(r, size) = i..(i + c - 1)
            /\ ~(Wrap(i + c) > size \/ c = 0) <=> fits \/ Slips(r, size)
<1> DEFINE W == 2^Width
<1>1. /\ r.form \in Forms /\ r.start \in Nat /\ r.end \in Nat /\ size \in Nat
      /\ W \in Nat \ {0} /\ r.start < W /\ r.end < W /\ size < W
  BY PowerFacts DEF AskedRange, Unsupported, Number
<1>2. \A n \in Nat : W <= n /\ n < 2 * W => Wrap(n) = n - W
  <2>1. \A n \in Nat : Wrap(n) = n % W
    BY DEF Wrap
  <2> HIDE DEF W
  <2> QED
    BY <1>1, <2>1
<1>3. ASSUME NEW i \in Nat, NEW c \in Nat, i + c < W,
             Convert(r).start = i, CanonicalCount(Convert(r), size) = c,
             Denoted(r, size) = i..(i + c - 1), ~Slips(r, size)
      PROVE  LET fits == Denoted(r, size) # {} /\ Denoted(r, size) \subseteq 0..(size - 1)
             IN ~(Wrap(i + c) > size \/ c = 0) <=> fits \/ Slips(r, size)
  BY <1>1, <1>3, CheckRight
<1>4. CASE r.form = "index"
  <2>1. /\ Convert(r).start = r.start /\ CanonicalCount(Convert(r), size) = 1
        /\ Denoted(r, size) = {r.start}
        /\ Slips(r, size) <=> r.start + 1 = W
    BY <1>4 DEF Convert, CanonicalCount, Denoted, Slips
  <2> HIDE DEF W
  <2>2. Denoted(r, size) = r.start..(r.start + 1 - 1)
    BY <1>1, <2>1
  <2>3. CASE r.start + 1 < W
    BY <1>1, <1>3, <2>1, <2>2, <2>3
  <2>4. CASE r.start + 1 = W
    <3>1. Wrap(r.start + 1) = 0
      BY <1>1, <1>2, <2>4
    <3>2. r.start \notin 0..(size - 1)
      BY <1>1, <2>4
    <3> QED
      BY <1>1, <2>1, <2>4, <3>1, <3>2
  <2> QED
    BY <1>1, <2>3, <2>4
<1>5. CASE r.form \in {"from", "full"}
  <2>1. /\ Convert(r).start = r.start
        /\ CanonicalCount(Convert(r), size) = Elements(r.start, size)
        /\ Denoted(r, size) = r.start..(size - 1) /\ ~Slips(r, size)
    BY <1>5 DEF Convert, CanonicalCount, Denoted, Slips
  <2>2. /\ Elements(r.start, size) \in Nat /\ r.start + Elements(r.start, size) < W
        /\ r.start..(size - 1) = r.start..(r.start + Elements(r.start, size) - 1)
    BY <1>1 DEF Elements
  <2> QED
    BY <1>1, <1>3, <2>1, <2>2
<1>6. CASE r.form = "range"
  <2>1. /\ Convert(r).start = r.start
        /\ CanonicalCount(Convert(r), size) = Elements(r.start, r.end)
        /\ Denoted(r, size) = r.start..(r.end - 1) /\ ~Slips(r, size)
    BY <1>6 DEF Convert, CanonicalCount, Denoted, Slips
  <2>2. /\ Elements(r.start, r.end) \in Nat /\ r.start + Elements(r.start, r.end) < W
        /\ r.start..(r.end - 1) = r.start..(r.start + Elements(r.start, r.end) - 1)
    BY <1>1 DEF Elements
  <2> QED
    BY <1>1, <1>3, <2>1, <2>2
<1>7. CASE r.form = "inclusive"
  <2>1. /\ Convert(r).start = r.start
        /\ CanonicalCount(Convert(r), size) = Elements(r.start, Wrap(r.end + 1))
        /\ Denoted(r, size) = r.start..r.end /\ ~Slips(r, size)
    BY <1>7 DEF Convert, CanonicalCount, Denoted, Slips
  <2> HIDE DEF W
  <2>2. CASE r.end + 1 < W
    <3>1. Wrap(r.end + 1) = r.end + 1
      BY <1>1, <2>2, WrapFits DEF W
    <3>2. CASE r.start <= r.end
      <4>1. /\ Elements(r.start, r.end + 1) = r.end + 1 - r.start
            /\ r.start + (r.end + 1 - r.start) = r.end + 1
            /\ r.start..r.end = r.start..(r.start + (r.end + 1 - r.start) - 1)
            /\ r.end + 1 - r.start \in Nat
        BY <1>1, <3>2 DEF Elements
      <4> QED
        BY <1>1, <1>3, <2>1, <2>2, <3>1, <4>1
    <3>3. CASE r.end < r.start
      <4>1. /\ Elements(r.start, r.end + 1) = 0
            /\ r.start..r.end = r.start..(r.start + 0 - 1)
        BY <1>1, <3>3 DEF Elements
      <4> QED
        BY <1>1, <1>3, <2>1, <3>1, <4>1
    <3> QED
      BY <1>1, <3>2, <3>3
  <2>3. CASE r.end + 1 = W
    <3>1. Wrap(r.end + 1) = 0
      BY <1>1, <1>2, <2>3
    <3>2. CanonicalCount(Convert(r), size) = 0
      BY <1>1, <2>1, <3>1 DEF Elements
    <3>3. r.end \in r.start..r.end /\ r.end \notin 0..(size - 1)
      BY <1>1, <2>3
    <3> QED
      BY <1>1, <2>1, <3>2, <3>3
  <2> QED
    BY <1>1, <2>2, <2>3
<1>8. CASE r.form = "counted"
  <2>1. /\ Convert(r).start = r.start /\ CanonicalCount(Convert(r), size) = r.end
        /\ Denoted(r, size) = r.start..(r.start + r.end - 1)
        /\ Slips(r, size) <=> r.start + r.end >= W /\ r.start + r.end - W <= size
    BY <1>8 DEF Convert, CanonicalCount, Denoted, Slips
  <2> HIDE DEF W
  <2>2. CASE r.start + r.end < W
    BY <1>1, <1>3, <2>1, <2>2
  <2>3. CASE r.start + r.end >= W
    <3>1. Wrap(r.start + r.end) = r.start + r.end - W /\ r.end # 0
      BY <1>1, <1>2, <2>3
    <3>2. ~(Denoted(r, size) \subseteq 0..(size - 1))
      <4>1. r.start + r.end - 1 \in Denoted(r, size)
        BY <1>1, <2>1, <3>1
      <4>2. r.start + r.end - 1 \notin 0..(size - 1)
        BY <1>1, <2>3
      <4> QED
        BY <4>1, <4>2
    <3> QED
      BY <1>1, <2>1, <2>3, <3>1, <3>2
  <2> QED
    BY <1>1, <2>2, <2>3
<1> QED
  BY <1>1, <1>4, <1>5, <1>6, <1>7, <1>8 DEF Forms

\* One dimension of the window: what it is, and whether it passes the check.
LEMMA WindowRight ==
  ASSUME StepsInv, pc = "sliced", NEW d \in Dims
  PROVE  LET i     == window.indices[d]
             c     == window.counts[d]
             slips == ~asked.all /\ Slips(asked.each[d], shape[d])
         IN /\ InDim(d) => ~slips /\ Means(d) = i..(i + c - 1)
            /\ ~(Wrap(i + c) > shape[d] \/ c = 0) <=> InDim(d) \/ slips
<1> DEFINE i == window.indices[d]
           c == window.counts[d]
<1>1. /\ extents = Converted /\ RankAgrees(extents, shape) /\ shape[d] \in Number
      /\ d \in 1..Len(shape)
      /\ window.indices = StartCount(extents, shape).indices
      /\ window.counts = StartCount(extents, shape).counts
  BY DEF StepsInv, Dims
<1>2. /\ i = IF extents.all THEN 0 ELSE extents.each[d].start
      /\ c = IF extents.all THEN shape[d] ELSE CanonicalCount(extents.each[d], shape[d])
  BY <1>1 DEF StartCount
<1>3. shape[d] \in Nat /\ shape[d] < 2^Width
  BY <1>1, PowerFacts DEF Number
<1>4. CASE asked.all
  <2>1. i = 0 /\ c = shape[d] /\ Means(d) = 0..(shape[d] - 1)
    BY <1>1, <1>2, <1>4 DEF Converted, NoExtents, Means
  <2>2. i \in Nat /\ c \in Nat /\ i + c < 2^Width /\ Means(d) = i..(i + c - 1)
    BY <1>3, <2>1
  <2>3. ~(Wrap(i + c) > shape[d] \/ c = 0)
          <=> i..(i + c - 1) # {} /\ i..(i + c - 1) \subseteq 0..(shape[d] - 1)
    <3> HIDE DEF i, c
    <3> QED
      BY <1>3, <2>2, CheckRight
  <2>4. ~(Wrap(i + c) > shape[d] \/ c = 0) <=> InDim(d)
    BY <2>2, <2>3 DEF InDim
  <2> QED
    BY <1>4, <2>2, <2>4
<1>5. CASE ~asked.all
  <2> DEFINE r == asked.each[d]
  <2>1. /\ asked.each \in Seq(AskedRange)
        /\ \A e \in 1..Len(asked.each) : ~Unsupported(asked.each[e])
    BY <1>5 DEF StepsInv, AskedOk
  <2>2. extents = [all |-> FALSE, each |-> [e \in 1..Len(asked.each) |-> Convert(asked.each[e])]]
    BY <1>1, <1>5 DEF Converted
  <2>3. Len(extents.each) = Len(asked.each)
    BY <2>1, <2>2
  <2>4. d \in 1..Len(asked.each)
    BY <1>1, <2>2, <2>3 DEF RankAgrees
  <2>5. /\ r \in AskedRange /\ ~Unsupported(r)
        /\ i = Convert(r).start /\ c = CanonicalCount(Convert(r), shape[d])
    BY <1>2, <2>1, <2>2, <2>4
  <2>6. Means(d) = Denoted(r, shape[d])
    BY <1>5 DEF Means
  <2> HIDE DEF r
  <2> QED
    BY <1>1, <1>5, <2>5, <2>6, RangeRight DEF InDim, r
<1> QED
  BY <1>4, <1>5

LEMMA StepsMean == StepsInv => ReadsWhatIsMeant
<1> SUFFICES ASSUME StepsInv, pc = "sliced"
             PROVE  counts = window.counts /\ (IsMeant <=> ~Slipped)
  BY DEF ReadsWhatIsMeant
<1> DEFINE i(d)     == window.indices[d]
           c(d)     == window.counts[d]
           slips(d) == ~asked.all /\ Slips(asked.each[d], shape[d])
           all      == \A d \in Dims : InDim(d)
           read     == \A d \in Dims : Means(d) = i(d)..(i(d) + c(d) - 1)
<1>1. counts = window.counts
  BY DEF StepsInv
<1>2. window.empty <=> \E d \in Dims : Wrap(i(d) + c(d)) > shape[d] \/ c(d) = 0
  BY DEF StepsInv, Leaves, Dims
<1>3. \A d \in Dims : /\ InDim(d) => ~slips(d) /\ Means(d) = i(d)..(i(d) + c(d) - 1)
                      /\ ~(Wrap(i(d) + c(d)) > shape[d] \/ c(d) = 0) <=> InDim(d) \/ slips(d)
  BY WindowRight
<1>4. ~window.empty <=> \A d \in Dims : InDim(d) \/ slips(d)
  BY <1>2, <1>3
<1>5. Slipped <=> /\ \A d \in Dims : InDim(d) \/ slips(d)
                  /\ \E d \in Dims : slips(d)
  BY DEF Slipped
<1>6. window.empty \in BOOLEAN
  <2>1. \A x, y, z : Leaves(x, y, z) \in BOOLEAN
    BY DEF Leaves
  <2> QED
    BY <2>1 DEF StepsInv
<1>7. IsMeant = IF all THEN ~window.empty /\ read ELSE window.empty
  BY DEF IsMeant
<1>8. all => read /\ ~window.empty /\ \A d \in Dims : ~slips(d)
  BY <1>3, <1>4
<1>9. ~all /\ (\A d \in Dims : InDim(d) \/ slips(d)) => \E d \in Dims : slips(d)
  OBVIOUS
<1> HIDE DEF read, slips
<1> QED
  BY <1>1, <1>4, <1>5, <1>6, <1>7, <1>8, <1>9

\* What a caller in Rust is given is what was meant, whichever way it was written,
\* exactly if no sum that wraps around passes for one within the dataset
\* (dataset.rs:294, 297, extent.rs:117, 364, 447).
THEOREM RustReadsWhatIsMeant == Spec => []ReadsWhatIsMeant
BY StepsMean, StepsHold, PTL
-------------------------------------------------------------------------------
(***************************************************************************)
(* From Python.                                                            *)
(***************************************************************************)
\* The items of a subscript, and those that have a meaning.
Item == [form : {"int"}, n : Int]
          \cup [form : {"slice"}, from : Int \cup {None}, upto : Int \cup {None}, step : Int]
          \cup [form : {"other"}]

Half == 2^(Width - 1)

Plain(item) == item.form # "other" /\ AsSlice(item).step = 1

\* The indices of a dimension, from the first to before the last.
First(item, size) == Clip(AsSlice(item).from, size, 0)
Last(item, size)  == Clip(AsSlice(item).upto, size, size)

LEMMA HalfFacts ==
  /\ Half \in Nat \ {0} /\ 2^Width = 2 * Half /\ 0..(Half - 1) \subseteq Number
  /\ \A n \in 0..(Half - 1) : n \in Nat /\ n < Half
<1>1. Half \in Nat \ {0} /\ 2^Width = 2 * Half
  BY WidthAssumption DEF Half
<1> QED
  BY <1>1 DEF Number

LEMMA Clipped ==
  ASSUME NEW b \in Int \cup {None}, NEW size \in Nat, NEW default \in 0..size
  PROVE  Clip(b, size, default) \in 0..size
BY NoneAssumption DEF Clip

\* The bounds of an item are in the dimension.
LEMMA BoundsIn ==
  ASSUME NEW item \in Item, item.form # "other", NEW size \in Nat
  PROVE  First(item, size) \in 0..size /\ Last(item, size) \in 0..size
<1>1. AsSlice(item).from \in Int \cup {None} /\ AsSlice(item).upto \in Int \cup {None}
  BY DEF Item, AsSlice
<1>2. 0 \in 0..size /\ size \in 0..size
  OBVIOUS
<1> QED
  BY <1>1, <1>2, Clipped DEF First, Last

\* How many indices come out, and whether it is the length of an array.
LEMMA LengthOf ==
  ASSUME NEW size \in 0..(Half - 1), NEW lo \in 0..size, NEW hi \in 0..size
  PROVE  /\ Wrap(hi - lo) \in Number
         /\ Wrap(hi - lo) < Half <=> lo <= hi
         /\ lo <= hi => Wrap(hi - lo) = hi - lo
<1> DEFINE W == 2^Width
<1>1. W \in Nat \ {0} /\ Half \in Nat /\ W = 2 * Half /\ size < Half /\ size \in Nat
  BY HalfFacts
<1>2. Wrap(hi - lo) = (hi - lo) % W /\ Number = 0..(W - 1)
  BY DEF Wrap, Number
<1> HIDE DEF W
<1>3. CASE lo <= hi
  <2>1. (hi - lo) % W = hi - lo
    BY <1>1, <1>3
  <2> QED
    BY <1>1, <1>2, <1>3, <2>1
<1>4. CASE hi < lo
  <2>1. (hi - lo) % W = W + (hi - lo)
    BY <1>1, <1>4
  <2> QED
    BY <1>1, <1>2, <1>4, <2>1
<1> QED
  BY <1>3, <1>4

\* An item stands for the indices between its bounds: all but the last index, of
\* which nothing is left.
LEMMA ItemSelects ==
  ASSUME NEW item \in Item, Plain(item), NEW size \in Nat
  PROVE  LET lo == First(item, size)
             hi == Last(item, size)
         IN IF item.form = "int" /\ item.n = -1
            THEN hi <= lo
            ELSE Selected(item, size) = lo..(hi - 1)
<1> DEFINE lo    == First(item, size)
           hi    == Last(item, size)
           at(b) == IF b < 0 THEN b + size ELSE b
<1>1. CASE item.form = "int"
  <2>1. /\ item.n \in Int
        /\ lo = Clip(item.n, size, 0) /\ hi = Clip(item.n + 1, size, size)
        /\ Selected(item, size) = {k \in 0..(size - 1) : k = at(item.n)}
    BY <1>1 DEF Item, AsSlice, First, Last, Selected
  <2> DEFINE n == item.n
  <2>2. n \in Int /\ n # None /\ n + 1 # None
    BY <2>1, NoneAssumption
  <2>3. /\ lo = IF n < 0 THEN IF n + size < 0 THEN 0 ELSE n + size
                ELSE IF n > size THEN size ELSE n
        /\ hi = IF n + 1 < 0 THEN IF n + 1 + size < 0 THEN 0 ELSE n + 1 + size
                ELSE IF n + 1 > size THEN size ELSE n + 1
    BY <2>1, <2>2 DEF Clip
  <2> HIDE DEF lo, hi, n
  <2>4. CASE n = -1
    BY <1>1, <2>2, <2>3, <2>4 DEF n, lo, hi
  <2>5. CASE n # -1
    <3>1. \A k \in Int : k \in lo..(hi - 1) <=> k \in 0..(size - 1) /\ k = at(n)
      BY <2>2, <2>3, <2>5
    <3>2. Selected(item, size) = {k \in 0..(size - 1) : k = at(n)}
      BY <2>1 DEF n
    <3>3. Selected(item, size) = lo..(hi - 1)
      BY <3>1, <3>2
    <3> QED
      BY <2>5, <3>3 DEF n, lo, hi
  <2> QED
    BY <2>4, <2>5
<1>2. CASE item.form = "slice"
  <2> DEFINE f == item.from
             u == item.upto
  <2>1. /\ f \in Int \cup {None} /\ u \in Int \cup {None} /\ item.form # "int"
        /\ lo = Clip(f, size, 0) /\ hi = Clip(u, size, size)
        /\ Selected(item, size) = {k \in 0..(size - 1) : /\ f = None \/ k >= at(f)
                                                         /\ u = None \/ k <  at(u)}
    BY <1>2 DEF Item, AsSlice, First, Last, Selected
  <2> HIDE DEF f, u, lo, hi
  <2>2. \A k \in 0..(size - 1) : k >= lo <=> f = None \/ k >= at(f)
    <3>1. CASE f = None
      BY <2>1, <3>1 DEF Clip
    <3>2. CASE f # None
      BY <2>1, <3>2 DEF Clip
    <3> QED
      BY <3>1, <3>2
  <2>3. \A k \in 0..(size - 1) : k < hi <=> u = None \/ k < at(u)
    <3>1. CASE u = None
      BY <2>1, <3>1 DEF Clip
    <3>2. CASE u # None
      BY <2>1, <3>2 DEF Clip
    <3> QED
      BY <3>1, <3>2
  <2>4. lo \in 0..size /\ hi \in 0..size
    BY <2>1, Clipped
  <2> HIDE DEF at
  <2>5. Selected(item, size) = lo..(hi - 1)
    BY <2>1, <2>2, <2>3, <2>4
  <2> QED
    BY <2>1, <2>5 DEF lo, hi
<1> QED
  BY <1>1, <1>2 DEF Plain, Item
-------------------------------------------------------------------------------
PyRanges == [d \in 1..Len(shape) |-> RangeAt(d)]

\* A subscript becomes one range for each dimension, and is read as those.
PyInv ==
  /\ StepsInv
  /\ shape \in Seq(0..(Half - 1))
  /\ items = None \/ items \in Seq(Item)
  /\ pc = "python" => items # None
  /\ items # None /\ pc \notin {"python", "raised"} =>
       /\ Accepts
       /\ asked = [all |-> FALSE, each |-> PyRanges, uneven |-> FALSE]
       /\ dims = DimsOf([d \in 1..Len(shape) |-> PyRanges[d].end])
  /\ items # None /\ pc = "raised" => ~Accepts

LEMMA PyInvInit == InitPython => PyInv
<1> SUFFICES ASSUME InitPython PROVE PyInv
  OBVIOUS
<1>1. shape \in Shapes /\ shape \in Seq(0..(Half - 1)) /\ shape \in Seq(Number)
  BY PythonShapesAssumption, ShapesAssumption DEF InitPython, Init, Half, Number
<1>2. CASE Init /\ items = None
  BY <1>1, <1>2, StepsInvInit DEF PyInv, Init
<1>3. CASE ~(Init /\ items = None)
  <2>1. /\ items \in Subscripts /\ pc = "python"
        /\ asked = [all |-> TRUE, each |-> << >>, uneven |-> FALSE]
    BY <1>3 DEF InitPython
  <2>2. items \in Seq(Item) /\ items # None
    BY <2>1, SubscriptsAssumption, NoneAssumption DEF Item
  <2>3. AskedOk(asked)
    BY <2>1 DEF AskedOk
  <2> QED
    BY <1>1, <2>1, <2>2, <2>3 DEF PyInv, StepsInv
<1> QED
  BY <1>2, <1>3

\* What the accepted items become.
LEMMA RangesRight ==
  ASSUME PyInv, items # None, Accepts, NEW d \in 1..Len(shape)
  PROVE  /\ shape[d] \in 0..(Half - 1)
         /\ RangeAt(d).form = "counted"
         /\ RangeAt(d) \in AskedRange
         /\ RangeAt(d).end < Half
         /\ d \in Met => /\ items[d] \in Item
                         /\ Plain(items[d])
                         /\ First(items[d], shape[d]) <= Last(items[d], shape[d])
                         /\ RangeAt(d).start = First(items[d], shape[d])
                         /\ RangeAt(d).end = Last(items[d], shape[d]) - First(items[d], shape[d])
         /\ d \notin Met => RangeAt(d).start = 0 /\ RangeAt(d).end = shape[d]
<1>1. shape \in Seq(0..(Half - 1)) /\ items \in Seq(Item) /\ Len(shape) \in Nat
  BY DEF PyInv
<1>2. shape[d] \in 0..(Half - 1) /\ shape[d] \in Nat /\ shape[d] \in Number /\ shape[d] < Half
  BY <1>1, HalfFacts
<1>3. RangeAt(d).end < Half
  BY DEF Accepts, Half
<1>4. CASE d \in Met
  <2>1. d \in LookedAt /\ d \in 1..Len(items)
    BY <1>1, <1>4 DEF Met, LookedAt, Lesser
  <2>2. items[d] \in Item /\ Plain(items[d])
    BY <1>1, <1>4, <2>1 DEF Accepts, Plain
  <2> DEFINE lo == First(items[d], shape[d])
             hi == Last(items[d], shape[d])
  <2>3. lo \in 0..shape[d] /\ hi \in 0..shape[d]
    BY <1>2, <2>2, BoundsIn DEF Plain
  <2>4. RangeAt(d) = [form |-> "counted", start |-> lo, end |-> Wrap(hi - lo)]
    BY <1>4 DEF RangeAt, RangeOf, First, Last
  <2> HIDE DEF lo, hi
  <2>5. RangeAt(d).start = lo /\ RangeAt(d).end = Wrap(hi - lo) /\ RangeAt(d).form = "counted"
    BY <2>4
  <2>6. Wrap(hi - lo) \in Number /\ lo <= hi /\ Wrap(hi - lo) = hi - lo
    BY <1>2, <1>3, <2>3, <2>5, LengthOf
  <2>7. lo \in Number
    BY <1>2, <2>3, PowerFacts DEF Number
  <2>8. RangeAt(d) \in AskedRange
    BY <2>4, <2>6, <2>7 DEF AskedRange, Forms
  <2> QED
    BY <1>2, <1>3, <1>4, <2>2, <2>5, <2>6, <2>8 DEF lo, hi
<1>5. CASE d \notin Met
  <2>1. RangeAt(d) = [form |-> "counted", start |-> 0, end |-> shape[d]]
    BY <1>5 DEF RangeAt
  <2>2. 0 \in Number
    BY PowerFacts DEF Number
  <2>3. RangeAt(d) \in AskedRange
    BY <1>2, <2>1, <2>2 DEF AskedRange, Forms
  <2> QED
    BY <1>2, <1>3, <1>5, <2>1, <2>3
<1> QED
  BY <1>4, <1>5

LEMMA PyInvNext == PyInv /\ [NextPython]_<<vars, pythonVars>> => PyInv'
<1> SUFFICES ASSUME PyInv, [NextPython]_<<vars, pythonVars>> PROVE PyInv'
  OBVIOUS
<1>1. UNCHANGED <<items, shape>>
  BY DEF NextPython, GetItem, Raise, Next, ConvertAll, ConvertEach, ConvertFails, GetCounts,
         WrongRank, Slice, Refuse, vars, pythonVars
<1>2. /\ items' = items /\ shape' = shape
      /\ PyRanges' = PyRanges /\ Accepts' = Accepts
  BY <1>1 DEF PyRanges, Accepts, RangeAt, Met, LookedAt
<1>3. CASE GetItem
  <2>1. /\ pc' = "asked" /\ Accepts
        /\ asked' = [all |-> FALSE, each |-> PyRanges, uneven |-> FALSE]
        /\ dims' = DimsOf([d \in 1..Len(shape) |-> PyRanges[d].end])
    BY <1>3 DEF GetItem, PyRanges
  <2>2. items # None
    BY <1>3 DEF GetItem, PyInv
  <2>3. QED
    <3>1. \A d \in 1..Len(shape) : RangeAt(d) \in AskedRange
      BY <2>1, <2>2, RangesRight
    <3>2. Len(shape) \in Nat
      BY DEF PyInv
    <3>3. PyRanges \in Seq(AskedRange)
      BY <3>1, <3>2 DEF PyRanges
    <3>4. AskedOk(asked')
      BY <2>1, <3>3 DEF AskedOk
    <3>5. StepsInv'
      BY <1>2, <2>1, <3>4 DEF PyInv, StepsInv
    <3> QED
      BY <1>2, <2>1, <2>2, <3>5 DEF PyInv
<1>4. CASE Raise
  <2>1. StepsInv'
    BY <1>1, <1>4 DEF Raise, PyInv, StepsInv, vars, pythonVars, Converted
  <2> QED
    BY <1>2, <1>4, <2>1 DEF Raise, PyInv
<1>5. CASE Next /\ UNCHANGED pythonVars
  <2>1. StepsInv'
    BY <1>5, StepsInvNext DEF PyInv
  <2>2. /\ pc \notin {"python", "raised"} /\ pc' \notin {"python", "raised"}
        /\ asked' = asked /\ dims' = dims
    BY <1>5 DEF Next, ConvertAll, ConvertEach, ConvertFails, GetCounts, WrongRank, Slice, Refuse,
         pythonVars
  <2> QED
    BY <1>2, <2>1, <2>2 DEF PyInv
<1>6. CASE UNCHANGED <<vars, pythonVars>>
  <2>1. StepsInv'
    BY <1>6, StepsInvNext DEF PyInv, vars
  <2> QED
    BY <1>2, <1>6, <2>1 DEF PyInv, vars, pythonVars
<1> QED
  BY <1>3, <1>4, <1>5, <1>6 DEF NextPython

LEMMA PyHolds == SpecPython => []PyInv
BY PyInvInit, PyInvNext, PTL DEF SpecPython
-------------------------------------------------------------------------------
\* Dropping the dimensions of one index drops factors of 1.
LEMMA DimsHold ==
  ASSUME NEW s \in Seq(Nat \ {0})
  PROVE  Product(DimsOf(s)) = Product(s)
<1> DEFINE n          == Len(s)
           after(d,l) == IF s[d] > 1 THEN Append(l, s[d]) ELSE l
           step       == [x \in (1..n) \X Seq(Nat) |-> after(x[1], x[2])]
           P(g)       == g = [d \in 0..n |-> IF d = 0 THEN << >> ELSE after(d, g[d - 1])]
           long       == CHOOSE g : P(g)
           start(d)   == [k \in 1..d |-> s[k]]
           Q(d)       == long[d] \in Seq(Nat) /\ Product(long[d]) = Product(start(d))
           E          == {d \in Nat : d <= n => Q(d)}
<1>1. n \in Nat /\ \A d \in 1..n : s[d] \in Nat /\ s[d] # 0
  OBVIOUS
<1>2. P(long)
  <2>1. \A d \in 1..n : \A l \in Seq(Nat) : after(d, l) \in Seq(Nat)
    BY <1>1
  <2>2. << >> \in Seq(Nat)
    OBVIOUS
  <2> HIDE DEF after
  <2>3. step \in [(1..n) \X Seq(Nat) -> Seq(Nat)]
    BY <2>1
  <2>4. \A d \in 1..n : \A l \in Seq(Nat) : step[<<d, l>>] = after(d, l)
    OBVIOUS
  <2> HIDE DEF step
  <2>5. PICK g \in [0..n -> Seq(Nat)] : /\ g[0] = << >>
                                       /\ \A d \in 1..n : g[d] = step[<<d, g[d - 1]>>]
    <3> DEFINE S == Seq(Nat)
               i == << >>
    <3>1. n \in Nat /\ i \in S /\ step \in [(1..n) \X S -> S]
      BY <1>1, <2>2, <2>3
    <3>2. \E g : Recurs(g, n, S, i, step)
      <4> HIDE DEF n, i, S
      <4> QED
        BY <3>1, Recursion
    <3> QED
      BY <3>2 DEF Recurs
  <2>6. \A d \in 0..n : g[d] = IF d = 0 THEN << >> ELSE after(d, g[d - 1])
    <3> TAKE d \in 0..n
    <3>1. CASE d = 0
      BY <2>5, <3>1
    <3>2. CASE d # 0
      <4>1. d \in 1..n /\ d - 1 \in 0..n
        BY <1>1, <3>2
      <4> QED
        BY <2>4, <2>5, <3>2, <4>1
    <3> QED
      BY <3>1, <3>2
  <2>7. P(g)
    BY <2>5, <2>6
  <2> HIDE DEF P
  <2> QED
    BY <2>7
<1> HIDE DEF long
<1>3. /\ long[0] = << >>
      /\ \A d \in 1..n : long[d] = after(d, long[d - 1])
  <2>1. 0 \in 0..n /\ \A d \in 1..n : d \in 0..n /\ d # 0
    BY <1>1
  <2> HIDE DEF n, after
  <2> QED
    BY <1>2, <2>1
<1>4. 0 \in E
  <2>1. start(0) = << >> /\ << >> \in Seq(Nat)
    OBVIOUS
  <2>2. long[0] \in Seq(Nat) /\ Product(long[0]) = Product(start(0))
    BY <1>3, <2>1
  <2> QED
    BY <2>2
<1>5. \A d \in E : d + 1 \in E
  <2> HIDE DEF Q
  <2> SUFFICES ASSUME NEW d \in E, d + 1 <= n PROVE Q(d + 1)
    OBVIOUS
  <2> USE DEF Q
  <2>1. /\ d \in Nat /\ d + 1 \in 1..n /\ (d + 1) - 1 = d
        /\ long[d] \in Seq(Nat) /\ Product(long[d]) = Product(start(d))
    BY <1>1
  <2>2. s[d + 1] \in Nat /\ s[d + 1] # 0
    BY <1>1, <2>1
  <2>3. long[d + 1] = IF s[d + 1] > 1 THEN Append(long[d], s[d + 1]) ELSE long[d]
    BY <1>3, <2>1
  <2>4. start(d) \in Seq(Nat) /\ start(d + 1) = Append(start(d), s[d + 1])
    BY <1>1, <2>1
  <2>5. Product(start(d + 1)) = Product(start(d)) * s[d + 1]
    BY <2>2, <2>4, AppendProduct
  <2>6. CASE s[d + 1] > 1
    <3>1. long[d + 1] = Append(long[d], s[d + 1])
      BY <2>3, <2>6
    <3>2. Product(long[d + 1]) = Product(long[d]) * s[d + 1]
      BY <2>1, <2>2, <3>1, AppendProduct
    <3> QED
      BY <2>1, <2>2, <2>5, <3>1, <3>2
  <2>7. CASE ~(s[d + 1] > 1)
    <3>1. s[d + 1] = 1 /\ long[d + 1] = long[d]
      BY <2>2, <2>3, <2>7
    <3>2. Product(start(d)) \in Nat
      <4>1. Product(start(d)) = SuffixProducts(start(d))[1]
        BY DEF Product
      <4>2. SuffixProducts(start(d)) \in [1..(Len(start(d)) + 1) -> Nat]
        BY <2>4, ProductsAre
      <4>3. 1 \in 1..(Len(start(d)) + 1)
        BY <2>4
      <4> HIDE DEF start
      <4> QED
        BY <4>1, <4>2, <4>3
    <3>3. Product(start(d)) * 1 = Product(start(d))
      BY <3>2
    <3> QED
      BY <2>1, <2>5, <3>1, <3>3
  <2> QED
    BY <2>6, <2>7
<1>6. E = Nat
  <2>1. E \in SUBSET Nat
    OBVIOUS
  <2> HIDE DEF E
  <2> QED
    BY <1>4, <1>5, <2>1, SetInduction
<1>7. long[n] \in Seq(Nat) /\ Product(long[n]) = Product(s)
  <2>1. \A d \in Nat : d <= n => long[d] \in Seq(Nat) /\ Product(long[d]) = Product(start(d))
    BY <1>6
  <2>2. start(n) = s
    OBVIOUS
  <2> QED
    BY <1>1, <2>1, <2>2
<1>8. DimsOf(s) = IF long[n] = << >> THEN <<1>> ELSE long[n]
  BY DEF DimsOf, long
<1>9. Product(<<1>>) = 1
  <2>1. <<1>> = Append(<< >>, 1) /\ << >> \in Seq(Nat) /\ 1 * 1 = 1 /\ 1 \in Nat
    OBVIOUS
  <2>2. Product(Append(<< >>, 1)) = Product(<< >>) * 1
    BY <2>1, AppendProduct
  <2> QED
    BY <2>1, <2>2, EmptyProduct
<1> QED
  BY <1>7, <1>8, <1>9, EmptyProduct

\* The window of a dimension is the range that its item became.
LEMMA RangeInWindow ==
  ASSUME PyInv, items # None, pc = "sliced", NEW d \in Dims
  PROVE  /\ window.indices[d] = RangeAt(d).start
         /\ window.counts[d] = RangeAt(d).end
         /\ PyRanges[d] = RangeAt(d)
<1>1. /\ extents = Converted /\ d \in 1..Len(shape) /\ Accepts
      /\ asked = [all |-> FALSE, each |-> PyRanges, uneven |-> FALSE]
      /\ window.indices = StartCount(extents, shape).indices
      /\ window.counts = StartCount(extents, shape).counts
      /\ Len(shape) \in Nat
  BY DEF PyInv, StepsInv, Dims
<1>2. /\ window.indices[d] = IF extents.all THEN 0 ELSE extents.each[d].start
      /\ window.counts[d] = IF extents.all THEN shape[d]
                             ELSE CanonicalCount(extents.each[d], shape[d])
  BY <1>1 DEF StartCount
<1>3. asked.each = PyRanges /\ ~asked.all
  BY <1>1
<1>4. extents = [all |-> FALSE, each |-> [e \in 1..Len(PyRanges) |-> Convert(PyRanges[e])]]
  BY <1>1, <1>3 DEF Converted
<1>5. Len(PyRanges) = Len(shape) /\ PyRanges[d] = RangeAt(d) /\ RangeAt(d).form = "counted"
  BY <1>1, RangesRight DEF PyRanges
<1>6. ~extents.all /\ extents.each[d] = Convert(RangeAt(d))
  BY <1>1, <1>4, <1>5
<1> QED
  BY <1>2, <1>5, <1>6 DEF Convert, CanonicalCount

\* Which is within the dimension, and is what the item selects.
LEMMA WindowOfItem ==
  ASSUME PyInv, items # None, pc = "sliced", NEW d \in Dims
  PROVE  LET i == window.indices[d]
             c == window.counts[d]
         IN /\ i \in Nat /\ c \in Nat /\ shape[d] \in Nat
            /\ i + c <= shape[d] /\ Wrap(i + c) = i + c
            /\ IF LastIndex(d) THEN c = 0 ELSE SelectedAt(d) = i..(i + c - 1)
<1> DEFINE i == window.indices[d]
           c == window.counts[d]
           r == RangeAt(d)
<1>1. d \in 1..Len(shape) /\ Accepts
  BY DEF PyInv, Dims
<1>4. shape[d] \in 0..(Half - 1)
  BY <1>1, RangesRight
<1>5. i = r.start /\ c = r.end
  BY RangeInWindow
<1>6. shape[d] \in Nat /\ shape[d] < 2^Width
  BY <1>4, HalfFacts, PowerFacts DEF Number
<1>7. CASE d \in Met
  <2> DEFINE lo == First(items[d], shape[d])
             hi == Last(items[d], shape[d])
  <2>1. items[d] \in Item /\ Plain(items[d]) /\ i = lo /\ c = hi - lo /\ lo <= hi
    BY <1>1, <1>5, <1>7, RangesRight
  <2>2. lo \in 0..shape[d] /\ hi \in 0..shape[d]
    BY <1>6, <2>1, BoundsIn DEF Plain
  <2>3. IF items[d].form = "int" /\ items[d].n = -1 THEN hi <= lo
        ELSE Selected(items[d], shape[d]) = lo..(hi - 1)
    BY <1>6, <2>1, ItemSelects
  <2>4. SelectedAt(d) = Selected(items[d], shape[d])
        /\ (LastIndex(d) <=> items[d].form = "int" /\ items[d].n = -1)
    BY <1>7 DEF SelectedAt, LastIndex
  <2> HIDE DEF lo, hi, i, c
  <2>5. i + c = hi /\ i \in Nat /\ c \in Nat /\ i + c <= shape[d]
    BY <1>6, <2>1, <2>2
  <2>6. Wrap(i + c) = i + c
    BY <1>6, <2>5, PowerFacts, WrapFits
  <2>7. IF LastIndex(d) THEN c = 0 ELSE SelectedAt(d) = i..(i + c - 1)
    BY <2>1, <2>2, <2>3, <2>4, <2>5
  <2> QED
    BY <1>6, <2>5, <2>6, <2>7 DEF i, c
<1>8. CASE d \notin Met
  <2>1. i = 0 /\ c = shape[d]
    BY <1>1, <1>5, <1>8, RangesRight
  <2>2. SelectedAt(d) = 0..(shape[d] - 1) /\ ~LastIndex(d)
    BY <1>8 DEF SelectedAt, LastIndex
  <2> QED
    BY <1>6, <2>1, <2>2, WrapFits
<1> QED
  BY <1>7, <1>8

\* The last index, where there is one before it, is never accepted.
LEMMA LastIsRefused ==
  ASSUME PyInv, items # None, pc = "sliced", NEW d \in Dims, LastIndex(d)
  PROVE  shape[d] <= 1
<1>1. d \in 1..Len(shape) /\ Accepts /\ d \in Met /\ items[d].form = "int" /\ items[d].n = -1
  BY DEF PyInv, Dims, LastIndex
<1>2. /\ shape[d] \in 0..(Half - 1)
      /\ First(items[d], shape[d]) <= Last(items[d], shape[d])
  BY <1>1, RangesRight
<1>3. shape[d] \in Nat
  BY <1>2, HalfFacts
<1>4. /\ First(items[d], shape[d]) = Clip(-1, shape[d], 0)
      /\ Last(items[d], shape[d]) = Clip(0, shape[d], shape[d])
  BY <1>1 DEF First, Last, AsSlice
<1>5. -1 # None /\ 0 # None
  BY NoneAssumption
<1>6. shape[d] > 1 => Clip(-1, shape[d], 0) = shape[d] - 1 /\ Clip(0, shape[d], shape[d]) = 0
  BY <1>3, <1>5 DEF Clip
<1> QED
  BY <1>2, <1>3, <1>4, <1>6

\* An interval has as many elements as it says.
LEMMA IntervalSize ==
  ASSUME NEW i \in Nat, NEW c \in Nat
  PROVE  Cardinality(i..(i + c - 1)) = c
<1>1. i \in Int /\ i + c - 1 \in Int
  OBVIOUS
<1>2. Cardinality(i..(i + c - 1)) = IF i <= i + c - 1 THEN (i + c - 1) - i + 1 ELSE 0
  BY <1>1, FS_Interval
<1> QED
  BY <1>2

\* What no array can be made for has no meaning, or is the last index.
LEMMA RaisedRight ==
  ASSUME PyInv, items # None, ~Accepts
  PROVE  Unreadable \/ \E d \in Dims : SelectedAt(d) = {} \/ LastIndex(d)
<1> SUFFICES ASSUME ~Unreadable
             PROVE  \E d \in Dims : SelectedAt(d) = {} \/ LastIndex(d)
  OBVIOUS
<1>1. shape \in Seq(0..(Half - 1)) /\ items \in Seq(Item) /\ Len(shape) \in Nat /\ Len(items) \in Nat
  BY DEF PyInv
<1>2. \A d \in Met : d \in LookedAt /\ d \in 1..Len(items) /\ d \in 1..Len(shape)
  BY <1>1 DEF Met, LookedAt, Lesser
<1>3. \A k \in LookedAt : items[k].form # "other"
  BY DEF Unreadable
<1>4. \A d \in Met : items[d] \in Item /\ Plain(items[d])
  <2> TAKE d \in Met
  <2>1. items[d] \in Item /\ items[d].form # "other"
    BY <1>1, <1>2, <1>3
  <2>2. items[d].form = "slice" => items[d].step = 1
    BY <1>2 DEF Unreadable
  <2>3. CASE items[d].form = "int"
    BY <2>1, <2>3 DEF Plain, AsSlice
  <2>4. CASE items[d].form = "slice"
    BY <2>1, <2>2, <2>4 DEF Plain, AsSlice
  <2> QED
    BY <2>1, <2>3, <2>4 DEF Item
<1>5. PICK d \in 1..Len(shape) : ~(RangeAt(d).end < Half)
  BY <1>3, <1>4 DEF Accepts, Plain, Half
<1>6. shape[d] \in 0..(Half - 1) /\ shape[d] \in Nat /\ shape[d] < Half
  BY <1>1, HalfFacts
<1>7. d \in Met
  BY <1>5, <1>6 DEF RangeAt
<1> DEFINE lo == First(items[d], shape[d])
           hi == Last(items[d], shape[d])
<1>8. lo \in 0..shape[d] /\ hi \in 0..shape[d]
  BY <1>4, <1>6, <1>7, BoundsIn DEF Plain
<1>9. RangeAt(d).end = Wrap(hi - lo)
  BY <1>7 DEF RangeAt, RangeOf, First, Last
<1>10. IF items[d].form = "int" /\ items[d].n = -1 THEN hi <= lo
       ELSE Selected(items[d], shape[d]) = lo..(hi - 1)
  BY <1>4, <1>6, <1>7, ItemSelects
<1>11. d \in Dims /\ SelectedAt(d) = Selected(items[d], shape[d])
       /\ (LastIndex(d) <=> items[d].form = "int" /\ items[d].n = -1)
  BY <1>7 DEF SelectedAt, LastIndex, Dims
<1> HIDE DEF lo, hi
<1>12. hi < lo
  BY <1>5, <1>6, <1>8, <1>9, LengthOf
<1>13. lo..(hi - 1) = {}
  BY <1>6, <1>8, <1>12
<1> QED
  BY <1>10, <1>11, <1>13

LEMMA PyMeans == PyInv => PythonGetsTheSlice
<1> SUFFICES ASSUME PyInv, items # None PROVE PythonGetsTheSlice
  BY DEF PythonGetsTheSlice
<1> DEFINE can  == \A d \in Dims : SelectedAt(d) # {} /\ ~LastIndex(d)
           read == \A d \in Dims : SelectedAt(d) =
                     window.indices[d]..(window.indices[d] + window.counts[d] - 1)
           size == Product([d \in Dims |-> Cardinality(SelectedAt(d))])
           i(d) == window.indices[d]
           c(d) == window.counts[d]
<1>1. pc # "refused"
  <2> SUFFICES ASSUME pc = "refused" PROVE FALSE
    OBVIOUS
  <2>1. asked = [all |-> FALSE, each |-> PyRanges, uneven |-> FALSE] /\ Accepts /\ Meaningless
    BY DEF PyInv, StepsInv
  <2>2. asked.each = PyRanges /\ ~asked.uneven
    BY <2>1
  <2>3. Len(PyRanges) = Len(shape) /\ \A d \in 1..Len(shape) : PyRanges[d] = RangeAt(d)
    BY DEF PyRanges, PyInv
  <2>4. \A d \in 1..Len(shape) : PyRanges[d].form = "counted"
    BY <2>1, <2>3, RangesRight
  <2> QED
    BY <2>1, <2>2, <2>3, <2>4 DEF Meaningless, Unsupported, Strange
<1>2. ASSUME pc = "sliced"
      PROVE  /\ ~Unreadable /\ window.empty = ~can /\ (can => read /\ Product(dims) = size)
             /\ \A d \in Dims : LastIndex(d) => shape[d] <= 1
  <2>1. /\ Accepts /\ dims = DimsOf([d \in 1..Len(shape) |-> PyRanges[d].end])
        /\ asked = [all |-> FALSE, each |-> PyRanges, uneven |-> FALSE]
    BY <1>2 DEF PyInv
  <2>2. ~Unreadable
    <3>1. \A k \in Met : items[k].form = "slice" => items[k].step = 1
      BY <2>1 DEF Accepts, AsSlice
    <3> QED
      BY <2>1, <3>1 DEF Unreadable, Accepts
  <2>3. window.empty <=> \/ \E d \in Dims : Wrap(i(d) + c(d)) > shape[d]
                        \/ \E d \in Dims : c(d) = 0
    BY <1>2 DEF PyInv, StepsInv, Leaves, Dims
  <2>4. \A d \in Dims : /\ i(d) \in Nat /\ c(d) \in Nat /\ shape[d] \in Nat
                         /\ i(d) + c(d) <= shape[d] /\ Wrap(i(d) + c(d)) = i(d) + c(d)
                         /\ IF LastIndex(d) THEN c(d) = 0 ELSE SelectedAt(d) = i(d)..(i(d) + c(d) - 1)
    BY <1>2, WindowOfItem
  <2>5. \A d \in Dims : c(d) = 0 <=> ~(SelectedAt(d) # {} /\ ~LastIndex(d))
    <3> TAKE d \in Dims
    <3>1. i(d) \in Nat /\ c(d) \in Nat /\ shape[d] \in Nat
      BY <2>4
    <3>2. i(d)..(i(d) + c(d) - 1) = {} <=> c(d) = 0
      BY <3>1, Intervals
    <3> HIDE DEF i, c
    <3> QED
      BY <2>4, <3>2
  <2>6. window.empty <=> ~can
    <3>1. \A d \in Dims : ~(Wrap(i(d) + c(d)) > shape[d])
      BY <2>4
    <3> HIDE DEF i, c
    <3> QED
      BY <2>3, <2>5, <3>1
  <2>7. window.empty \in BOOLEAN
    <3>1. \A x, y, z : Leaves(x, y, z) \in BOOLEAN
      BY DEF Leaves
    <3> QED
      BY <1>2, <3>1 DEF PyInv, StepsInv
  <2>10. \A d \in Dims : LastIndex(d) => shape[d] <= 1
    BY <1>2, LastIsRefused
  <2>8. ASSUME can PROVE read
    BY <2>4, <2>8
  <2>9. ASSUME can PROVE Product(dims) = size
    <3> DEFINE ends == [d \in 1..Len(shape) |-> PyRanges[d].end]
    <3>1. Len(shape) \in Nat /\ Dims = 1..Len(shape)
      BY DEF PyInv, Dims
    <3>2. ASSUME NEW d \in Dims
          PROVE  /\ PyRanges[d].end = c(d) /\ c(d) \in Nat \ {0}
                 /\ Cardinality(SelectedAt(d)) = c(d)
      <4>1. c(d) \in Nat /\ c(d) # 0 /\ i(d) \in Nat
        BY <2>4, <2>5, <2>9
      <4>2. SelectedAt(d) = i(d)..(i(d) + c(d) - 1)
        BY <2>4, <2>9
      <4>3. Cardinality(SelectedAt(d)) = c(d)
        BY <4>1, <4>2, IntervalSize
      <4>4. PyRanges[d].end = c(d)
        BY <1>2, RangeInWindow
      <4> QED
        BY <4>1, <4>3, <4>4
    <3>3. ends = [d \in Dims |-> Cardinality(SelectedAt(d))]
      BY <3>1, <3>2
    <3>4. ends \in Seq(Nat \ {0})
      <4>1. \A d \in 1..Len(shape) : PyRanges[d].end \in Nat \ {0}
        BY <3>1, <3>2
      <4> QED
        BY <3>1, <4>1
    <3>5. Product(DimsOf(ends)) = Product(ends)
      BY <3>4, DimsHold
    <3> QED
      BY <2>1, <3>3, <3>5
  <2> HIDE DEF can, read, size
  <2> QED
    BY <2>2, <2>6, <2>7, <2>8, <2>9, <2>10 DEF can
<1>3. pc = "raised" => Unreadable \/ ~can
  BY RaisedRight DEF PyInv
<1> HIDE DEF can, read, size
<1>4. /\ pc # "refused"
      /\ pc = "sliced" => /\ ~Unreadable /\ window.empty = ~can
                          /\ can => read /\ Product(dims) = size
                          /\ \A d \in Dims : LastIndex(d) => shape[d] <= 1
      /\ pc = "raised" => Unreadable \/ ~can
  BY <1>1, <1>2, <1>3
<1> QED
  BY <1>4 DEF PythonGetsTheSlice, can, read, size

\* What a subscript means in Python is what is read, into an array of that many
\* values: the last index is not, and is refused (python.rs:112, 210).
THEOREM PythonReadsTheSlice == SpecPython => []PythonGetsTheSlice
BY PyMeans, PyHolds, PTL

\* The ranges that a subscript became are read as any other caller's.
THEOREM PythonReadsWhatIsMeant == SpecPython => []ReadsWhatIsMeant
<1>1. PyInv => ReadsWhatIsMeant
  BY StepsMean DEF PyInv
<1> QED
  BY <1>1, PyHolds, PTL

\* And of these none slips through the check: what a subscript became is read,
\* or is refused (python.rs:210, dataset.rs:297).
THEOREM PythonNeverSlips == SpecPython => [](items # None /\ pc = "sliced" => IsMeant)
<1>1. PyInv => (items # None /\ pc = "sliced" => IsMeant)
  <2> SUFFICES ASSUME PyInv, items # None, pc = "sliced" PROVE IsMeant
    OBVIOUS
  <2>1. \A d \in Dims : ~Slips(asked.each[d], shape[d])
    <3> TAKE d \in Dims
    <3>1. asked.each[d] = RangeAt(d)
      BY RangeInWindow DEF PyInv
    <3>2. RangeAt(d).form = "counted"
      BY RangesRight DEF PyInv, Dims
    <3>3. /\ RangeAt(d).start = window.indices[d] /\ RangeAt(d).end = window.counts[d]
          /\ window.indices[d] \in Nat /\ window.counts[d] \in Nat
          /\ window.indices[d] + window.counts[d] <= shape[d]
      BY RangeInWindow, WindowOfItem
    <3>4. shape[d] \in Nat /\ shape[d] < 2^Width
      BY HalfFacts, PowerFacts DEF PyInv, Dims, Number
    <3>5. RangeAt(d).start + RangeAt(d).end < 2^Width
      BY <3>3, <3>4, PowerFacts
    <3> QED
      BY <3>1, <3>2, <3>3, <3>5, PowerFacts DEF Slips
  <2>2. ~Slipped
    BY <2>1 DEF Slipped
  <2> QED
    BY <2>2, StepsMean DEF PyInv, ReadsWhatIsMeant
<1> QED
  BY <1>1, PyHolds, PTL
===============================================================================
