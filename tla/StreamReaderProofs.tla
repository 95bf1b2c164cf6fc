---------------------------- MODULE StreamReaderProofs ----------------------------
(***************************************************************************)
(* What a stream delivers is the beginning of the slice in the form of the *)
(* stream, and all of it when the stream ends; its cache holds chunks in   *)
(* that form.  For all runs that join to a slice, all sizes of values and  *)
(* of chunks, byte orders and machines, wherever the stream fails or is    *)
(* dropped.                                                                *)
(***************************************************************************)
EXTENDS StreamReader, SequenceTheorems, TLAPS

Arith == INSTANCE ArrayLemmas

\* A byte that is delivered: of a chunk, a value, and a place in the value.
StreamByte == Addrs \X Nat \X Int

\* What the consumer has in a byte's place.
Got == StreamByte \cup {Withheld}

\* What is known of the stream that was asked for.
LEMMA CallFacts ==
  ASSUME call \in Calls
  PROVE  /\ call.request \in Requests
         /\ call.mode \in {"stream", "stream_xdr", "stream_values"}
         /\ call.machine \in {"LE", "BE"}
         /\ call.T.size \in Nat \ {0}
         /\ ds.kind \in {"UInt", "Int", "Float", "Custom"}
         /\ ds.dsize \in Nat \ {0}
         /\ ds.order \in {"BE", "LE", "Unknown"}
         /\ ds.kind \in {"UInt", "Int"} => ds.dsize \in {1, 2, 4, 8} /\ ds.order # "Unknown"
         /\ ds.kind = "Float" => ds.dsize \in {4, 8}
<1>1. /\ call.request \in Requests
      /\ call.mode \in {"stream", "stream_xdr", "stream_values"}
      /\ call.machine \in Machines
      /\ call.T = Untyped \/ call.T \in Types
      /\ ds \in Datasets
  BY DEF Calls, ds
<1>2. call.T.size \in Nat \ {0}
  BY <1>1, ParameterAssumption DEF Untyped
<1>3. ds \in [kind : {"UInt", "Int", "Float", "Custom"}, dsize : Nat \ {0},
              order : {"BE", "LE", "Unknown"}]
  BY <1>1, TypesAssumption
<1> QED
  BY <1>1, <1>2, <1>3, ParameterAssumption, TypesAssumption

\* A value has as many bytes as Scale says, in the form of the stream.
LEMMA ScaleForm ==
  ASSUME call \in Calls, NEW v
  PROVE  /\ Scale \in Nat \ {0}
         /\ Len(Form(v)) = Scale
         /\ Form(v) = [b \in 1..Scale |-> Form(v)[b]]
         /\ call.mode # "stream_xdr" => Scale = ds.dsize
<1>1. CASE call.mode # "stream_xdr"
  <2>1. Scale = ds.dsize /\ Scale \in Nat \ {0}
    BY <1>1, CallFacts DEF Scale
  <2>2. CASE call.mode = "stream"
    BY <2>1, <2>2 DEF Form
  <2>3. CASE call.mode = "stream_values"
    BY <2>1, <2>3 DEF Form
  <2> QED
    BY <1>1, <2>1, <2>2, <2>3, CallFacts
<1>2. CASE call.mode = "stream_xdr" /\ StaysInXdr
  <2>1. Scale = ds.dsize /\ Scale \in Nat \ {0}
    BY <1>2, CallFacts DEF Scale, Factor, StaysInXdr
  <2> QED
    BY <1>2, <2>1 DEF Form
<1>3. CASE call.mode = "stream_xdr" /\ ~StaysInXdr
  <2>1. ds.dsize \in {1, 2, 4, 8}
    BY <1>3, CallFacts DEF StaysInXdr
  <2>2. Scale = Greater(4, ds.dsize) /\ Scale \in Nat \ {0}
    BY <1>3, <2>1 DEF Scale, Factor, Greater, StaysInXdr
  <2> QED
    BY <1>3, <2>2 DEF Form
<1> QED
  BY <1>1, <1>2, <1>3

\* Where a byte of a chunk is, as it is stored.
LEMMA DecodedAt ==
  ASSUME call \in Calls, NEW a \in Addrs,
         NEW v \in 0..(ChunkLen - 1), NEW b \in 0..(ds.dsize - 1)
  PROVE  /\ v * ds.dsize + b \in DOMAIN Decoded(a)
         /\ Decoded(a)[v * ds.dsize + b] = <<a, v, b>>
<1> DEFINE p == v * ds.dsize + b
<1>1. ds.dsize \in Nat \ {0} /\ ChunkLen \in Nat \ {0} /\ v \in Int
  BY CallFacts, ParameterAssumption
<1>2. p \in 0..(ChunkLen * ds.dsize - 1)
  BY <1>1, Arith!PartBelow
<1>3. p \div ds.dsize = v /\ p % ds.dsize = b
  BY <1>1, Arith!Parts
<1> QED
  BY <1>2, <1>3 DEF Decoded

\* What is cached of a chunk has each value in the form of the stream; values_to
\* converts later.
LEMMA PreparedAt ==
  ASSUME call \in Calls, NEW a \in Addrs,
         NEW v \in 0..(ChunkLen - 1), NEW b \in 0..(Scale - 1)
  PROVE  /\ v * Scale + b \in DOMAIN Prepared(a)
         /\ call.mode # "stream_values" =>
              Prepared(a)[v * Scale + b] = Form(<<a, v>>)[b + 1]
         /\ call.mode = "stream_values" => Prepared(a)[v * Scale + b] = <<a, v, b>>
<1>0. ChunkLen \in Nat \ {0} /\ v \in Nat
  BY ParameterAssumption
<1>1. CASE call.mode = "stream_values"
  <2>1. Scale = ds.dsize /\ Prepared(a) = Decoded(a)
    BY <1>1, ScaleForm DEF Prepared
  <2> QED
    BY <1>1, <2>1, DecodedAt
<1>2. CASE call.mode = "stream"
  <2>1. Scale = ds.dsize /\ Prepared(a) = Decoded(a)
    BY <1>2, ScaleForm DEF Prepared
  <2>2. Form(<<a, v>>)[b + 1] = <<a, v, b>>
    BY <1>2, <2>1, CallFacts DEF Form
  <2> QED
    BY <1>2, <2>1, <2>2, DecodedAt
<1>3. CASE call.mode = "stream_xdr" /\ StaysInXdr
  <2>1. Scale = ds.dsize /\ ds.kind \in {"Custom", "Float"}
    BY <1>3, CallFacts DEF StaysInXdr, Scale, Factor
  <2>2. Prepared(a) = Decoded(a)
    BY <1>3, <2>1 DEF StaysInXdr, Prepared, Xdr, ToBigEndian
  <2>3. Form(<<a, v>>)[b + 1] = <<a, v, b>>
    BY <1>3, <2>1, CallFacts DEF Form
  <2> QED
    BY <1>3, <2>1, <2>2, <2>3, DecodedAt
<1>4. CASE call.mode = "stream_xdr" /\ ~StaysInXdr /\ ds.dsize \in {4, 8}
  <2> DEFINE d == ds.dsize
             p == v * d + b
             q == v * d + (d - 1 - b)
  <2>1. Scale = d /\ ds.order \in {"BE", "LE"} /\ ds.kind # "Custom"
    BY <1>4, CallFacts DEF StaysInXdr, Scale, Factor
  <2>2. Prepared(a) = IF ds.order = "LE" THEN Reversed(Decoded(a), d) ELSE Decoded(a)
    BY <1>4, <2>1 DEF Prepared, Xdr, ToBigEndian
  <2>3. /\ p \in DOMAIN Decoded(a) /\ Decoded(a)[p] = <<a, v, b>>
        /\ q \in DOMAIN Decoded(a) /\ Decoded(a)[q] = <<a, v, d - 1 - b>>
    BY <1>4, <2>1, DecodedAt
  <2>4. (p \div d) * d + (d - 1 - (p % d)) = q
    BY <1>4, <2>1, <1>0
  <2>5. p \in DOMAIN Prepared(a)
    BY <2>2, <2>3 DEF Reversed
  <2>6. Prepared(a)[p] = <<a, v, IF ds.order = "LE" THEN d - 1 - b ELSE b>>
    BY <2>1, <2>2, <2>3, <2>4 DEF Reversed
  <2>7. Form(<<a, v>>)[b + 1] = <<a, v, IF ds.order = "LE" THEN d - 1 - b ELSE b>>
    BY <1>4, <2>1 DEF Form, StoredAt, Greater
  <2> QED
    BY <1>4, <2>1, <2>5, <2>6, <2>7
<1>5. CASE call.mode = "stream_xdr" /\ ~StaysInXdr /\ ds.dsize \in {1, 2}
  <2> DEFINE d == ds.dsize
             p == v * 4 + b
  <2>1. /\ Scale = 4 /\ ds.order \in {"BE", "LE"} /\ ds.kind \in {"UInt", "Int"}
        /\ call.machine \in {"LE", "BE"}
    BY <1>5, CallFacts DEF StaysInXdr, Scale, Factor
  <2> DEFINE native == ToNative(Decoded(a), ds.kind, d, ds.order, call.machine)
             fill   == [u \in 0..(ChunkLen - 1) |-> <<a, u, Fill>>]
             at(c)  == IF call.machine = "LE" THEN c ELSE c - (4 - d)
             wide   == [k \in 0..(4 * ChunkLen - 1) |->
                          IF at(k % 4) \in 0..(d - 1) THEN native[(k \div 4) * d + at(k % 4)]
                          ELSE fill[k \div 4]]
  <2>2. Prepared(a) = IF call.machine = "LE" THEN Reversed(wide, 4) ELSE wide
    BY <1>5, <2>1 DEF Prepared, Xdr, Cast, ToBigEndian
  \* the byte of significance g, from the machine's number
  <2>3. ASSUME NEW g \in 0..(d - 1)
        PROVE  native[v * d + (IF call.machine = "LE" THEN g ELSE d - 1 - g)]
                 = <<a, v, StoredAt(g, d, ds.order)>>
    <3> DEFINE place == IF call.machine = "LE" THEN g ELSE d - 1 - g
    <3>1. /\ place \in 0..(d - 1)
          /\ (((v * d + place) \div d) * d) + (d - 1 - ((v * d + place) % d))
               = v * d + (d - 1 - place)
      <4>1. d \in Nat \ {0} /\ place \in 0..(d - 1) /\ v \in Int
        BY <1>0, CallFacts
      <4> HIDE DEF place
      <4>2. (v * d + place) \div d = v /\ (v * d + place) % d = place
        BY <4>1, Arith!Parts
      <4> QED
        BY <4>1, <4>2
    <3>2. /\ v * d + place \in DOMAIN Decoded(a)
          /\ Decoded(a)[v * d + place] = <<a, v, place>>
          /\ Decoded(a)[v * d + (d - 1 - place)] = <<a, v, d - 1 - place>>
      BY <3>1, <1>5, DecodedAt
    <3>3. native[v * d + place]
            = <<a, v, IF ds.order # call.machine THEN d - 1 - place ELSE place>>
      BY <2>1, <3>1, <3>2 DEF ToNative, Swapped, Reversed
    <3> QED
      BY <1>5, <2>1, <3>3 DEF StoredAt
  <2>4. ASSUME NEW c \in 0..3
        PROVE  /\ v * 4 + c \in DOMAIN wide
               /\ wide[v * 4 + c] = IF at(c) \in 0..(d - 1) THEN native[v * d + at(c)]
                                    ELSE <<a, v, Fill>>
    <3>1. /\ v * 4 + c \in 0..(4 * ChunkLen - 1)
          /\ (v * 4 + c) % 4 = c /\ (v * 4 + c) \div 4 = v
      BY <1>0
    <3> QED
      BY <3>1
  <2> HIDE DEF wide
  <2>5. Prepared(a)[v * 4 + b] = wide[v * 4 + (IF call.machine = "LE" THEN 3 - b ELSE b)]
    <3>1. v * 4 + b \in DOMAIN wide
      BY <2>1, <2>4
    <3>2. (((v * 4 + b) \div 4) * 4) + (3 - ((v * 4 + b) % 4)) = v * 4 + (3 - b)
      BY <1>0, <2>1
    <3> QED
      BY <2>2, <3>1, <3>2 DEF Reversed
  <2>6. v * 4 + b \in DOMAIN Prepared(a)
    BY <2>1, <2>2, <2>4 DEF Reversed
  <2>7. Form(<<a, v>>)[b + 1]
          = <<a, v, IF 3 - b >= d THEN Fill ELSE StoredAt(3 - b, d, ds.order)>>
    <3>1. call.mode = "stream_xdr" /\ ~StaysInXdr /\ Greater(4, d) = 4 /\ b \in 0..3
      BY <1>5, <2>1 DEF Greater
    <3>2. Form(<<a, v>>) =
            [k \in 1..4 |-> <<a, v, IF 4 - k >= d THEN Fill ELSE StoredAt(4 - k, d, ds.order)>>]
      BY <3>1 DEF Form
    <3>3. b + 1 \in 1..4 /\ 4 - (b + 1) = 3 - b
      BY <3>1
    <3> QED
      BY <3>2, <3>3
  <2>8. Prepared(a)[v * 4 + b] = Form(<<a, v>>)[b + 1]
    <3> DEFINE c == IF call.machine = "LE" THEN 3 - b ELSE b
    <3>1. c \in 0..3 /\ (at(c) \in 0..(d - 1) <=> 3 - b < d)
      BY <1>5, <2>1
    <3>2. CASE 3 - b < d
      <4>1. 3 - b \in 0..(d - 1) /\ at(c) = IF call.machine = "LE" THEN 3 - b ELSE d - 1 - (3 - b)
        BY <1>5, <2>1, <3>2
      <4>2. native[v * d + at(c)] = <<a, v, StoredAt(3 - b, d, ds.order)>>
        BY <4>1, <2>3
      <4> QED
        <5>1. wide[v * 4 + c] = native[v * d + at(c)]
          BY <2>4, <3>1, <3>2
        <5>2. ~(3 - b >= d)
          BY <1>5, <2>1, <3>2
        <5> QED
          BY <2>5, <2>7, <4>2, <5>1, <5>2
    <3>3. CASE ~(3 - b < d)
      BY <1>5, <2>1, <2>4, <2>5, <2>7, <3>1, <3>3
    <3> QED
      BY <3>2, <3>3
  <2> QED
    BY <1>5, <2>1, <2>6, <2>8
<1> QED
  BY <1>1, <1>2, <1>3, <1>4, <1>5, CallFacts DEF StaysInXdr

\* A chunk in the form of the stream is made of the bytes of that chunk, and there
\* is one wherever a run may look.
LEMMA PreparedTyped ==
  ASSUME call \in Calls, NEW a \in Addrs, NEW p \in 0..(ChunkLen * Scale - 1)
  PROVE  p \in DOMAIN Prepared(a) /\ Prepared(a)[p] \in StreamByte
<1> DEFINE v == p \div Scale
           b == p % Scale
<1>1. ChunkLen \in Nat \ {0} /\ Scale \in Nat \ {0} /\ p \in Nat
  <2>1. ChunkLen \in Nat \ {0} /\ Scale \in Nat \ {0}
    BY ScaleForm, ParameterAssumption
  <2> QED
    BY <2>1
<1>2. v \in 0..(ChunkLen - 1) /\ b \in 0..(Scale - 1) /\ p = v * Scale + b
  BY <1>1, Arith!PartOf, Arith!PartsOf
<1> HIDE DEF v, b
<1>3. p \in DOMAIN Prepared(a)
  BY <1>2, PreparedAt
<1>4. CASE call.mode = "stream_values"
  <2>1. Prepared(a)[p] = <<a, v, b>>
    BY <1>2, <1>4, PreparedAt
  <2> QED
    BY <1>1, <1>2, <1>3, <2>1 DEF StreamByte
<1>5. CASE call.mode # "stream_values"
  <2>1. Prepared(a)[p] = Form(<<a, v>>)[b + 1] /\ b + 1 \in 1..Scale
    BY <1>1, <1>2, <1>5, PreparedAt
  <2>2. \E x \in Int : Form(<<a, v>>)[b + 1] = <<a, v, x>>
    <3>1. b \in Int /\ ds.dsize \in Nat \ {0}
      BY <1>1, <1>2, CallFacts
    <3>2. CASE call.mode = "stream" \/ StaysInXdr
      <4>1. Form(<<a, v>>) = [k \in 1..ds.dsize |-> <<a, v, k - 1>>]
        BY <1>5, <3>2, CallFacts DEF Form
      <4>2. Scale = ds.dsize
        BY <1>5, <3>2, CallFacts DEF Scale, Factor, StaysInXdr
      <4>3. b + 1 \in 1..ds.dsize /\ (b + 1) - 1 = b
        BY <2>1, <3>1, <4>2
      <4>4. Form(<<a, v>>)[b + 1] = <<a, v, b>>
        BY <4>1, <4>3
      <4> QED
        BY <3>1, <4>4
    <3>3. CASE call.mode = "stream_xdr" /\ ~StaysInXdr
      <4> DEFINE width == Greater(4, ds.dsize)
                 x     == IF width - (b + 1) >= ds.dsize THEN Fill
                          ELSE StoredAt(width - (b + 1), ds.dsize, ds.order)
      <4>1. Form(<<a, v>>) =
              [k \in 1..width |-> <<a, v, IF width - k >= ds.dsize THEN Fill
                                         ELSE StoredAt(width - k, ds.dsize, ds.order)>>]
        BY <3>3 DEF Form
      <4>2. Scale = width
        BY <3>3, CallFacts DEF Scale, Factor, StaysInXdr, Greater
      <4>3. x \in Int
        BY <3>1 DEF Greater, Fill, StoredAt
      <4>4. Form(<<a, v>>)[b + 1] = <<a, v, x>>
        BY <2>1, <4>1, <4>2
      <4> QED
        BY <4>3, <4>4
    <3> QED
      BY <1>5, <3>2, <3>3, CallFacts
  <2>3. PICK x \in Int : Form(<<a, v>>)[b + 1] = <<a, v, x>>
    BY <2>2
  <2>4. v \in Nat
    BY <1>1, <1>2
  <2>5. <<a, v, x>> \in StreamByte
    BY <2>4 DEF StreamByte
  <2> QED
    BY <1>3, <2>1, <2>3, <2>5
<1> QED
  BY <1>3, <1>4, <1>5

\* The runs of a request.
LEMMA RunFacts ==
  ASSUME NEW r \in Requests, NEW n \in 1..Len(Runs[r])
  PROVE  LET run == Runs[r][n]
         IN /\ run.addr \in Addrs /\ run.start \in Nat /\ run.current \in Nat
            /\ run.end \in 0..ChunkLen /\ run.start < run.end
            /\ ChunkLen \in Nat
            /\ run.end - run.start \in Nat \ {0}
<1>1. Runs[r][n] \in [addr : Addrs, start : 0..ChunkLen, end : 0..ChunkLen, current : Nat]
  <2> DEFINE RunType == [addr : Addrs, start : 0..ChunkLen, end : 0..ChunkLen, current : Nat]
  <2>1. Runs \in [Requests -> Seq(RunType)]
    BY RunsAssumption
  <2> HIDE DEF RunType
  <2>2. Runs[r][n] \in RunType
    BY <2>1
  <2> QED
    BY <2>2 DEF RunType
<1>2. Runs[r][n].start < Runs[r][n].end
  BY RunsAssumption
<1> QED
  BY <1>1, <1>2, ParameterAssumption

\* The item of a run has the bytes of its values, one value after the other.
LEMMA CutRight ==
  ASSUME call \in Calls, NEW n \in 1..Len(Runs[call.request])
  PROVE  LET run  == Runs[call.request][n]
             len  == run.end - run.start
             item == Cut(Prepared(run.addr), run)
         IN /\ item \in Seq(StreamByte) /\ Len(item) = Scale * len
            /\ \A i \in 0..(len - 1) : \A b \in 0..(Scale - 1) :
                 /\ i * Scale + b + 1 \in 1..(Scale * len)
                 /\ item[i * Scale + b + 1] = Prepared(run.addr)[(run.start + i) * Scale + b]
<1> DEFINE run  == Runs[call.request][n]
           len  == run.end - run.start
           data == Prepared(run.addr)
           item == Cut(data, run)
<1>1. /\ run.addr \in Addrs /\ run.start \in Nat /\ run.end \in 0..ChunkLen
      /\ run.start < run.end /\ ChunkLen \in Nat /\ len \in Nat \ {0}
  BY CallFacts, RunFacts
<1>2. Scale \in Nat \ {0}
  BY ScaleForm
<1>3. item = [k \in 1..(Scale * len) |-> data[run.start * Scale + k - 1]]
  BY DEF Cut
<1> HIDE DEF run, data, item
<1>4. ASSUME NEW k \in 1..(Scale * len)
      PROVE  data[run.start * Scale + k - 1] \in StreamByte
  <2>1. run.start * Scale + k - 1 \in 0..(ChunkLen * Scale - 1)
    <3> DEFINE s == run.start * Scale
               e == run.end * Scale
               c == ChunkLen * Scale
               l == Scale * len
    <3>1. s \in Nat /\ e \in Nat /\ c \in Nat
      BY <1>1, <1>2
    <3>0. e <= c
      <4> DEFINE f == run.end
      <4>1. f \in Nat /\ f <= ChunkLen /\ ChunkLen \in Nat /\ Scale \in Nat
        BY <1>1, <1>2
      <4> HIDE DEF f
      <4>2. f * Scale <= ChunkLen * Scale
        BY <4>1
      <4> QED
        BY <4>2 DEF f
    <3>2. l = e - s
      BY <1>1, <1>2
    <3> HIDE DEF s, e, c, l
    <3>3. s + k - 1 \in 0..(c - 1)
      BY <3>0, <3>1, <3>2 DEF l
    <3> QED
      BY <3>3 DEF s, c
  <2> QED
    BY <1>1, <2>1, PreparedTyped DEF data
<1>5. item \in Seq(StreamByte) /\ Len(item) = Scale * len
  <2>1. Scale * len \in Nat
    BY <1>1, <1>2
  <2> QED
    BY <1>3, <1>4, <2>1
<1>6. ASSUME NEW i \in 0..(len - 1), NEW b \in 0..(Scale - 1)
      PROVE  /\ i * Scale + b + 1 \in 1..(Scale * len)
             /\ item[i * Scale + b + 1] = data[(run.start + i) * Scale + b]
  <2>1. i * Scale + b \in 0..(len * Scale - 1)
    BY <1>1, <1>2, Arith!PartBelow
  <2>2. len * Scale = Scale * len /\ Scale * len \in Nat /\ i * Scale \in Nat
    BY <1>1, <1>2
  <2>3. i * Scale + b + 1 \in 1..(Scale * len)
    BY <1>2, <2>1, <2>2
  <2>4. run.start * Scale + (i * Scale + b + 1) - 1 = (run.start + i) * Scale + b
    BY <1>1, <1>2
  <2> QED
    BY <1>3, <2>3, <2>4
<1> QED
  BY <1>5, <1>6 DEF run, data, item

\* How many bytes of an item are turned round at a time.
Turn == Turned(call.T.kind, call.T.size, ds.order, call.machine)

IsTurned == /\ ds.order # "Unknown" /\ ds.order # call.machine
            /\ ~(call.T.kind = "Float" /\ call.machine = "BE")

LEMMA TurnFacts ==
  ASSUME call \in Calls
  PROVE  Turn = (IF IsTurned THEN call.T.size ELSE 1) /\ Turn \in Nat \ {0}
BY CallFacts DEF Turn, Turned, ToTurn, IsTurned

\* The item is a whole number of values of the type asked for.
IsWhole(item) == Len(item) % call.T.size = 0

\* What stream_values makes of an item, byte by byte: it never looks beyond it.
LEMMA ConvertedAt ==
  ASSUME call \in Calls, NEW item \in Seq(StreamByte), IsWhole(item)
  PROVE  LET w     == call.T.size
             at(p) == IF IsTurned THEN (p \div w) * w + (w - 1 - (p % w)) ELSE p
         IN /\ Converted(item) \in Seq(StreamByte) /\ Len(Converted(item)) = Len(item)
            /\ \A p \in 0..(Len(item) - 1) :
                 /\ at(p) \in 0..(Len(item) - 1)
                 /\ Converted(item)[p + 1] = item[at(p) + 1]
<1> DEFINE w     == call.T.size
           m     == Len(item) \div w
           at(p) == IF IsTurned THEN (p \div w) * w + (w - 1 - (p % w)) ELSE p
           bytes == [p \in 0..(Len(item) - 1) |-> item[p + 1]]
<1>1. w \in Nat \ {0} /\ Len(item) \in Nat
  BY CallFacts
<1>2. m \in Nat /\ Len(item) = m * w
  <2>1. m \in Nat /\ Len(item) = (m * w) + (Len(item) % w)
    BY <1>1, Arith!PartsOf
  <2>2. Len(item) % w = 0
    BY DEF IsWhole
  <2> QED
    BY <1>1, <2>1, <2>2
<1> HIDE DEF m
<1>3. ASSUME NEW p \in 0..(Len(item) - 1)
      PROVE  at(p) \in 0..(Len(item) - 1)
  <2> DEFINE q == p \div w
             c == w - 1 - (p % w)
  <2>1. p \in 0..(m * w - 1) /\ p \in Nat
    BY <1>1, <1>2, <1>3
  <2>2. q \in 0..(m - 1) /\ p % w \in 0..(w - 1)
    BY <1>1, <1>2, <2>1, Arith!PartOf, Arith!PartsOf
  <2>3. c \in 0..(w - 1)
    BY <1>1, <2>2
  <2> HIDE DEF q, c
  <2>4. q * w + c \in 0..(m * w - 1)
    BY <1>1, <1>2, <2>2, <2>3, Arith!PartBelow
  <2>5. IsTurned => at(p) = q * w + c
    BY DEF q, c
  <2>6. ~IsTurned => at(p) = p
    OBVIOUS
  <2> QED
    BY <1>2, <2>1, <2>4, <2>5, <2>6
<1>4. /\ DOMAIN bytes = 0..(Len(item) - 1)
      /\ \A p \in 0..(Len(item) - 1) :
           ToNative(bytes, call.T.kind, w, ds.order, call.machine)[p] = bytes[at(p)]
  BY DEF ToNative, Swapped, Reversed, IsTurned
<1>5. Converted(item) = [k \in 1..Len(item) |->
                           ToNative(bytes, call.T.kind, w, ds.order, call.machine)[k - 1]]
  BY DEF Converted
<1>9. \A x \in 0..(Len(item) - 1) : bytes[x] = item[x + 1]
  OBVIOUS
<1> HIDE DEF at, bytes
<1>6. ASSUME NEW p \in 0..(Len(item) - 1)
      PROVE  /\ p + 1 \in 1..Len(item) /\ (p + 1) - 1 = p
             /\ Converted(item)[p + 1] = item[at(p) + 1]
  <2>1. p + 1 \in 1..Len(item) /\ (p + 1) - 1 = p
    BY <1>1
  <2>2. Converted(item)[p + 1] = bytes[at(p)]
    BY <1>4, <1>5, <2>1
  <2>3. at(p) \in 0..(Len(item) - 1)
    BY <1>3
  <2> QED
    BY <2>1, <2>2, <2>3, <1>9
<1>7. \A k \in 1..Len(item) : Converted(item)[k] \in StreamByte
  <2> TAKE k \in 1..Len(item)
  <2>1. k - 1 \in 0..(Len(item) - 1) /\ k = (k - 1) + 1
    BY <1>1
  <2>2. at(k - 1) \in 0..(Len(item) - 1)
    BY <1>3, <2>1
  <2>3. at(k - 1) + 1 \in 1..Len(item)
    BY <1>1, <2>2
  <2>4. Converted(item)[k] = item[at(k - 1) + 1]
    BY <1>6, <2>1
  <2> QED
    BY <2>3, <2>4
<1>8. Converted(item) \in Seq(StreamByte) /\ Len(Converted(item)) = Len(item)
  BY <1>1, <1>5, <1>7
<1> QED
  BY <1>3, <1>6, <1>8 DEF at

\* If the type fits, each value of the item is turned into native order.
LEMMA ConvertedFits ==
  ASSUME call \in Calls, call.mode = "stream_values", TypeFits,
         NEW item \in Seq(StreamByte), IsWhole(item),
         NEW i \in Nat, NEW b \in 0..(ds.dsize - 1),
         i * ds.dsize + b \in 0..(Len(item) - 1)
  PROVE  LET from == NativeFrom(b, ds.dsize, ds.order, call.machine)
         IN /\ from \in 0..(ds.dsize - 1)
            /\ Converted(item)[i * ds.dsize + b + 1] = item[i * ds.dsize + from + 1]
<1> DEFINE d    == ds.dsize
           from == NativeFrom(b, d, ds.order, call.machine)
           p    == i * d + b
<1>1. d \in Nat \ {0} /\ i \in Int /\ b \in Int
  BY CallFacts
<1>2. Turn = ToTurn(d, ds.order, call.machine)
  BY DEF TypeFits, Turn
<1>3. p \in 0..(Len(item) - 1)
  OBVIOUS
<1>4. CASE IsTurned
  <2>1. call.T.size = d
    BY <1>2, <1>4, TurnFacts DEF ToTurn, IsTurned
  <2>2. (p \div d) * d + (d - 1 - (p % d)) = i * d + (d - 1 - b)
    BY <1>1, Arith!Mirrored
  <2>3. from = d - 1 - b
    BY <1>1, <1>4, CallFacts DEF NativeFrom, StoredAt, IsTurned
  <2>4. Converted(item)[p + 1] = item[((p \div d) * d + (d - 1 - (p % d))) + 1]
    <3> DEFINE w == call.T.size
    <3>1. Converted(item)[p + 1] = item[((p \div w) * w + (w - 1 - (p % w))) + 1]
      BY <1>3, <1>4, ConvertedAt
    <3> QED
      BY <2>1, <3>1
  <2>5. (p \div d) * d + (d - 1 - (p % d)) = i * d + from
    BY <2>2, <2>3
  <2>6. from \in 0..(d - 1)
    BY <1>1, <2>3
  <2> HIDE DEF from
  <2> QED
    BY <2>4, <2>5, <2>6 DEF from
<1>5. CASE ~IsTurned
  <2>1. from = b
    <3>1. CASE ds.order = "Unknown" \/ ds.order = call.machine
      BY <1>1, <3>1, CallFacts DEF NativeFrom, StoredAt
    <3>2. CASE ds.order # "Unknown" /\ ds.order # call.machine
      <4>1. d = 1
        BY <1>2, <1>5, <3>2, TurnFacts DEF ToTurn
      <4>2. b = 0
        BY <1>1, <4>1
      <4>3. from \in {b, d - 1 - b, d - 1 - (d - 1 - b)}
        BY <1>1 DEF NativeFrom, StoredAt
      <4> QED
        BY <1>1, <4>1, <4>2, <4>3
    <3> QED
      BY <3>1, <3>2
  <2>2. Converted(item)[p + 1] = item[p + 1]
    BY <1>3, <1>5, ConvertedAt
  <2> QED
    BY <2>1, <2>2
<1> QED
  BY <1>4, <1>5

\* What the consumer gets of an item.
Given(item) == IF call.mode = "stream_values" THEN Converted(item) ELSE item

\* The runs' items, as they are given, are the values of the runs in the form of
\* the stream.
LEMMA GivenRight ==
  ASSUME call \in Calls, TypeFits, NEW n \in 1..Len(Runs[call.request]),
         NEW item, item = Cut(Prepared(Runs[call.request][n].addr), Runs[call.request][n]),
         call.mode = "stream_values" => IsWhole(item)
  PROVE  LET run == Runs[call.request][n]
             len == run.end - run.start
         IN /\ Given(item) \in Seq(StreamByte) /\ Len(Given(item)) = Scale * len
            /\ \A i \in 0..(len - 1) : \A b \in 0..(Scale - 1) :
                 Given(item)[i * Scale + b + 1] = Form(<<run.addr, run.start + i>>)[b + 1]
<1> DEFINE run == Runs[call.request][n]
           len == run.end - run.start
<1>1. /\ run.addr \in Addrs /\ run.start \in Nat /\ run.end \in 0..ChunkLen
      /\ run.start < run.end /\ ChunkLen \in Nat /\ len \in Nat \ {0}
  BY CallFacts, RunFacts
<1>2. Scale \in Nat \ {0}
  BY ScaleForm
<1>3. /\ item \in Seq(StreamByte) /\ Len(item) = Scale * len
      /\ \A i \in 0..(len - 1) : \A b \in 0..(Scale - 1) :
           /\ i * Scale + b + 1 \in 1..(Scale * len)
           /\ item[i * Scale + b + 1] = Prepared(run.addr)[(run.start + i) * Scale + b]
  BY CutRight
<1>4. /\ Given(item) \in Seq(StreamByte) /\ Len(Given(item)) = Scale * len
  BY <1>3, ConvertedAt DEF Given
<1>5. ASSUME NEW i \in 0..(len - 1), NEW b \in 0..(Scale - 1)
      PROVE  Given(item)[i * Scale + b + 1] = Form(<<run.addr, run.start + i>>)[b + 1]
  <2> DEFINE v == run.start + i
  <2>1. v \in 0..(ChunkLen - 1)
    <3> DEFINE s == run.start
               e == run.end
    <3>1. s \in Nat /\ e \in 0..ChunkLen /\ i \in 0..(e - s - 1) /\ ChunkLen \in Nat
      BY <1>1
    <3> HIDE DEF s, e
    <3>2. s + i \in 0..(ChunkLen - 1)
      BY <3>1
    <3> QED
      BY <3>2 DEF s
  <2>2. CASE call.mode # "stream_values"
    <3>1. Given(item)[i * Scale + b + 1] = Prepared(run.addr)[v * Scale + b]
      BY <1>3, <2>2 DEF Given
    <3>2. Prepared(run.addr)[v * Scale + b] = Form(<<run.addr, v>>)[b + 1]
      BY <1>1, <2>1, <2>2, PreparedAt
    <3> QED
      BY <3>1, <3>2
  <2>3. CASE call.mode = "stream_values"
    <3> DEFINE from == NativeFrom(b, ds.dsize, ds.order, call.machine)
    <3>1. Scale = ds.dsize
      BY <2>3, ScaleForm
    <3>2. /\ i \in Nat /\ b \in 0..(ds.dsize - 1)
          /\ i * ds.dsize + b \in 0..(Len(item) - 1)
      <4>1. i * Scale + b + 1 \in 1..(Scale * len)
        BY <1>3
      <4>2. i * Scale \in Int /\ b \in Int /\ Scale * len \in Nat
        BY <1>1, <1>2
      <4>3. i * Scale + b \in 0..(Scale * len - 1)
        <5> DEFINE x == i * Scale
                   y == Scale * len
        <5>1. x \in Int /\ b \in Int /\ y \in Nat /\ x + b + 1 \in 1..y
          BY <4>1, <4>2
        <5> HIDE DEF x, y
        <5>2. x + b \in 0..(y - 1)
          BY <5>1
        <5> QED
          BY <5>2 DEF x, y
      <4>4. Len(item) - 1 = Scale * len - 1
        BY <1>3
      <4>5. i \in Nat /\ b \in 0..(ds.dsize - 1)
        BY <1>1, <3>1
      <4> QED
        BY <3>1, <4>3, <4>4, <4>5
    <3>3. /\ from \in 0..(ds.dsize - 1)
          /\ Converted(item)[i * ds.dsize + b + 1] = item[i * ds.dsize + from + 1]
      BY <1>3, <2>3, <3>2, ConvertedFits
    <3> HIDE DEF from
    <3>4. item[i * Scale + from + 1] = Prepared(run.addr)[v * Scale + from]
      BY <1>3, <3>1, <3>3
    <3>5. Prepared(run.addr)[v * Scale + from] = <<run.addr, v, from>>
      BY <1>1, <2>1, <2>3, <3>1, <3>3, PreparedAt
    <3>6. Form(<<run.addr, v>>)[b + 1] = <<run.addr, v, from>>
      <4>1. Form(<<run.addr, v>>) =
              [k \in 1..ds.dsize |->
                 <<run.addr, v, NativeFrom(k - 1, ds.dsize, ds.order, call.machine)>>]
        BY <2>3 DEF Form
      <4>2. b + 1 \in 1..ds.dsize /\ (b + 1) - 1 = b
        BY <1>2, <3>1
      <4> QED
        BY <4>1, <4>2 DEF from
    <3> QED
      BY <2>3, <3>1, <3>3, <3>4, <3>5, <3>6 DEF Given
  <2> QED
    BY <2>2, <2>3
<1> QED
  BY <1>4, <1>5

\* The slice up to a value, in the form of the stream.
LEMMA WantedIs ==
  ASSUME call \in Calls, NEW n \in Nat
  PROVE  Wanted(n) = [k \in 1..(Scale * n) |->
                        Form(Slice[call.request][(k - 1) \div Scale + 1])[((k - 1) % Scale) + 1]]
<1>1. Scale \in Nat \ {0} /\ Len(Form(Slice[call.request][1])) = Scale
  BY ScaleForm
<1>2. CASE n = 0
  BY <1>1, <1>2 DEF Wanted
<1>3. CASE n # 0
  BY SMTT(30), <1>1, <1>3 DEF Wanted
<1> QED
  BY <1>2, <1>3

\* Up to the end of the next run it is what it was, and the item of that run.
LEMMA WantedGrows ==
  ASSUME call \in Calls, TypeFits, NEW n \in 1..Len(Runs[call.request]),
         NEW item, item = Cut(Prepared(Runs[call.request][n].addr), Runs[call.request][n])
  PROVE  LET run  == Runs[call.request][n]
             len  == run.end - run.start
             want == Wanted(run.current)
             more == Wanted(run.current + len)
         IN /\ Len(want) \in Nat /\ Len(more) = Len(want) + Scale * len
            /\ \A k \in 1..Len(want) : more[k] = want[k]
            /\ (call.mode = "stream_values" => IsWhole(item)) =>
                 \A k \in 1..(Scale * len) : more[Len(want) + k] = Given(item)[k]
<1> DEFINE run == Runs[call.request][n]
           len == run.end - run.start
           cur == run.current
           at(k) == Form(Slice[call.request][(k - 1) \div Scale + 1])[((k - 1) % Scale) + 1]
<1>1. cur \in Nat /\ len \in Nat \ {0} /\ run.start \in Nat
  BY CallFacts, RunFacts
<1>2. Scale \in Nat \ {0}
  BY ScaleForm
<1>3. (call.mode = "stream_values" => IsWhole(item)) =>
        \A i \in 0..(len - 1) : \A b \in 0..(Scale - 1) :
           Given(item)[i * Scale + b + 1] = Form(<<run.addr, run.start + i>>)[b + 1]
  BY SMTT(30), GivenRight
<1>4. \A i \in 0..(len - 1) : Slice[call.request][cur + i + 1] = <<run.addr, run.start + i>>
  <2> TAKE i \in 0..(len - 1)
  <2>1. i + 1 \in 1..len /\ cur + (i + 1) = cur + i + 1 /\ run.start + (i + 1) - 1 = run.start + i
    <3> DEFINE s == run.start
    <3>1. s \in Nat
      BY <1>1
    <3> HIDE DEF s, cur, len
    <3>2. i + 1 \in 1..len /\ cur + (i + 1) = cur + i + 1 /\ s + (i + 1) - 1 = s + i
      BY <1>1, <3>1
    <3> QED
      BY <3>2 DEF s
  <2>2. Slice[call.request][cur + (i + 1)] = <<run.addr, run.start + (i + 1) - 1>>
    BY <2>1, CallFacts, JoinAssumption
  <2> QED
    BY <2>1, <2>2
<1> HIDE DEF run, len, cur
<1>5. /\ Wanted(cur) = [k \in 1..(Scale * cur) |-> at(k)]
      /\ Wanted(cur + len) = [k \in 1..(Scale * (cur + len)) |-> at(k)]
  <2>1. cur + len \in Nat
    BY <1>1
  <2> QED
    BY <1>1, <2>1, WantedIs
<1>6. /\ Scale * cur \in Nat /\ Scale * len \in Nat
      /\ Scale * (cur + len) = Scale * cur + Scale * len
  BY <1>1, <1>2
<1>7. ASSUME call.mode = "stream_values" => IsWhole(item),
             NEW k \in (Scale * cur + 1)..(Scale * cur + Scale * len)
      PROVE  at(k) = Given(item)[k - Scale * cur]
  <2> DEFINE j == k - Scale * cur - 1
             i == j \div Scale
             b == j % Scale
  <2>1. j \in 0..(len * Scale - 1) /\ j \in Nat
    <3>1. len * Scale = Scale * len
      BY <1>1, <1>2
    <3> QED
      BY <1>6, <3>1
  <2> HIDE DEF j
  <2>2. i \in 0..(len - 1) /\ b \in 0..(Scale - 1) /\ j = i * Scale + b
    BY <1>1, <1>2, <2>1, Arith!PartOf, Arith!PartsOf
  <2> HIDE DEF i, b
  <2>3. k - 1 = (cur + i) * Scale + b
    <3>1. (cur + i) * Scale = Scale * cur + i * Scale
      BY <1>1, <1>2, <2>2
    <3>2. j = k - Scale * cur - 1 /\ k \in Int /\ i * Scale \in Int /\ b \in Int
      BY <1>2, <1>6, <2>2 DEF j
    <3> DEFINE x == Scale * cur
               y == i * Scale
               z == (cur + i) * Scale
    <3>3. /\ x \in Nat /\ y \in Int /\ z = x + y /\ k \in Int /\ b \in Int
          /\ j = k - x - 1 /\ j = y + b
      BY <1>6, <2>2, <3>1, <3>2
    <3> HIDE DEF x, y, z
    <3>4. k - 1 = z + b
      BY <3>3
    <3> QED
      BY <3>4 DEF z
  <2>4. (k - 1) \div Scale = cur + i /\ (k - 1) % Scale = b
    <3>1. cur + i \in Int
      BY <1>1, <2>2
    <3>2. ((cur + i) * Scale + b) \div Scale = cur + i /\ ((cur + i) * Scale + b) % Scale = b
      BY <1>2, <2>2, <3>1, Arith!Parts
    <3> QED
      BY <2>3, <3>2
  <2>5. at(k) = Form(<<run.addr, run.start + i>>)[b + 1]
    BY <1>4, <2>2, <2>4
  <2>6. k - Scale * cur = i * Scale + b + 1
    BY <1>6, <2>2 DEF j
  <2> QED
    BY <1>3, <1>7, <2>2, <2>5, <2>6
<1> HIDE DEF at
<1>8. Len(Wanted(cur)) = Scale * cur /\ Len(Wanted(cur + len)) = Scale * cur + Scale * len
  BY <1>5, <1>6
<1> DEFINE x == Scale * cur
           y == Scale * len
<1>9. \A k \in 1..x : k \in 1..(x + y)
  BY <1>6
<1>10. \A k \in 1..y : x + k \in (x + 1)..(x + y) /\ x + k \in 1..(x + y) /\ (x + k) - x = k
  BY <1>6
<1>11. \A k \in 1..x : Wanted(cur + len)[k] = Wanted(cur)[k]
  BY <1>5, <1>6, <1>9
<1>12. ASSUME call.mode = "stream_values" => IsWhole(item), NEW k \in 1..y
       PROVE  Wanted(cur + len)[x + k] = Given(item)[k]
  <2>1. Wanted(cur + len)[x + k] = at(x + k)
    BY <1>5, <1>6, <1>10
  <2>2. at(x + k) = Given(item)[(x + k) - x]
    BY <1>7, <1>10, <1>12
  <2> QED
    BY <1>10, <2>1, <2>2
<1> QED
  BY <1>6, <1>8, <1>11, <1>12 DEF run, len, cur

-------------------------------------------------------------------------------
(***************************************************************************)
(* The inductive invariant.                                                *)
(***************************************************************************)
\* How many values of the slice the runs before the present one have.
Reached == IF step <= Len(Runs[call.request]) THEN Runs[call.request][step].current
           ELSE Len(Slice[call.request])

TypeInv ==
  /\ call \in Calls
  /\ phase \in {"new", "open", "ended", "failed", "dropped", "panicked"}
  /\ running \in BOOLEAN
  /\ step \in 1..(Len(Runs[call.request]) + 1)
  /\ out \in Seq(Got)
  /\ errs \in Nat

\* The sequence is the beginning of the slice, but for gaps if there may be any.
Fits(s, want, gaps) ==
  /\ Len(s) = Len(want)
  /\ \A k \in 1..Len(s) : s[k] = want[k] \/ s[k] \in gaps

MayGap == IF call.mode = "stream_values" /\ errs > 0 THEN {Withheld} ELSE {}

LEMMA PrefixFits == DeliversPrefix <=> (TypeFits => Fits(out, Wanted(Reached), MayGap))
BY DEF DeliversPrefix, Fits, MayGap, Reached

\* One item more.
LEMMA FitsGrows ==
  ASSUME NEW s \in Seq(Got), NEW t \in Seq(Got), NEW want, NEW more,
         NEW before, NEW after, before \subseteq after,
         Fits(s, want, before), Len(more) = Len(want) + Len(t),
         \A k \in 1..Len(want) : more[k] = want[k],
         \A k \in 1..Len(t) :
           more[Len(want) + k] = t[k] \/ t[k] \in after
  PROVE  s \o t \in Seq(Got) /\ Fits(s \o t, more, after)
<1>1. /\ s \o t \in Seq(Got) /\ Len(s \o t) = Len(s) + Len(t)
      /\ Len(s) \in Nat /\ Len(t) \in Nat
      /\ \A k \in 1..(Len(s) + Len(t)) :
           (s \o t)[k] = IF k <= Len(s) THEN s[k] ELSE t[k - Len(s)]
  <2> HIDE DEF Got
  <2> QED
    BY ConcatProperties
<1>2. /\ Len(s) = Len(want)
      /\ \A k \in 1..Len(s) : s[k] = want[k] \/ s[k] \in before
  BY DEF Fits
<1> DEFINE joined == s \o t
<1>3. ASSUME NEW k \in 1..Len(joined)
      PROVE  joined[k] = more[k] \/ joined[k] \in after
  <2>1. k \in 1..(Len(s) + Len(t))
    BY <1>1
  <2>2. CASE k <= Len(s)
    <3>1. k \in 1..Len(s) /\ joined[k] = s[k]
      BY <1>1, <2>1, <2>2
    <3>2. more[k] = want[k]
      BY <1>2, <3>1
    <3>3. s[k] = want[k] \/ s[k] \in before
      BY <1>2, <3>1
    <3> HIDE DEF joined
    <3> QED
      BY <3>1, <3>2, <3>3
  <2>3. CASE ~(k <= Len(s))
    <3> DEFINE m == k - Len(s)
    <3>1. m \in 1..Len(t) /\ joined[k] = t[m] /\ k = Len(want) + m
      BY <1>1, <1>2, <2>1, <2>3
    <3> HIDE DEF joined, m
    <3>2. more[Len(want) + m] = t[m] \/ t[m] \in after
      BY <3>1
    <3> QED
      BY <3>1, <3>2
  <2> QED
    BY <2>2, <2>3
<1> QED
  BY <1>1, <1>2, <1>3 DEF Fits

\* The stream ends behind the last run.
EndInv == phase = "ended" => step = Len(Runs[call.request]) + 1

\* The byte that comes first when the bytes are turned round as many at a time
\* as the type says.
FirstTurned ==
  LET run == Runs[call.request][1]
  IN <<run.addr, run.start + ((Turn - 1) \div ds.dsize), (Turn - 1) % ds.dsize>>

\* If the type does not fit, already the first byte is another one.
StrayInv ==
  (errs = 0 /\ ~TypeFits /\ step > 1) => (Len(out) >= 1 /\ out[1] = FirstTurned)

StreamInv ==
  /\ TypeInv
  /\ EndInv
  /\ step = 1 => out = << >>
  /\ CacheCoherent
  /\ DeliversPrefix
  /\ StrayInv

\* A stream that has just begun.
Begun == call \in Calls /\ step = 1 /\ out = << >>

BegunInv ==
  /\ step \in 1..(Len(Runs[call.request]) + 1)
  /\ out \in Seq(Got)
  /\ DeliversPrefix
  /\ StrayInv

LEMMA Fresh == Begun => BegunInv
<1> SUFFICES ASSUME call \in Calls, step = 1, out = << >> PROVE BegunInv
  BY DEF Begun
<1>1. call.request \in Requests /\ Len(Runs[call.request]) \in Nat
  BY CallFacts, RunsAssumption
<1>2. Reached = 0
  <2>1. CASE Len(Runs[call.request]) = 0
    <3>1. Runs[call.request] = << >>
      BY <1>1, <2>1, RunsAssumption
    <3>2. Slice[call.request] = << >>
      BY <1>1, <3>1, CurrentAssumption
    <3> QED
      BY <2>1, <3>2 DEF Reached
  <2>2. CASE Len(Runs[call.request]) # 0
    BY <1>1, <2>2, CurrentAssumption DEF Reached
  <2> QED
    BY <2>1, <2>2
<1>3. Wanted(0) = << >>
  <2>1. Scale \in Nat \ {0}
    BY ScaleForm
  <2> QED
    BY <2>1, WantedIs
<1>4. Fits(out, Wanted(Reached), MayGap)
  BY <1>2, <1>3 DEF Fits
<1> QED
  BY <1>1, <1>4, PrefixFits DEF BegunInv, StrayInv

\* What depends on the stream that was asked for alone.
LEMMA SameCall ==
  ASSUME UNCHANGED call
  PROVE  /\ \A n : Wanted(n)' = Wanted(n)
         /\ \A a : Prepared(a)' = Prepared(a)
         /\ TypeFits' = TypeFits
         /\ FirstTurned' = FirstTurned
BY DEF Wanted, Form, StaysInXdr, Prepared, Decoded, TypeFits, FirstTurned, Turn, ds

LEMMA PrefixNext ==
  ASSUME UNCHANGED call
  PROVE  DeliversPrefix' <=> (TypeFits => Fits(out', Wanted(Reached'), MayGap'))
<1>1. Wanted(Reached)' = Wanted(Reached')
  BY DEF Wanted, Form, StaysInXdr, ds
<1>2. DeliversPrefix' <=> (TypeFits' => Fits(out', Wanted(Reached)', MayGap'))
  BY DEF DeliversPrefix, Fits, MayGap, Reached
<1> QED
  BY <1>1, <1>2, SameCall

\* A run after another begins where that one ends; the last one ends with the
\* slice.
LEMMA ReachedNext ==
  ASSUME NEW r \in Requests, NEW n \in 1..Len(Runs[r])
  PROVE  (IF n + 1 <= Len(Runs[r]) THEN Runs[r][n + 1].current ELSE Len(Slice[r]))
           = Runs[r][n].current + (Runs[r][n].end - Runs[r][n].start)
<1>1. Len(Runs[r]) \in Nat
  BY RunsAssumption
<1>2. n + 1 <= Len(Runs[r]) <=> n < Len(Runs[r])
  BY <1>1
<1> QED
  BY SMTT(30), <1>2, CurrentAssumption

\* An item is answered.
LEMMA Answered ==
  ASSUME StreamInv, InLoop, UNCHANGED call,
         NEW item, item = Cut(Prepared(Runs[call.request][step].addr), Runs[call.request][step]),
         Answer(item)
  PROVE  /\ step' \in 1..(Len(Runs[call.request]) + 1)
         /\ out' \in Seq(Got) /\ errs' \in Nat /\ running' \in BOOLEAN
         /\ DeliversPrefix' /\ StrayInv'
<1> DEFINE runs == Runs[call.request]
           run  == runs[step]
           len  == run.end - run.start
<1>1. call \in Calls /\ call.request \in Requests /\ Len(runs) \in Nat
  BY CallFacts, RunsAssumption DEF StreamInv, TypeInv
<1>2. step \in 1..Len(runs) /\ step' = step + 1
  <2>1. step \in 1..(Len(runs) + 1)
    BY DEF StreamInv, TypeInv
  <2>2. step <= Len(runs)
    BY SMTT(30) DEF InLoop
  <2>3. step' = step + 1
    BY DEF Answer
  <2> QED
    BY <1>1, <2>1, <2>2, <2>3
<1>3. /\ item \in Seq(StreamByte) /\ Len(item) = Scale * len
      /\ \A i \in 0..(len - 1) : \A b \in 0..(Scale - 1) :
           /\ i * Scale + b + 1 \in 1..(Scale * len)
           /\ item[i * Scale + b + 1] = Prepared(run.addr)[(run.start + i) * Scale + b]
  BY SMTT(30), <1>1, <1>2, CutRight
<1>4. errs \in Nat /\ out \in Seq(Got)
  BY DEF StreamInv, TypeInv
<1> DEFINE gap == [k \in 1..Len(item) |-> Withheld]
<1>5. \/ /\ errs' = errs + 1 /\ out' = out \o gap
         /\ call.mode = "stream_values"
      \/ /\ errs' = errs /\ out' = out \o Given(item)
         /\ call.mode = "stream_values" => IsWhole(item)
  BY DEF Answer, Given, IsWhole
<1>6. call.mode = "stream_values" /\ IsWhole(item) =>
        Converted(item) \in Seq(StreamByte) /\ Len(Converted(item)) = Len(item)
  BY <1>1, <1>3, ConvertedAt
<1> DEFINE Replaces(t) ==
             \/ t = gap /\ MayGap' = {Withheld}
             \/ t = Given(item) /\ (call.mode = "stream_values" => IsWhole(item))
\* with bytes or gaps in the item's place it is still what it should be
<1>9. ASSUME NEW t \in Seq(Got), Len(t) = Len(item), out' = out \o t,
             errs' \in Nat, errs' >= errs,
             Replaces(t)
      PROVE  out' \in Seq(Got) /\ DeliversPrefix'
  <2> DEFINE want == Wanted(run.current)
             more == Wanted(run.current + len)
  <2>0. out' \in Seq(Got)
    BY <1>4, <1>9, ConcatProperties
  <2> SUFFICES ASSUME TypeFits
               PROVE  Fits(out', Wanted(Reached'), MayGap')
    BY <2>0, PrefixNext
  <2>1. Reached = run.current /\ Reached' = run.current + len
    BY <1>1, <1>2, ReachedNext DEF Reached
  <2>2. /\ Len(want) \in Nat /\ Len(more) = Len(want) + Len(item)
        /\ \A k \in 1..Len(want) : more[k] = want[k]
        /\ (call.mode = "stream_values" => IsWhole(item)) =>
             \A k \in 1..Len(item) : more[Len(want) + k] = Given(item)[k]
    <3>1. /\ Len(want) \in Nat /\ Len(more) = Len(want) + Scale * len
          /\ \A k \in 1..Len(want) : more[k] = want[k]
          /\ (call.mode = "stream_values" => IsWhole(item)) =>
               \A k \in 1..(Scale * len) : more[Len(want) + k] = Given(item)[k]
      <4> HIDE DEF IsWhole, Given, Scale
      <4> QED
        BY <1>1, <1>2, WantedGrows, Zenon
    <3>2. Len(item) = Scale * len
      BY <1>3
    <3> HIDE DEF want, more, len
    <3> QED
      BY <3>1, <3>2
  <2>3. Fits(out, want, MayGap)
    BY <2>1, PrefixFits DEF StreamInv
  <2>4. MayGap \subseteq MayGap'
    BY SMTT(30), <1>4, <1>9 DEF MayGap
  <2>5. \A k \in 1..Len(t) :
           more[Len(want) + k] = t[k] \/ t[k] \in MayGap'
    <3>1. CASE t = gap /\ MayGap' = {Withheld}
      BY <1>9, <3>1
    <3>2. CASE t = Given(item) /\ (call.mode = "stream_values" => IsWhole(item))
      BY <1>9, <2>2, <3>2
    <3> QED
      BY <1>9, <3>1, <3>2
  <2>6. Len(more) = Len(want) + Len(t)
    BY <1>9, <2>2
  <2> HIDE DEF want, more
  <2>7. Fits(out \o t, more, MayGap')
    BY <1>4, <2>2, <2>3, <2>4, <2>5, <2>6, FitsGrows
  <2> QED
    BY <1>9, <2>1, <2>7 DEF more
<1>7. CASE /\ errs' = errs + 1 /\ out' = out \o gap
           /\ call.mode = "stream_values"
  <2>1. errs' \in Nat /\ errs' > 0 /\ errs' >= errs
    BY <1>4, <1>7
  <2>2. gap \in Seq(Got) /\ Len(gap) = Len(item)
    <3>1. Len(item) \in Nat
      BY SMTT(30), <1>3
    <3> QED
      BY <3>1 DEF Got
  <2>3. Replaces(gap)
    BY <1>7, <2>1 DEF MayGap
  <2> HIDE DEF gap, Replaces
  <2>4. out' \in Seq(Got) /\ DeliversPrefix'
    BY <1>7, <1>9, <2>1, <2>2, <2>3
  <2>5. StrayInv'
    BY <2>1 DEF StrayInv
  <2>6. step' \in 1..(Len(runs) + 1)
    BY <1>1, <1>2
  <2> QED
    BY <2>1, <2>4, <2>5, <2>6 DEF Answer
<1>8. CASE /\ errs' = errs /\ out' = out \o Given(item)
           /\ call.mode = "stream_values" => IsWhole(item)
  <2>0. Given(item) \in Seq(StreamByte) /\ Len(Given(item)) = Len(item)
    BY <1>3, <1>6, <1>8 DEF Given
  <2>1. Given(item) \in Seq(Got)
    BY SMTT(30), <2>0 DEF Got
  <2>2. out' \in Seq(Got) /\ DeliversPrefix'
    <3>1. Replaces(Given(item)) /\ errs' \in Nat /\ errs' >= errs
      BY <1>4, <1>8
    <3> HIDE DEF Replaces
    <3> QED
      BY <1>8, <1>9, <2>0, <2>1, <3>1
  <2>3. StrayInv'
    <3> SUFFICES ASSUME errs' = 0, ~TypeFits
                 PROVE  Len(out') >= 1 /\ out'[1] = FirstTurned
      BY SameCall DEF StrayInv
    <3>1. CASE step > 1
      <4>1. Len(out) >= 1 /\ out[1] = FirstTurned
        BY <1>8, <3>1 DEF StreamInv, StrayInv
      <4>2. out' = out \o Given(item)
        BY <1>8
      <4>3. PICK g \in Seq(Got) : g = Given(item)
        BY <2>1
      <4>4. out' = out \o g
        BY <4>2, <4>3
      <4>5. /\ Len(out \o g) = Len(out) + Len(g) /\ Len(g) \in Nat /\ Len(out) \in Nat
            /\ \A i \in 1..Len(out) : (out \o g)[i] = out[i]
        BY <1>4, <4>3, ConcatProperties
      <4>6. out[1] = (out \o g)[1] /\ Len(out \o g) >= 1
        BY SMTT(30), <4>1, <4>5
      <4> QED
        BY <4>1, <4>4, <4>6
    <3>2. CASE step = 1
      <4>1. call.mode = "stream_values" /\ IsWhole(item) /\ Scale = ds.dsize
        BY <1>1, <1>8, ScaleForm DEF TypeFits
      <4>2. /\ Converted(item) \in Seq(StreamByte)
            /\ Len(Converted(item)) = Len(item) /\ Len(item) = Scale * len
        BY SMTT(30), <1>1, <1>3, <4>1, ConvertedAt
      <4>3. out' = Converted(item)
        BY <1>8, <3>2, <4>1, <4>2, ConcatEmptySeq DEF StreamInv, Given
      <4> DEFINE w == call.T.size
                 j == Turn - 1
                 i == j \div Scale
                 b == j % Scale
      <4>4. w \in Nat \ {0} /\ Scale \in Nat \ {0} /\ len \in Nat \ {0}
            /\ run.start \in Nat /\ run.end \in 0..ChunkLen /\ run.addr \in Addrs
        BY <1>1, <1>2, CallFacts, ScaleForm, RunFacts
      <4>5. /\ 0 \in 0..(Len(item) - 1) /\ Len(item) \in Nat \ {0}
            /\ Len(item) = len * Scale /\ Len(Converted(item)) \in Nat \ {0}
        <5> DEFINE x == Scale * len
        <5>1. x \in Nat \ {0} /\ len * Scale = x
          BY <4>4, Arith!Positive
        <5>2. Len(item) = x /\ Len(Converted(item)) = x
          BY <4>2
        <5> HIDE DEF x
        <5>3. 0 \in 0..(x - 1)
          BY <5>1
        <5> QED
          BY <5>1, <5>2, <5>3
      <4>6. /\ (IF IsTurned THEN (0 \div w) * w + (w - 1 - (0 % w)) ELSE 0) = j
            /\ j \in Nat
        BY SMTT(30), <1>1, <4>4, TurnFacts
      <4>7. j \in 0..(Len(item) - 1) /\ Converted(item)[1] = item[j + 1]
        <5> DEFINE at(p) == IF IsTurned THEN (p \div w) * w + (w - 1 - (p % w)) ELSE p
        <5>1. \A p \in 0..(Len(item) - 1) :
                at(p) \in 0..(Len(item) - 1) /\ Converted(item)[p + 1] = item[at(p) + 1]
          BY <1>1, <1>3, <4>1, ConvertedAt
        <5>2. at(0) = j
          BY <4>6
        <5> HIDE DEF at, j
        <5>3. at(0) \in 0..(Len(item) - 1) /\ Converted(item)[0 + 1] = item[at(0) + 1]
          BY <4>5, <5>1
        <5> QED
          BY <5>2, <5>3
      <4> HIDE DEF w, j
      <4>8. j \in 0..(len * Scale - 1)
        BY <4>5, <4>7
      <4>9. i \in 0..(len - 1) /\ b \in 0..(Scale - 1) /\ j = i * Scale + b
        BY <4>4, <4>6, <4>8, Arith!PartOf, Arith!PartsOf
      <4> HIDE DEF i, b
      <4>10. item[j + 1] = Prepared(run.addr)[(run.start + i) * Scale + b]
        BY <1>3, <4>9
      <4>11. run.start + i \in 0..(ChunkLen - 1)
        <5> DEFINE s == run.start
                   e == run.end
        <5>1. s \in Nat /\ e \in 0..ChunkLen /\ i \in 0..(e - s - 1) /\ ChunkLen \in Nat
          BY <4>4, <4>9, ParameterAssumption
        <5> HIDE DEF s, e
        <5>2. s + i \in 0..(ChunkLen - 1)
          BY <5>1
        <5> QED
          BY <5>2 DEF s
      <4>12. Prepared(run.addr)[(run.start + i) * Scale + b] = <<run.addr, run.start + i, b>>
        BY <1>1, <4>1, <4>4, <4>9, <4>11, PreparedAt
      <4>13. FirstTurned = <<run.addr, run.start + i, b>>
        BY <3>2, <4>1 DEF FirstTurned, i, b, j
      <4>14. Len(out') >= 1
        BY <4>3, <4>5
      <4> QED
        BY <4>3, <4>7, <4>10, <4>12, <4>13, <4>14
    <3> QED
      BY <1>2, <3>1, <3>2
  <2>4. step' \in 1..(Len(runs) + 1)
    BY <1>1, <1>2
  <2> QED
    BY <1>4, <1>8, <2>1, <2>2, <2>3, <2>4 DEF Answer
<1> QED
  BY <1>5, <1>7, <1>8
\* Each action keeps the invariant.
LEMMA StreamInvInit == Init => StreamInv
<1> SUFFICES ASSUME Init PROVE StreamInv
  OBVIOUS
<1>1. call \in Calls /\ step = 1 /\ out = << >> /\ errs = 0 /\ running = FALSE
      /\ phase \in {"new", "panicked"} /\ DOMAIN cache = {}
  BY DEF Init, Made, Empty
<1> QED
  BY <1>1, Fresh DEF Begun, BegunInv, StreamInv, TypeInv, EndInv, CacheCoherent

LEMMA StreamInvNext == StreamInv /\ [Next]_vars => StreamInv'
<1> SUFFICES ASSUME StreamInv, [Next]_vars PROVE StreamInv'
  OBVIOUS
<1>1. TypeInv /\ Len(Runs[call.request]) \in Nat
  BY CallFacts, RunsAssumption DEF StreamInv, TypeInv
\* the generator stays at its run
<1>2. ASSUME UNCHANGED <<call, step, out, cache>>, errs' \in {errs, errs + 1},
             running' \in BOOLEAN,
             phase' \in {"new", "open", "ended", "failed", "dropped", "panicked"},
             phase' = "ended" => phase = "ended" \/ step > Len(Runs[call.request])
      PROVE  StreamInv'
  <2>1. Reached' = Reached
    BY <1>2 DEF Reached
  <2>2. errs' \in Nat /\ (errs' = 0 => errs = 0)
    BY <1>1, <1>2 DEF TypeInv
  <2>3. DeliversPrefix'
    <3>1. MayGap \subseteq MayGap'
      BY <1>1, <1>2, <2>2 DEF MayGap, TypeInv
    <3>2. TypeFits => Fits(out, Wanted(Reached), MayGap)
      BY PrefixFits DEF StreamInv
    <3>3. TypeFits => Fits(out', Wanted(Reached'), MayGap')
      BY <1>2, <2>1, <3>1, <3>2 DEF Fits
    <3> QED
      BY <1>2, <3>3, PrefixNext
  <2>4. StrayInv' /\ CacheCoherent'
    BY <1>2, <2>2, SameCall DEF StreamInv, StrayInv, CacheCoherent
  <2>5. EndInv'
    BY <1>1, <1>2 DEF StreamInv, EndInv, TypeInv
  <2>6. TypeInv'
    BY <1>1, <1>2, <2>2 DEF TypeInv
  <2> QED
    BY <1>2, <2>3, <2>4, <2>5, <2>6 DEF StreamInv
\* an item is answered
<1>3. ASSUME InLoop, UNCHANGED <<call, phase>>, CacheCoherent',
             Answer(Cut(Prepared(Runs[call.request][step].addr), Runs[call.request][step]))
      PROVE  StreamInv'
  <2>1. /\ step' \in 1..(Len(Runs[call.request]) + 1)
        /\ out' \in Seq(Got) /\ errs' \in Nat /\ running' \in BOOLEAN
        /\ DeliversPrefix' /\ StrayInv'
    BY <1>3, Answered
  <2>2. TypeInv'
    BY <1>1, <1>3, <2>1 DEF TypeInv
  <2>3. EndInv'
    BY <1>3 DEF InLoop, EndInv
  <2>4. step' # 1
    <3>1. step \in 1..(Len(Runs[call.request]) + 1)
      BY SMTT(30), <1>1 DEF TypeInv
    <3>2. step' = step + 1
      BY <1>3 DEF Answer
    <3> QED
      BY <1>1, <3>1, <3>2
  <2> QED
    BY <1>3, <2>1, <2>2, <2>3, <2>4 DEF StreamInv
<1>4. CASE UNCHANGED vars
  BY <1>1, <1>2, <1>4 DEF vars, lru, TypeInv
<1>5. CASE Poll
  BY <1>1, <1>2, <1>5 DEF Poll, lru, TypeInv
<1>6. CASE Open
  BY <1>1, <1>2, <1>6 DEF Open, lru, TypeInv
<1>7. CASE OpenFails
  BY <1>2, <1>7 DEF OpenFails, lru
<1>8. CASE Hit
  <2> DEFINE run == Runs[call.request][step]
  <2>1. cache[run.addr] = Prepared(run.addr)
    BY <1>8 DEF Hit, Cached, StreamInv, CacheCoherent
  <2>2. CacheCoherent'
    BY <1>8, SameCall DEF Hit, Promote, StreamInv, CacheCoherent
  <2> QED
    BY <1>3, <1>8, <2>1, <2>2 DEF Hit
<1>9. CASE Miss
  <2> DEFINE run == Runs[call.request][step]
  <2>1. /\ DOMAIN cache' \subseteq DOMAIN cache \cup {run.addr}
        /\ \A a \in DOMAIN cache' :
             cache'[a] = IF a = run.addr THEN Prepared(run.addr) ELSE cache[a]
    BY <1>9 DEF Miss, Put
  <2>2. CacheCoherent'
    BY <1>9, <2>1, SameCall DEF Miss, StreamInv, CacheCoherent
  <2> QED
    BY <1>3, <1>9, <2>2 DEF Miss
<1>10. CASE MissFails
  BY <1>2, <1>10 DEF MissFails, lru
<1>11. CASE End
  BY <1>1, <1>2, <1>11 DEF End, lru, TypeInv
<1>12. CASE Drop
  BY <1>1, <1>2, <1>12 DEF Drop, lru, TypeInv
<1>13. CASE Again
  <2>1. call' \in Calls /\ step' = 1 /\ out' = << >> /\ errs' = 0 /\ DOMAIN cache' = {}
        /\ phase' \in {"new", "panicked"} /\ running' = running
    BY <1>13 DEF Again, Made
  <2>2. Begun' => BegunInv'
    BY Fresh, PTL
  <2> QED
    BY <1>1, <2>1, <2>2 DEF Begun, BegunInv, StreamInv, TypeInv, EndInv, CacheCoherent
<1> QED
  BY <1>4, <1>5, <1>6, <1>7, <1>8, <1>9, <1>10, <1>11, <1>12, <1>13 DEF Next, Generator

LEMMA StreamInvHolds == Spec => []StreamInv
BY StreamInvInit, StreamInvNext, PTL DEF Spec

\* What is put into the cache is converted before, and a stream begins with an
\* empty cache of its own: no stream finds chunks in the form of another
\* (stream.rs:84, 139).
THEOREM StreamCacheStaysCoherent == Spec => []CacheCoherent
<1>1. StreamInv => CacheCoherent
  BY DEF StreamInv
<1> QED
  BY <1>1, StreamInvHolds, PTL

\* If the type fits, what a stream has delivered is the beginning of the slice, in
\* the stream's form, up to the run it is at, and it stays so whatever fails and
\* whenever it is dropped: every value converted once, wherever its chunk came
\* from.  Only stream_values leaves gaps, one for each item that it gave an error
\* for (stream.rs:79, 130, reader/dataset.rs:211).
THEOREM StreamDeliversPrefix == Spec => []DeliversPrefix
<1>1. StreamInv => DeliversPrefix
  BY DEF StreamInv
<1> QED
  BY <1>1, StreamInvHolds, PTL

\* A stream that ends without an error has delivered all of the slice, in the
\* form asked for exactly if the type of stream_values fits the dataset; if it
\* does not, the first byte is already another one (reader/dataset.rs:209,
\* byteorder.rs:96).
THEOREM StreamEndMeansAll == Spec => []EndMeansAll
<1>1. StreamInv => EndMeansAll
  <2> SUFFICES ASSUME StreamInv, phase = "ended", errs = 0, Slice[call.request] # << >>
               PROVE  out = Wanted(Len(Slice[call.request])) <=> TypeFits
    BY DEF EndMeansAll
  <2> DEFINE r == call.request
  <2>1. /\ call \in Calls /\ r \in Requests /\ Len(Runs[r]) \in Nat
        /\ step = Len(Runs[r]) + 1
    BY CallFacts, RunsAssumption DEF StreamInv, TypeInv, EndInv
  <2>2. TypeFits => out = Wanted(Len(Slice[r]))
    <3> SUFFICES ASSUME TypeFits PROVE out = Wanted(Len(Slice[r]))
      OBVIOUS
    <3> DEFINE want == Wanted(Len(Slice[r]))
    <3>1. Reached = Len(Slice[r])
      BY <2>1 DEF Reached
    <3>2. Fits(out, want, MayGap)
      BY <3>1, PrefixFits DEF StreamInv
    <3>3. MayGap = {}
      BY DEF MayGap
    <3>0. Len(Slice[r]) \in Nat
      BY <2>1, ParameterAssumption
    <3>4. Scale * Len(Slice[r]) \in Nat
      BY <2>1, <3>0, ScaleForm
    <3> DEFINE at(k) == Form(Slice[r][(k - 1) \div Scale + 1])[((k - 1) % Scale) + 1]
    <3>5. want = [k \in 1..(Scale * Len(Slice[r])) |-> at(k)]
      BY <2>1, <3>0, WantedIs
    <3>6. out \in [1..Len(out) -> Got]
      BY LenProperties DEF StreamInv, TypeInv
    <3> HIDE DEF want, at
    <3>7. Len(out) = Len(want) /\ \A k \in 1..Len(out) : out[k] = want[k]
      BY <3>2, <3>3 DEF Fits
    <3>8. Len(want) = Scale * Len(Slice[r])
      BY <3>4, <3>5
    <3>9. out = want
      BY <3>5, <3>6, <3>7, <3>8
    <3> QED
      BY <3>9 DEF want
  <2>3. ASSUME ~TypeFits, out = Wanted(Len(Slice[r]))
        PROVE  FALSE
    <3>1. Len(Slice[r]) \in Nat \ {0} /\ Len(Runs[r]) \in Nat \ {0}
      BY <2>1, ParameterAssumption, CurrentAssumption, RunsAssumption
    <3>2. out[1] = FirstTurned
      BY <2>1, <2>3, <3>1 DEF StreamInv, StrayInv
    <3>3. call.mode = "stream_values" /\ Scale = ds.dsize /\ Scale \in Nat \ {0}
      BY <2>1, <2>3, ScaleForm DEF TypeFits
    <3>4. out[1] = Form(Slice[r][1])[1]
      <4>1. 1 \in 1..(Scale * Len(Slice[r]))
        BY <3>1, <3>3
      <4>2. (1 - 1) \div Scale + 1 = 1 /\ ((1 - 1) % Scale) + 1 = 1
        BY <3>3
      <4> DEFINE at(k) == Form(Slice[r][(k - 1) \div Scale + 1])[((k - 1) % Scale) + 1]
      <4>3. out = [k \in 1..(Scale * Len(Slice[r])) |-> at(k)]
        BY <2>1, <2>3, <3>1, WantedIs
      <4>4. at(1) = Form(Slice[r][1])[1]
        BY <4>2
      <4> HIDE DEF at
      <4> QED
        BY <4>1, <4>3, <4>4
    <3> DEFINE run == Runs[r][1]
    <3>5. /\ run.start \in Nat /\ Slice[r][1] = <<run.addr, run.start>>
      <4>1. /\ run.current = 0 /\ run.start \in Nat /\ run.end - run.start \in Nat \ {0}
        BY <2>1, <3>1, RunFacts, CurrentAssumption
      <4>2. 1 \in 1..(run.end - run.start) /\ run.start + 1 - 1 = run.start /\ 0 + 1 = 1
        BY <4>1
      <4>3. 1 \in 1..Len(Runs[r])
        BY <3>1
      <4>4. Slice[r][run.current + 1] = <<run.addr, run.start + 1 - 1>>
        BY <2>1, <4>2, <4>3, JoinAssumption
      <4> QED
        BY <4>1, <4>2, <4>4
    <3>6. Form(Slice[r][1])[1]
            = <<run.addr, run.start, NativeFrom(0, ds.dsize, ds.order, call.machine)>>
      BY <3>3, <3>5 DEF Form
    <3>7. NativeFrom(0, ds.dsize, ds.order, call.machine)
            = ToTurn(ds.dsize, ds.order, call.machine) - 1
      BY <2>1, CallFacts DEF NativeFrom, StoredAt, ToTurn
    <3>8. /\ run.start + ((Turn - 1) \div ds.dsize) = run.start
          /\ (Turn - 1) % ds.dsize = ToTurn(ds.dsize, ds.order, call.machine) - 1
      BY <3>2, <3>4, <3>6, <3>7 DEF FirstTurned
    <3>9. Turn = ToTurn(ds.dsize, ds.order, call.machine)
      <4> DEFINE d == ds.dsize
                 t == ToTurn(d, ds.order, call.machine)
                 q == (Turn - 1) \div d
      <4>1. d \in Nat \ {0} /\ Turn - 1 \in Nat /\ t \in Nat
        BY <2>1, CallFacts, TurnFacts DEF ToTurn
      <4>2. q \in Nat /\ Turn - 1 = q * d + ((Turn - 1) % d)
        BY <4>1, Arith!PartsOf
      <4>3. q = 0
        BY <3>5, <3>8, <4>2
      <4>4. (Turn - 1) % d = t - 1
        BY <3>8
      <4> HIDE DEF q
      <4>5. Turn - 1 = t - 1
        BY <4>1, <4>2, <4>3, <4>4
      <4> HIDE DEF t
      <4>6. Turn = t
        BY <2>1, <4>1, <4>5, TurnFacts
      <4> QED
        BY <4>6 DEF t
    <3> QED
      BY <2>3, <3>9 DEF TypeFits, Turn
  <2> QED
    BY <2>2, <2>3
<1> QED
  BY <1>1, StreamInvHolds, PTL
===============================================================================
