------------------------------ MODULE TypedReader ------------------------------
(***************************************************************************)
(* Reading values of a type (traits ReaderExt and ParReaderExt in          *)
(* src/src/reader/dataset.rs), over a caching reader: values_to reads into *)
(* the caller's buffer, values into one it allocates for the counts, and   *)
(* values_dyn_par into an array of the counts' dimensions, not             *)
(* initialised.  Whatever was read, all of the buffer is then turned into  *)
(* the machine's order.                                                    *)
(*                                                                         *)
(* values_dyn_par, and values_par, which is values word for word, call     *)
(* read_to_par instead.  Of the reader below them only what Reader         *)
(* promises is used here, and that is the same for both.                   *)
(***************************************************************************)
EXTENDS CacheReader, ByteOrder

CONSTANTS
  Types,    \* the types T a caller may ask for: records of kind and size
  Orders,   \* of the dataset
  Machines  \* that the program may be built for

Hows == {"values_to", "values", "values_dyn_par"}

ASSUME TypesAssumption ==
  /\ \A T \in Types : T.size \in Nat \ {0}
  /\ Orders \subseteq {"LE", "BE", "Unknown"}
  /\ Machines \subseteq {"LE", "BE"}

\* No byte of the dataset comes twice in a slice.
ASSUME DistinctAssumption ==
  \A r \in Requests : Within(r) =>
    \A i, j \in 1..Vsz(r) : Slice[r][i] = Slice[r][j] => i = j

VARIABLES
  world,   \* the dataset's order and the machine's
  asked,   \* the function called and the type asked for
  values   \* what the caller has then, byte by byte, or NoValues

typedVars == <<world, asked, values>>

NoValues == << >>

\* The length of the buffer in bytes.
BufferLen(how, T, c) ==
  CASE how = "values_to"      -> c.len
    [] how = "values"         -> (Vsz(c.request) \div T.size) * T.size
    [] how = "values_dyn_par" -> Counts[c.request] * T.size

\* A size that does not divide the dataset's is refused by all but values_to; so
\* is, for the same types, an alignment.
SizeFits(how, T) == how = "values_to" \/ Dsz % T.size = 0

\* The calls of read_to that come of the function.
Leads(a, c) ==
  /\ SizeFits(a.how, a.T)
  /\ c.len = BufferLen(a.how, a.T, c)
  /\ c.len % a.T.size = 0

InitTyped ==
  /\ Init
  /\ world \in [order : Orders, machine : Machines]
  /\ asked \in [how : Hows, T : Types]
  /\ Leads(asked, call)
  /\ values = NoValues

Read == ReadStep /\ UNCHANGED typedVars

\* The buffer before conversion: a byte that was not read is the buffer's own.
Own(k) == << -1, k >>
Filled == [k \in DOMAIN dst |-> IF dst[k] = Untouched THEN Own(k) ELSE dst[k]]

\* As a mutant: only what was read is converted.
ConvertRead ==
  /\ outcome = "ok" /\ values = NoValues
  /\ LET native == ToNative(Filled, asked.T.kind, asked.T.size, world.order, world.machine)
     IN values' = [bytes |-> [k \in DOMAIN dst |-> IF k < returned THEN native[k] ELSE Filled[k]]]
  /\ UNCHANGED <<vars, world, asked>>

\* dst.to_native(self.order())
Convert ==
  /\ outcome = "ok" /\ values = NoValues
  /\ values' = [bytes |-> ToNative(Filled, asked.T.kind, asked.T.size,
                                   world.order, world.machine)]
  /\ UNCHANGED <<vars, world, asked>>

Returned == outcome = "err" \/ values # NoValues

\* The next call; the functions keep no state of their own, so it is of the same
\* function and type.
CallTyped ==
  /\ Returned
  /\ CallAgain
  /\ Leads(asked, call')
  /\ values' = NoValues
  /\ UNCHANGED <<world, asked>>

NextTyped == Read \/ Convert \/ CallTyped

SpecTyped == InitTyped /\ [][NextTyped]_<<vars, typedVars>>
               /\ WF_<<vars, typedVars>>(Read) /\ WF_<<vars, typedVars>>(Convert)

-------------------------------------------------------------------------------
\* The dataset's values, in native order, are what the caller has.
HasValues ==
  \A k \in 0..(Vsz(call.request) - 1) :
    /\ Within(call.request)
    /\ values.bytes[k] =
         Slice[call.request]
           [1 + (k \div Dsz) * Dsz + NativeFrom(k % Dsz, Dsz, world.order, world.machine)]

\* How many bytes are turned round at a time, and how many should be.
Turn     == Turned(asked.T.kind, asked.T.size, world.order, world.machine)
GoodTurn == ToTurn(Dsz, world.order, world.machine)

\* A function that returns Ok has given the caller the values of the slice, in
\* native order, exactly if the request is within the dataset and the bytes are
\* turned round as many at a time as a value has.  They are not when the type is
\* of another size, which values() accepts if it divides the dataset's, nor when
\* it is a float and the machine big-endian (byteorder.rs:96).  The result is Ok
\* for those as well, and outside of the dataset with values that are zero, or
\* were never written to (dataset.rs:71, 73, 82, 162).
ValuesAreNative ==
  (values # NoValues /\ Vsz(call.request) > 0) =>
    (HasValues <=> Within(call.request) /\ Turn = GoodTurn)

\* What is in the caller's buffer behind the values of values_to is as it was,
\* exactly if nothing was turned round: the conversion is of the whole buffer,
\* not of what was read (dataset.rs:55).
RestIsTheCallers ==
  (values # NoValues /\ asked.how = "values_to" /\ returned + Dsz <= call.len) =>
    ((\A k \in DOMAIN values.bytes : k >= returned => values.bytes[k] = Own(k))
       <=> Turn = 1)
===============================================================================
