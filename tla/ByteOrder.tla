-------------------------------- MODULE ByteOrder --------------------------------
(***************************************************************************)
(* The order of bytes (src/src/filters/byteorder.rs) and XDR (xdr.rs).     *)
(* Data is a function from 0, 1, ... to bytes.  `order` is the one the     *)
(* dataset was stored in, "LE", "BE" or "Unknown", and `machine` the one   *)
(* the program was built for; kind and w are those of the type of number   *)
(* that the bytes are taken for.                                           *)
(***************************************************************************)
EXTENDS Integers

\* swap_bytes, of each number of w bytes.
Reversed(data, w) == [p \in DOMAIN data |-> data[(p \div w) * w + (w - 1 - (p % w))]]

\* As a mutant: floats are swapped as integers are.
SwappedAlways(data, kind, w, machine) == Reversed(data, w)

\* Swap: floats are put through to_be(), which on a big-endian machine does
\* nothing.
Swapped(data, kind, w, machine) ==
  IF kind = "Float" /\ machine = "BE" THEN data ELSE Reversed(data, w)

\* ToNative for a slice of numbers.
ToNative(data, kind, w, order, machine) ==
  IF order # "Unknown" /\ order # machine THEN Swapped(data, kind, w, machine) ELSE data

\* ToBigEndian for a slice of integers, and to_big_e_sized.
ToBigEndian(data, w, order) == IF order = "LE" THEN Reversed(data, w) ELSE data

-------------------------------------------------------------------------------
\* As a mutant: numbers are not widened.
FactorOne(kind, dsize) == 1

\* xdr_factor: by how much XDR widens.
Factor(kind, dsize) == IF kind # "Custom" /\ dsize < 4 THEN 4 \div dsize ELSE 1

\* xdr_cast_slice: integers of w bytes in native order, widened to four bytes
\* as the machine does, by the bytes of fill, one for each number, then made
\* big-endian.
Cast(data, kind, w, n, order, machine, fill) ==
  LET native == ToNative(data, kind, w, order, machine)
      pad    == 4 - w
      wide   == [p \in 0..(4 * n - 1) |->
                   LET v == p \div 4
                       b == IF machine = "LE" THEN p % 4 ELSE (p % 4) - pad
                   IN IF b \in 0..(w - 1) THEN native[v * w + b] ELSE fill[v]]
  IN ToBigEndian(wide, 4, machine)

\* xdr, of n values.
Xdr(data, kind, dsize, n, order, machine, fill) ==
  CASE kind = "Custom" -> data
    [] kind \in {"UInt", "Int"} /\ dsize \in {1, 2} ->
         Cast(data, kind, dsize, n, order, machine, fill)
    [] OTHER -> ToBigEndian(data, dsize, order)

-------------------------------------------------------------------------------
(***************************************************************************)
(* What the conversions should do, by the significance of each byte.       *)
(***************************************************************************)
\* The place, in a stored value of dsize bytes, of the byte of significance g,
\* where 0 is the least.
StoredAt(g, dsize, order) == IF order = "BE" THEN dsize - 1 - g ELSE g

\* The place, in the stored value, of the byte that comes b-th in the native
\* value.  What has no order stays as it is.
NativeFrom(b, dsize, order, machine) ==
  IF order = "Unknown" THEN b
  ELSE StoredAt(IF machine = "BE" THEN dsize - 1 - b ELSE b, dsize, order)

\* How many bytes at a time have to be turned round to make values of dsize
\* bytes native, and how many at a time are when they are taken for numbers of
\* w bytes; 1 is to leave them.
ToTurn(dsize, order, machine) ==
  IF order = "Unknown" \/ order = machine THEN 1 ELSE dsize

Turned(kind, w, order, machine) ==
  IF kind = "Float" /\ machine = "BE" THEN 1 ELSE ToTurn(w, order, machine)
===============================================================================
