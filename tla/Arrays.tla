-------------------------------- MODULE Arrays --------------------------------
(***************************************************************************)
(* Row-major index arithmetic, shared by the dataset layout, the slicer    *)
(* and the reference definitions they are checked against.  A shape, a     *)
(* coordinate or a count is a sequence of natural numbers, one per         *)
(* dimension, the last dimension varying fastest.  The empty sequence is   *)
(* the shape of a scalar.                                                  *)
(***************************************************************************)
EXTENDS Integers, Sequences

\* SuffixProducts(s)[d] is the product of s[d], ..., s[Len(s)]; the empty
\* product, at Len(s) + 1, is 1.
SuffixProducts(s) ==
  LET product[d \in 1..(Len(s) + 1)] ==
        IF d = Len(s) + 1 THEN 1 ELSE s[d] * product[d + 1]
  IN product

Product(s) == SuffixProducts(s)[1]

\* The number of values one step in dimension d passes over.
DimSizes(s) == [d \in 1..Len(s) |-> SuffixProducts(s)[d + 1]]

\* The sum of u[d] * v[d] over the dimensions.
Dot(u, v) ==
  LET sum[d \in 0..Len(u)] ==
        IF d = 0 THEN 0 ELSE sum[d - 1] + u[d] * v[d]
  IN sum[Len(u)]

CeilDiv(a, b) == (a + b - 1) \div b

Lesser(a, b) == IF a < b THEN a ELSE b

\* The coordinates of the k-th value (from 0) of a block of shape s.
Unravel(k, s) ==
  [d \in 1..Len(s) |-> (k \div DimSizes(s)[d]) % s[d]]

\* Every coordinate of a block of shape s.
Coordinates(s) == {Unravel(k, s) : k \in 0..(Product(s) - 1)}

\* Lexicographic order of coordinates of the same rank.
Precedes(a, b) ==
  \E d \in 1..Len(a) : /\ a[d] < b[d]
                       /\ \A e \in 1..(d - 1) : a[e] = b[e]
===============================================================================
