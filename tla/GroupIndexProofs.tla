------------------------------ MODULE GroupIndexProofs ------------------------------
(***************************************************************************)
(* The index of a file is right for every file that is as the library says: *)
(* an indexed dataset has all of its chunks where the arithmetic of its    *)
(* layout looks for them, a dataset is indexed exactly if that can be, the *)
(* walk through the groups leaves out no dataset, and what is looked up in *)
(* the finished index is found under its path and nothing else is.         *)
(***************************************************************************)
EXTENDS GroupIndex, ArrayLemmas, SequenceTheorems, FiniteSetTheorems

-------------------------------------------------------------------------------
(***************************************************************************)
(* The groups of a file and the paths to them.                             *)
(***************************************************************************)
\* The groups on the way along a path.
Descent(t, path, n, g) ==
  g = [k \in 0..n |-> IF k = 0 THEN t ELSE g[k - 1].groups[path[k]]]

\* There are groups along every path, if only by name,
LEMMA DescentExists ==
  ASSUME NEW t, NEW path, NEW n \in Nat
  PROVE  \E g : Descent(t, path, n, g)
<1> DEFINE Q(m) == \E g : Descent(t, path, m, g)
           E == {m \in Nat : Q(m)}
<1>1. Q(0)
  <2> DEFINE g == [k \in 0..0 |-> t]
  <2>1. \A k \in 0..0 : k = 0
    OBVIOUS
  <2>2. g = [k \in 0..0 |-> IF k = 0 THEN t ELSE g[k - 1].groups[path[k]]]
    BY <2>1, Zenon
  <2> QED
    BY <2>2 DEF Descent
<1>2. ASSUME NEW m \in Nat, Q(m) PROVE Q(m + 1)
  <2>1. PICK g : Descent(t, path, m, g)
    BY <1>2
  <2> DEFINE h == [k \in 0..(m + 1) |-> IF k = m + 1 THEN g[m].groups[path[k]] ELSE g[k]]
             Next1(k) == IF k = 0 THEN t ELSE h[k - 1].groups[path[k]]
  <2>2. ASSUME NEW k \in 0..(m + 1) PROVE h[k] = Next1(k)
    <3>1. CASE k = m + 1
      <4>1. k # 0 /\ k - 1 = m /\ m \in 0..(m + 1) /\ m # m + 1
        BY <3>1
      <4>2. h[m] = g[m] /\ h[k] = g[m].groups[path[k]]
        BY <3>1, <4>1
      <4> HIDE DEF h
      <4> QED
        BY <4>1, <4>2
    <3>2. CASE k # m + 1
      <4>1. k \in 0..m
        BY <3>2
      <4>2. g[k] = IF k = 0 THEN t ELSE g[k - 1].groups[path[k]]
        BY <2>1, <4>1 DEF Descent
      <4>3. h[k] = g[k]
        BY <3>2
      <4>4. k # 0 => k - 1 \in 0..(m + 1) /\ k - 1 # m + 1
        BY <4>1
      <4>5. k # 0 => h[k - 1] = g[k - 1]
        BY <4>4
      <4> HIDE DEF h
      <4> QED
        BY <4>2, <4>3, <4>5
    <3> QED
      BY <3>1, <3>2
  <2>3. h = [k \in 0..(m + 1) |-> Next1(k)]
    <3>1. h = [k \in 0..(m + 1) |-> h[k]]
      OBVIOUS
    <3> HIDE DEF h
    <3> QED
      BY <2>2, <3>1
  <2>4. Descent(t, path, m + 1, h)
    BY <2>3 DEF Descent
  <2> QED
    BY <2>4
<1>3. E \in SUBSET Nat /\ 0 \in E /\ \A m \in E : m + 1 \in E
  <2> HIDE DEF Q
  <2> QED
    BY <1>1, <1>2
<1>4. E = Nat
  <2> HIDE DEF E
  <2> QED
    BY <1>3, SetInduction
<1> HIDE DEF Q
<1> QED
  BY <1>4 DEF Q

\* Two paths begin with the same names.
Together(p, q, n) == \A k \in 1..n : p[k] = q[k]

\* It is given by the names on the path.
LEMMA DescentIs ==
  ASSUME NEW t, NEW p, NEW q, NEW n \in Nat, NEW m \in Nat, n <= m,
         Together(p, q, n),
         NEW g, Descent(t, p, n, g), NEW h, Descent(t, q, m, h)
  PROVE  \A k \in 0..n : g[k] = h[k]
<1> DEFINE Q(k) == g[k] = h[k]
           E == {k \in Nat : k <= n => Q(k)}
<1>1. Q(0)
  <2>1. 0 \in 0..n /\ 0 \in 0..m
    OBVIOUS
  <2> QED
    BY <2>1 DEF Descent
<1>2. ASSUME NEW k \in Nat, k + 1 <= n, Q(k) PROVE Q(k + 1)
  <2>1. k + 1 \in 0..n /\ k + 1 \in 0..m /\ k + 1 \in 1..n /\ k + 1 # 0 /\ (k + 1) - 1 = k
    BY <1>2
  <2>2. g[k + 1] = g[k].groups[p[k + 1]]
    BY <2>1 DEF Descent
  <2>3. h[k + 1] = h[k].groups[q[k + 1]]
    BY <2>1 DEF Descent
  <2>4. p[k + 1] = q[k + 1]
    BY <2>1 DEF Together
  <2> QED
    BY <1>2, <2>2, <2>3, <2>4
<1>3. E \in SUBSET Nat /\ 0 \in E /\ \A k \in E : k + 1 \in E
  <2> HIDE DEF Q
  <2> QED
    BY <1>1, <1>2
<1>4. E = Nat
  <2> HIDE DEF E
  <2> QED
    BY <1>3, SetInduction
<1>5. \A k \in Nat : k <= n => Q(k)
  <2> HIDE DEF Q
  <2> QED
    BY <1>4
<1> QED
  BY <1>5

\* GroupIn is the last of them.
LEMMA GroupInIs ==
  ASSUME NEW t, NEW p, Len(p) \in Nat
  PROVE  \E g : Descent(t, p, Len(p), g) /\ GroupIn(t, p) = g[Len(p)]
<1> DEFINE G == CHOOSE g : g = [n \in 0..Len(p) |-> IF n = 0 THEN t ELSE g[n - 1].groups[p[n]]]
<1>1. GroupIn(t, p) = G[Len(p)]
  BY DEF GroupIn
<1>2. \E g : g = [n \in 0..Len(p) |-> IF n = 0 THEN t ELSE g[n - 1].groups[p[n]]]
  <2>1. PICK g : Descent(t, p, Len(p), g)
    BY DescentExists
  <2> QED
    BY <2>1, Zenon DEF Descent
<1>3. G = [n \in 0..Len(p) |-> IF n = 0 THEN t ELSE G[n - 1].groups[p[n]]]
  BY <1>2, Zenon
<1> HIDE DEF G
<1> QED
  BY <1>1, <1>3 DEF Descent

\* The group at a longer path is one of the groups in that at the shorter.
LEMMA GroupInNext ==
  ASSUME NEW t, NEW p, NEW q, NEW n \in Nat, Len(p) = n, Len(q) = n + 1,
         Together(p, q, n)
  PROVE  GroupIn(t, q) = GroupIn(t, p).groups[q[n + 1]]
<1>1. PICK g : Descent(t, p, n, g) /\ GroupIn(t, p) = g[n]
  BY GroupInIs
<1>2. n + 1 \in Nat
  OBVIOUS
<1>3. PICK h : Descent(t, q, n + 1, h) /\ GroupIn(t, q) = h[n + 1]
  BY <1>2, GroupInIs
<1>4. n \in 0..n /\ n + 1 \in 0..(n + 1) /\ n + 1 # 0 /\ (n + 1) - 1 = n /\ n <= n + 1
  OBVIOUS
<1>5. \A k \in 0..n : g[k] = h[k]
  <2>1. Descent(t, p, n, g) /\ Descent(t, q, n + 1, h)
    BY <1>1, <1>3
  <2> DEFINE m == n + 1
  <2>2. m \in Nat /\ n <= m /\ Descent(t, q, m, h)
    BY <1>2, <1>4, <2>1
  <2> HIDE DEF m
  <2> QED
    BY <2>1, <2>2, DescentIs
<1>6. g[n] = h[n]
  BY <1>4, <1>5
<1>7. h[n + 1] = h[n].groups[q[n + 1]]
  BY <1>3, <1>4 DEF Descent
<1> QED
  BY <1>1, <1>3, <1>6, <1>7

\* The path without a name leads to the root.
LEMMA GroupInRoot ==
  ASSUME NEW t
  PROVE  GroupIn(t, << >>) = t
<1>1. PICK g : Descent(t, << >>, 0, g) /\ GroupIn(t, << >>) = g[0]
  BY GroupInIs
<1>2. 0 \in 0..0
  OBVIOUS
<1> QED
  BY <1>1, <1>2 DEF Descent

\* The paths of a file are sequences of names, each of a group in the one before.
LEMMA PathsAre ==
  ASSUME NEW t, NEW path
  PROVE  path \in PathsIn(t) <=>
           /\ path \in Seq(GroupNames) /\ Len(path) \in 0..Depth
           /\ \A n \in 1..Len(path) :
                path[n] \in DOMAIN GroupIn(t, SubSeq(path, 1, n - 1)).groups
<1>1. path \in UNION {[1..n -> GroupNames] : n \in 0..Depth} <=>
        path \in Seq(GroupNames) /\ Len(path) \in 0..Depth
  <2>1. ASSUME NEW n \in 0..Depth, path \in [1..n -> GroupNames]
        PROVE  path \in Seq(GroupNames) /\ Len(path) \in 0..Depth
    <3>1. n \in Nat
      BY DepthAssumption
    <3> QED
      BY <2>1, <3>1
  <2>2. ASSUME path \in Seq(GroupNames), Len(path) \in 0..Depth
        PROVE  \E n \in 0..Depth : path \in [1..n -> GroupNames]
    BY <2>2
  <2> QED
    BY <2>1, <2>2
<1> QED
  BY <1>1 DEF PathsIn

\* The first elements of a sequence, and the first of these.
LEMMA PrefixOf ==
  ASSUME NEW S, NEW p \in Seq(S), NEW n \in 0..Len(p)
  PROVE  /\ SubSeq(p, 1, n) \in Seq(S) /\ Len(SubSeq(p, 1, n)) = n
         /\ \A k \in 1..n : SubSeq(p, 1, n)[k] = p[k]
         /\ \A k \in 0..n : SubSeq(SubSeq(p, 1, n), 1, k) = SubSeq(p, 1, k)
<1>1. ASSUME NEW q \in Seq(S), NEW k \in 0..Len(q)
      PROVE  /\ SubSeq(q, 1, k) \in Seq(S) /\ Len(SubSeq(q, 1, k)) = k
             /\ SubSeq(q, 1, k) = [i \in 1..k |-> q[i]]
  <2>1. SubSeq(q, 1, k) \in Seq(S) /\ Len(SubSeq(q, 1, k)) = k
    BY SubSeqProperties
  <2>2. \A i \in 1..k : SubSeq(q, 1, k)[i] = q[i]
    BY SubSeqProperties
  <2>3. SubSeq(q, 1, k) = [i \in 1..k |-> SubSeq(q, 1, k)[i]]
    BY <2>1
  <2> QED
    BY <2>1, <2>2, <2>3
<1> DEFINE f1 == SubSeq(p, 1, n)
<1>2. f1 \in Seq(S) /\ Len(f1) = n /\ f1 = [i \in 1..n |-> p[i]]
  BY <1>1
<1>3. \A k \in 1..n : f1[k] = p[k]
  BY <1>2
<1>4. ASSUME NEW k \in 0..n PROVE SubSeq(f1, 1, k) = SubSeq(p, 1, k)
  <2>1. k \in 0..Len(f1) /\ k \in 0..Len(p)
    BY <1>2
  <2>2. SubSeq(f1, 1, k) = [i \in 1..k |-> f1[i]]
    BY <1>1, <1>2, <2>1
  <2>3. SubSeq(p, 1, k) = [i \in 1..k |-> p[i]]
    BY <1>1, <2>1
  <2>4. \A i \in 1..k : f1[i] = p[i]
    BY <1>3
  <2> HIDE DEF f1
  <2> QED
    BY <2>2, <2>3, <2>4
<1> QED
  BY <1>2, <1>3, <1>4

\* They stay the first when there is one more at the end,
LEMMA PrefixOfAppend ==
  ASSUME NEW S, NEW p \in Seq(S), NEW g \in S, NEW k \in 0..Len(p)
  PROVE  SubSeq(Append(p, g), 1, k) = SubSeq(p, 1, k)
<1> DEFINE q == Append(p, g)
           n == Len(p)
<1>1. q \in Seq(S) /\ n \in Nat /\ Len(q) = n + 1 /\ n \in 0..Len(q) /\ \A i \in 1..n : q[i] = p[i]
  OBVIOUS
<1>2. SubSeq(q, 1, n) = p
  <2> DEFINE r == SubSeq(q, 1, n)
  <2>1. r \in Seq(S) /\ Len(r) = n /\ \A i \in 1..n : r[i] = q[i]
    BY <1>1, PrefixOf
  <2> HIDE DEF r
  <2>2. \A i \in 1..n : r[i] = p[i]
    BY <1>1, <2>1
  <2>3. r \in [1..n -> S] /\ p \in [1..n -> S]
    BY <1>1, <2>1
  <2> QED
    BY <2>2, <2>3 DEF r
<1>3. \A i \in 0..n : SubSeq(SubSeq(q, 1, n), 1, i) = SubSeq(q, 1, i)
  <2> HIDE DEF q, n
  <2> QED
    BY <1>1, PrefixOf
<1> QED
  BY <1>2, <1>3

\* and the next one is added to them.
LEMMA PrefixNext ==
  ASSUME NEW S, NEW p \in Seq(S), NEW n \in 1..Len(p)
  PROVE  SubSeq(p, 1, n) = Append(SubSeq(p, 1, n - 1), p[n])
<1> DEFINE a == SubSeq(p, 1, n)
           b == SubSeq(p, 1, n - 1)
<1>1. n \in 0..Len(p) /\ n - 1 \in 0..Len(p) /\ n \in Nat /\ p[n] \in S /\ n = (n - 1) + 1
  OBVIOUS
<1>2. a \in Seq(S) /\ Len(a) = n /\ \A i \in 1..n : a[i] = p[i]
  BY <1>1, PrefixOf
<1>3. b \in Seq(S) /\ Len(b) = n - 1 /\ \A i \in 1..(n - 1) : b[i] = p[i]
  BY <1>1, PrefixOf
<1> HIDE DEF a, b
<1>4. /\ Append(b, p[n]) \in Seq(S) /\ Len(Append(b, p[n])) = n /\ Append(b, p[n])[n] = p[n]
      /\ \A i \in 1..(n - 1) : Append(b, p[n])[i] = p[i]
  BY <1>1, <1>3
<1> DEFINE c == Append(b, p[n])
<1>5. \A i \in 1..n : i = n \/ i \in 1..(n - 1)
  OBVIOUS
<1>6. c \in Seq(S) /\ Len(c) = n
  BY <1>4
<1> HIDE DEF c
<1>8. a \in [1..n -> S] /\ c \in [1..n -> S]
  BY <1>1, <1>2, <1>6
<1>7. \A i \in 1..n : a[i] = c[i]
  BY <1>2, <1>4, <1>5 DEF c
<1> QED
  BY <1>7, <1>8 DEF a, b, c

\* What is on the way to a group is a group,
LEMMA PathPrefix ==
  ASSUME NEW t, NEW p \in PathsIn(t), NEW n \in 0..Len(p)
  PROVE  SubSeq(p, 1, n) \in PathsIn(t)
<1> DEFINE q == SubSeq(p, 1, n)
<1>1. /\ p \in Seq(GroupNames) /\ Len(p) \in 0..Depth
      /\ \A k \in 1..Len(p) : p[k] \in DOMAIN GroupIn(t, SubSeq(p, 1, k - 1)).groups
  BY PathsAre
<1>2. /\ q \in Seq(GroupNames) /\ Len(q) = n
      /\ \A k \in 1..n : q[k] = p[k]
      /\ \A k \in 0..n : SubSeq(q, 1, k) = SubSeq(p, 1, k)
  BY <1>1, PrefixOf
<1> HIDE DEF q
<1>3. ASSUME NEW k \in 1..Len(q) PROVE q[k] \in DOMAIN GroupIn(t, SubSeq(q, 1, k - 1)).groups
  <2>1. k \in 1..n /\ k \in 1..Len(p) /\ k - 1 \in 0..n
    BY <1>1, <1>2
  <2>2. SubSeq(q, 1, k - 1) = SubSeq(p, 1, k - 1) /\ q[k] = p[k]
    BY <1>2, <2>1
  <2> QED
    BY <1>1, <2>1, <2>2
<1>4. Len(q) \in 0..Depth
  BY <1>1, <1>2, DepthAssumption
<1> QED
  BY <1>2, <1>3, <1>4, PathsAre DEF q

\* and so is what is in it.
LEMMA PathStep ==
  ASSUME NEW t \in Trees, NEW p \in PathsIn(t), NEW g \in DOMAIN GroupIn(t, p).groups
  PROVE  /\ Append(p, g) \in PathsIn(t)
         /\ GroupIn(t, Append(p, g)) = GroupIn(t, p).groups[g]
<1> DEFINE q == Append(p, g)
           n == Len(p)
<1>1. /\ p \in Seq(GroupNames) /\ n \in 0..Depth /\ n \in Nat
      /\ \A k \in 1..n : p[k] \in DOMAIN GroupIn(t, SubSeq(p, 1, k - 1)).groups
  BY PathsAre, DepthAssumption
<1>2. g \in GroupNames /\ n # Depth
  BY DepthAssumption
<1>3. q \in Seq(GroupNames) /\ Len(q) = n + 1 /\ q[n + 1] = g /\ \A k \in 1..n : q[k] = p[k]
  BY <1>1, <1>2
<1>4. \A k \in 0..n : SubSeq(q, 1, k) = SubSeq(p, 1, k)
  BY <1>1, <1>2, PrefixOfAppend
<1>5. GroupIn(t, q) = GroupIn(t, p).groups[g]
  <2>1. Together(p, q, n)
    BY <1>3 DEF Together
  <2>2. Len(p) = n
    OBVIOUS
  <2> HIDE DEF q, n
  <2>3. GroupIn(t, q) = GroupIn(t, p).groups[q[n + 1]]
    BY <1>1, <1>3, <2>1, <2>2, GroupInNext
  <2> QED
    BY <1>3, <2>3
<1>6. SubSeq(p, 1, n) = p
  BY <1>1, SubSeqProperties
<1> HIDE DEF q
<1>7. ASSUME NEW k \in 1..Len(q) PROVE q[k] \in DOMAIN GroupIn(t, SubSeq(q, 1, k - 1)).groups
  <2>1. k \in 1..(n + 1) /\ k - 1 \in 0..n
    BY <1>1, <1>3
  <2>2. SubSeq(q, 1, k - 1) = SubSeq(p, 1, k - 1)
    BY <1>4, <2>1
  <2>3. CASE k = n + 1
    <3>1. k - 1 = n /\ q[k] = g
      BY <1>1, <1>3, <2>3
    <3>2. SubSeq(q, 1, k - 1) = p
      BY <1>6, <2>2, <3>1
    <3> QED
      BY <3>1, <3>2
  <2>4. CASE k # n + 1
    <3>1. k \in 1..n
      BY <1>1, <2>1, <2>4
    <3> QED
      BY <1>1, <1>3, <2>2, <3>1
  <2> QED
    BY <2>3, <2>4
<1>8. Len(q) \in 0..Depth
  BY <1>1, <1>2, <1>3, DepthAssumption
<1>9. q \in PathsIn(t)
  BY <1>3, <1>7, <1>8, PathsAre
<1> QED
  BY <1>5, <1>9 DEF q

\* The root is a group of the file.
LEMMA RootPath ==
  ASSUME NEW t
  PROVE  << >> \in PathsIn(t) /\ GroupIn(t, << >>) = t
<1>1. << >> \in Seq(GroupNames) /\ Len(<< >>) = 0 /\ 0 \in 0..Depth
  BY DepthAssumption
<1>2. 1..Len(<< >>) = {}
  OBVIOUS
<1>3. << >> \in PathsIn(t)
  BY <1>1, <1>2, PathsAre
<1> QED
  BY <1>3, GroupInRoot

-------------------------------------------------------------------------------
(***************************************************************************)
(* Indexing one dataset.                                                   *)
(***************************************************************************)
\* The chunks an indexed dataset is to have.
TheChunks ==
  IF IsChunked THEN file.allocated ELSE {[addr |-> file.address, offset |-> Zero]}

\* The layouts the reader can read.
Supported == IsChunked <=> file.address = NoAddress

\* What is in a set, one after the other.
Lists(list, S) ==
  /\ list \in Seq(S)
  /\ \A i, j \in 1..Len(list) : list[i] = list[j] => i = j
  /\ \A c \in S : \E i \in 1..Len(list) : list[i] = c

\* The first n filters can be undone.
KnownFilters(n) == \A k \in 1..n : file.filters[k] \in {"shuffle", "deflate"}

\* What is known of the dataset while it is indexed: the chunks found are those the
\* library has visited, later all of them, later sorted, later as many as expected.
DatasetInv ==
  /\ FileOk(file)
  /\ pc = "filters" => f \in 1..(Len(file.filters) + 1) /\ KnownFilters(f - 1) /\ found = << >>
  /\ pc \in {"layout", "visit", "sort", "count", "indexed"} => KnownFilters(Len(file.filters))
  /\ pc = "layout" => found = << >>
  /\ pc \in {"visit", "sort", "count", "indexed"} => Supported
  /\ pc = "visit" =>
       /\ IsChunked /\ unvisited \subseteq file.allocated
       /\ Lists(found, file.allocated \ unvisited)
  /\ pc \in {"sort", "count", "indexed"} => Lists(found, TheChunks)
  /\ pc \in {"count", "indexed"} => Sorted(found, file.shape, ChunkShape)
  /\ pc = "indexed" => Len(found) = Expected /\ result = New(file.shape, found, ChunkShape)
  /\ pc = "rejected" => ~Indexable(file)

\* Of two different coordinates one precedes the other.
LEMMA InOrder ==
  ASSUME NEW a \in Seq(Nat), NEW b \in Seq(Nat), Len(a) = Len(b), a # b
  PROVE  Precedes(a, b) \/ Precedes(b, a)
<1> DEFINE D == {d \in 1..Len(a) : a[d] # b[d]}
<1>1. Len(a) \in Nat /\ D \in SUBSET Nat /\ a \in [1..Len(a) -> Nat] /\ b \in [1..Len(a) -> Nat]
  <2>1. Len(a) \in Nat /\ Len(b) \in Nat
    OBVIOUS
  <2>2. D \in SUBSET Nat
    BY <2>1
  <2>3. a \in [1..Len(a) -> Nat] /\ b \in [1..Len(b) -> Nat]
    OBVIOUS
  <2> QED
    BY <2>1, <2>2, <2>3
<1>2. D # {}
  <2>1. (\A d \in 1..Len(a) : a[d] = b[d]) => a = b
    <3> DEFINE n == Len(a)
    <3>1. n \in Nat /\ a \in [1..n -> Nat] /\ b \in [1..n -> Nat]
      BY <1>1
    <3> HIDE DEF n, D
    <3>2. (\A d \in 1..n : a[d] = b[d]) => a = b
      BY <3>1
    <3> QED
      BY <3>2 DEF n
  <2> QED
    BY <2>1
<1>3. PICK d \in D : \A e \in D : d <= e
  <2> HIDE DEF D
  <2> QED
    BY <1>1, <1>2, Least
<1>4. d \in 1..Len(a) /\ d \in 1..Len(b) /\ \A e \in 1..(d - 1) : a[e] = b[e]
  <2>1. \A e \in 1..(d - 1) : e \in 1..Len(a) /\ e \notin D
    BY <1>1, <1>3
  <2> QED
    BY <1>3, <2>1
<1>5. a[d] < b[d] \/ b[d] < a[d]
  BY <1>1, <1>3
<1>6. \A e \in 1..(d - 1) : b[e] = a[e]
  BY <1>4
<1> HIDE DEF D
<1>7. CASE a[d] < b[d]
  BY <1>4, <1>7 DEF Precedes
<1>8. CASE b[d] < a[d]
  BY <1>4, <1>6, <1>8 DEF Precedes
<1> QED
  BY <1>5, <1>7, <1>8

\* A dataset that is chunked or has an address is divided into the chunks.
LEMMA ChunksOnGrid ==
  ASSUME FileOk(file), Supported
  PROVE  /\ Shapely(file.shape, ChunkShape)
         /\ \A c \in TheChunks : OnGrid(c.offset, file.shape, ChunkShape)
         /\ \A b, c \in TheChunks : b.offset = c.offset => b = c
<1> DEFINE s == file.shape
<1>1. CASE IsChunked
  <2>1. ChunkShape = file.chunk /\ TheChunks = file.allocated /\ file.chunk # NotChunked
    BY <1>1 DEF ChunkShape, TheChunks, IsChunked
  <2>2. /\ s \in Seq(Nat) /\ file.chunk \in Seq(Nat \ {0}) /\ Len(file.chunk) = Len(s)
        /\ \A c \in file.allocated :
            /\ Len(c.offset) = Len(s) /\ c.offset \in Seq(Nat)
            /\ \A n \in 1..Len(s) :
                 c.offset[n] \in {k * file.chunk[n] : k \in 0..(CeilDiv(s[n], file.chunk[n]) - 1)}
        /\ \A b, c \in file.allocated : b.offset = c.offset => b = c
    BY <2>1 DEF FileOk
  <2>3. ASSUME NEW c \in file.allocated PROVE OnGrid(c.offset, s, file.chunk)
    BY <2>2 DEF OnGrid
  <2> QED
    BY <2>1, <2>2, <2>3 DEF Shapely
<1>2. CASE ~IsChunked
  <2>1. /\ ChunkShape = s /\ TheChunks = {[addr |-> file.address, offset |-> Zero]}
        /\ file.chunk = NotChunked /\ file.address # NoAddress
    BY <1>2 DEF ChunkShape, TheChunks, IsChunked, Supported
  <2>2. s \in Seq(Nat) /\ \A n \in 1..Len(s) : s[n] \in Nat \ {0}
    BY <2>1 DEF FileOk
  <2>3. Shapely(s, s)
    <3>1. s = [n \in 1..Len(s) |-> s[n]] /\ Len(s) \in Nat
      BY <2>2
    <3>2. s \in [1..Len(s) -> Nat \ {0}]
      BY <2>2, <3>1
    <3>3. s \in Seq(Nat \ {0})
      BY <3>1, <3>2
    <3> QED
      BY <2>2, <3>3 DEF Shapely
  <2>4. OnGrid(Zero, s, s)
    <3>1. Zero \in Seq(Nat) /\ Len(Zero) = Len(s) /\ \A n \in 1..Len(s) : Zero[n] = 0
      BY <2>2 DEF Zero
    <3>2. ASSUME NEW n \in 1..Len(s)
          PROVE  0 \in {k * s[n] : k \in 0..(CeilDiv(s[n], s[n]) - 1)}
      <4> DEFINE w == s[n]
      <4>1. w \in Nat \ {0} /\ w \in Nat /\ 0 < w
        BY <2>2
      <4> HIDE DEF w
      <4>2. CeilDiv(w, w) \in Nat /\ 0 \div w \in 0..(CeilDiv(w, w) - 1)
        BY <4>1, Ceiling
      <4>3. 0 \in 0..(CeilDiv(w, w) - 1) /\ 0 = 0 * w
        BY <4>1, <4>2
      <4>4. 0 \in {k * w : k \in 0..(CeilDiv(w, w) - 1)}
        BY <4>3
      <4> QED
        BY <4>4 DEF w
    <3> QED
      BY <3>1, <3>2 DEF OnGrid
  <2> QED
    BY <2>1, <2>3, <2>4
<1> QED
  BY <1>1, <1>2

\* Chunks that are different are sorted by where they begin.
LEMMA SortedChunks ==
  ASSUME FileOk(file), Supported, Lists(found, TheChunks),
         NEW p \in Bijection(1..Len(found), 1..Len(found)),
         \A i, j \in 1..Len(found) : i < j => ~Precedes(found[p[j]].offset, found[p[i]].offset),
         NEW list, list = [n \in 1..Len(found) |-> found[p[n]]]
  PROVE  Lists(list, TheChunks) /\ Sorted(list, file.shape, ChunkShape)
<1> DEFINE n == Len(found)
<1>1. n \in Nat /\ \A i \in 1..n : p[i] \in 1..n /\ found[p[i]] \in TheChunks
  <2>1. n \in Nat /\ found \in Seq(TheChunks)
    BY DEF Lists
  <2>2. p \in [1..n -> 1..n]
    BY DEF Bijection, Injection
  <2> HIDE DEF n
  <2>3. \A i \in 1..n : p[i] \in 1..n
    BY <2>2
  <2>4. \A i \in 1..n : found[i] \in TheChunks
    BY <2>1 DEF n
  <2> QED
    BY <2>1, <2>3, <2>4
<1>2. list \in Seq(TheChunks) /\ Len(list) = n /\ \A i \in 1..n : list[i] = found[p[i]]
  BY <1>1
<1>3. \A i, j \in 1..n : p[i] = p[j] => i = j
  BY DEF Bijection, Injection, IsInjective
<1>4. \A k \in 1..n : \E i \in 1..n : p[i] = k
  BY DEF Bijection, Surjection
<1>5. \A i, j \in 1..n : found[i] = found[j] => i = j
  BY DEF Lists
<1> HIDE DEF n
<1>6. ASSUME NEW i \in 1..n, NEW j \in 1..n, list[i] = list[j] PROVE i = j
  <2>1. p[i] \in 1..n /\ p[j] \in 1..n /\ found[p[i]] = found[p[j]]
    BY <1>1, <1>2, <1>6
  <2>2. p[i] = p[j]
    BY <1>5, <2>1
  <2> QED
    BY <1>3, <2>2
<1>7. ASSUME NEW c \in TheChunks PROVE \E i \in 1..n : list[i] = c
  <2>1. PICK k \in 1..n : found[k] = c
    BY DEF Lists, n
  <2>2. PICK i \in 1..n : p[i] = k
    BY <1>4
  <2> QED
    BY <1>2, <2>1, <2>2
<1>8. Lists(list, TheChunks)
  BY <1>2, <1>6, <1>7 DEF Lists
<1>9. \A i \in 1..n : list[i] \in TheChunks /\ OnGrid(list[i].offset, file.shape, ChunkShape)
  <2>1. \A i \in 1..n : list[i] \in TheChunks
    BY <1>1, <1>2
  <2> QED
    BY <2>1, ChunksOnGrid
<1>10. ASSUME NEW i \in 1..n, NEW j \in 1..n, i < j
       PROVE  Precedes(list[i].offset, list[j].offset)
  <2>1. i # j
    BY <1>1, <1>10
  <2>2. list[i] # list[j]
    BY <1>6, <2>1
  <2>3. list[i].offset # list[j].offset
    BY <1>9, <2>2, ChunksOnGrid
  <2>4. ~Precedes(list[j].offset, list[i].offset)
    BY <1>2, <1>10 DEF n
  <2>5. /\ list[i].offset \in Seq(Nat) /\ list[j].offset \in Seq(Nat)
        /\ Len(list[i].offset) = Len(list[j].offset)
    BY <1>9 DEF OnGrid
  <2> QED
    BY <2>3, <2>4, <2>5, InOrder
<1>11. Len(list) \in Nat
  BY <1>1, <1>2
<1> QED
  BY <1>2, <1>8, <1>9, <1>10, <1>11 DEF Sorted

\* When the values are in the chunks that were found there are as many as expected.
LEMMA FoundAll ==
  ASSUME FileOk(file), Supported, Lists(found, TheChunks),
         Sorted(found, file.shape, ChunkShape), Indexable(file)
  PROVE  Len(found) = Expected
<1>1. ASSUME NEW x \in Coordinates(file.shape)
      PROVE  \E c \in TheChunks : Holds(c, x, ChunkShape)
  <2>1. CASE IsChunked
    BY <2>1 DEF Indexable, AllChunksInFile, TheChunks, ChunkShape, IsChunked
  <2>2. CASE ~IsChunked
    <3> DEFINE c == [addr |-> file.address, offset |-> Zero]
    <3>1. c \in TheChunks /\ c.offset = Zero /\ ChunkShape = file.shape
      BY <2>2 DEF TheChunks, ChunkShape
    <3>2. file.shape \in Seq(Nat)
      BY DEF FileOk
    <3>3. Fits(x, file.shape)
      BY <3>2, CoordinatesAre
    <3>4. Holds(c, x, file.shape)
      <4>1. ASSUME NEW d \in 1..Len(x)
            PROVE  Zero[d] = 0 /\ 0 <= x[d] /\ x[d] < 0 + file.shape[d]
        <5>1. /\ d \in 1..Len(file.shape) /\ x[d] \in Nat
              /\ x[d] < file.shape[d] /\ file.shape[d] \in Nat
          BY <3>2, <3>3 DEF Fits
        <5>2. Zero[d] = 0
          BY <5>1 DEF Zero
        <5> QED
          BY <5>1, <5>2
      <4> HIDE DEF c
      <4> QED
        BY <3>1, <4>1 DEF Holds
    <3> QED
      BY <3>1, <3>4
  <2> QED
    BY <2>1, <2>2
<1>2. \A x \in Coordinates(file.shape) : \E i \in 1..Len(found) : Holds(found[i], x, ChunkShape)
  BY <1>1 DEF Lists
<1>3. Shapely(file.shape, ChunkShape)
  BY ChunksOnGrid
<1>4. Len(found) = Product(Counts(file.shape, ChunkShape))
  BY <1>2, <1>3, ChunksCover
<1> QED
  BY <1>4 DEF Expected, Counts

\* As many as expected are all of them, where the arithmetic looks for them.
LEMMA FindsAll ==
  ASSUME FileOk(file), Supported, Lists(found, TheChunks),
         Sorted(found, file.shape, ChunkShape), Len(found) = Expected,
         NEW x \in Coordinates(file.shape)
  PROVE  LET c == ChunkAtCoord(New(file.shape, found, ChunkShape), x)
         IN c \in TheChunks /\ Holds(c, x, ChunkShape)
<1> DEFINE ds == New(file.shape, found, ChunkShape)
<1>1. Shapely(file.shape, ChunkShape) /\ Len(found) = Product(Counts(file.shape, ChunkShape))
  BY ChunksOnGrid DEF Expected, Counts
<1>2. /\ ChunkIndex(ds, x) \in 1..Len(found)
      /\ ChunkAtCoord(ds, x) = found[ChunkIndex(ds, x)]
      /\ Holds(ChunkAtCoord(ds, x), x, ChunkShape)
  BY <1>1, ChunkFound
<1> HIDE DEF ds
<1>3. found[ChunkIndex(ds, x)] \in TheChunks
  BY <1>2 DEF Lists
<1> QED
  BY <1>2, <1>3 DEF ds

\* The filters the reader can undo.
Supports == {"shuffle", "deflate"}

\* One more is listed.
LEMMA ListsMore ==
  ASSUME NEW list, NEW S, Lists(list, S), NEW c, c \notin S
  PROVE  Lists(Append(list, c), S \cup {c})
<1> DEFINE n == Len(list)
           T == S \cup {c}
           more == Append(list, c)
<1>1. list \in Seq(T) /\ c \in T /\ n \in Nat /\ \A i \in 1..n : list[i] \in S
  BY DEF Lists
<1>2. /\ more \in Seq(T) /\ Len(more) = n + 1 /\ more[n + 1] = c
      /\ \A i \in 1..n : more[i] = list[i]
  <2> HIDE DEF T
  <2> QED
    BY <1>1
<1>3. \A i \in 1..(n + 1) : i \in 1..n \/ i = n + 1
  BY <1>1
<1> HIDE DEF more, n, T
<1>4. ASSUME NEW i \in 1..(n + 1), NEW j \in 1..(n + 1), more[i] = more[j] PROVE i = j
  <2>1. \A k \in 1..n : more[k] # c
    BY <1>1, <1>2
  <2>2. ASSUME i \in 1..n, j \in 1..n PROVE i = j
    BY <1>2, <1>4, <2>2 DEF Lists, n
  <2> QED
    BY <1>2, <1>3, <1>4, <2>1, <2>2
<1>5. ASSUME NEW e \in T PROVE \E i \in 1..(n + 1) : more[i] = e
  <2>1. CASE e = c
    BY <1>1, <1>2, <2>1
  <2>2. CASE e \in S
    <3>1. PICK i \in 1..n : list[i] = e
      BY <2>2 DEF Lists, n
    <3>2. i \in 1..(n + 1)
      BY <1>1
    <3> QED
      BY <1>2, <3>1, <3>2
  <2> QED
    BY <2>1, <2>2 DEF T
<1> QED
  BY <1>2, <1>4, <1>5 DEF Lists, more, T

\* Each step of Dataset::index keeps what is said of the dataset.
LEMMA DatasetStep == DatasetInv /\ Index => DatasetInv'
<1> SUFFICES ASSUME DatasetInv, Index PROVE DatasetInv'
  OBVIOUS
<1>1. Len(file.filters) \in Nat
  BY DEF DatasetInv, FileOk
<1>2. CASE ReadFilter
  <2>1. /\ pc' = "filters" /\ file' = file /\ found' = found /\ found = << >> /\ f' = f + 1
        /\ f <= Len(file.filters) /\ f \in 1..(Len(file.filters) + 1)
        /\ KnownFilters(f - 1) /\ file.filters[f] \in Supports
    BY <1>2 DEF ReadFilter, DatasetInv, Supports
  <2>2. f' \in 1..(Len(file.filters) + 1) /\ f' - 1 = f
    BY <1>1, <2>1
  <2>3. \A k \in 1..f : k = f \/ k \in 1..(f - 1)
    BY <2>1
  <2>4. KnownFilters(f)
    BY <2>1, <2>3 DEF KnownFilters, Supports
  <2>5. KnownFilters(f - 1)'
    BY <2>1, <2>2, <2>4 DEF KnownFilters
  <2> QED
    BY <2>1, <2>2, <2>5, <1>2 DEF DatasetInv, ReadFilter
<1>3. CASE UnsupportedFilter
  <2>1. f \in 1..Len(file.filters) /\ file.filters[f] \notin Supports
    BY <1>1, <1>3 DEF UnsupportedFilter, DatasetInv, Supports
  <2>2. ~Indexable(file)
    BY <2>1 DEF Indexable, Supports
  <2> QED
    BY <1>3, <2>2 DEF UnsupportedFilter, Reject, DatasetInv
<1>4. CASE FiltersRead
  <2>1. f - 1 = Len(file.filters) /\ KnownFilters(f - 1) /\ pc = "filters"
    BY <1>1, <1>4 DEF FiltersRead, DatasetInv
  <2>2. KnownFilters(Len(file.filters)) /\ file' = file
    BY <1>4, <2>1 DEF FiltersRead
  <2>3. KnownFilters(Len(file.filters))'
    BY <2>2 DEF KnownFilters
  <2> QED
    BY <1>4, <2>1, <2>3 DEF FiltersRead, DatasetInv
<1>5. CASE Contiguous
  <2>1. /\ pc = "layout" /\ pc' = "sort" /\ file' = file /\ ~IsChunked /\ file.address # NoAddress
        /\ found' = << [addr |-> file.address, offset |-> Zero] >>
    BY <1>5 DEF Contiguous
  <2> DEFINE c == [addr |-> file.address, offset |-> Zero]
  <2>2. TheChunks' = {c} /\ TheChunks = {c} /\ found' = <<c>> /\ Supported'
    BY <2>1 DEF TheChunks, IsChunked, Zero, Supported
  <2> HIDE DEF c
  <2>3. Lists(<<c>>, {c})
    BY DEF Lists
  <2>4. Lists(found, TheChunks)'
    BY <2>2, <2>3
  <2>5. KnownFilters(Len(file.filters))'
    BY <2>1 DEF KnownFilters, DatasetInv
  <2> QED
    BY <2>1, <2>2, <2>4, <2>5 DEF DatasetInv
<1>6. CASE Chunked
  <2>1. /\ pc = "layout" /\ pc' = "visit" /\ file' = file /\ IsChunked /\ file.address = NoAddress
        /\ found' = << >> /\ unvisited' = file.allocated
    BY <1>6 DEF Chunked, DatasetInv
  <2>2. Supported' /\ IsChunked'
    BY <2>1 DEF IsChunked, Supported
  <2>3. Lists(<< >>, {})
    BY DEF Lists
  <2>4. Lists(found, file.allocated \ unvisited)'
    <3>1. (file.allocated \ unvisited)' = {}
      BY <2>1
    <3> QED
      BY <2>1, <2>3, <3>1
  <2>5. KnownFilters(Len(file.filters))'
    BY <2>1 DEF KnownFilters, DatasetInv
  <2> QED
    BY <2>1, <2>2, <2>4, <2>5 DEF DatasetInv
<1>7. CASE UnsupportedLayout
  <2>1. ~Indexable(file)
    BY <1>7 DEF UnsupportedLayout, Indexable, IsChunked
  <2> QED
    BY <1>7, <2>1 DEF UnsupportedLayout, Reject, DatasetInv
<1>8. CASE Visit
  <2>1. PICK c \in unvisited : unvisited' = unvisited \ {c} /\ found' = Append(found, c)
    BY <1>8 DEF Visit
  <2>2. pc = "visit" /\ pc' = "visit" /\ file' = file
    BY <1>8 DEF Visit
  <2>3. /\ IsChunked /\ Supported /\ unvisited \subseteq file.allocated
        /\ Lists(found, file.allocated \ unvisited)
    BY <2>2 DEF DatasetInv
  <2>4. Lists(Append(found, c), (file.allocated \ unvisited) \cup {c})
    BY <2>3, ListsMore
  <2>5. (file.allocated \ unvisited)' = (file.allocated \ unvisited) \cup {c}
    BY <2>1, <2>2, <2>3
  <2>6. Lists(found, file.allocated \ unvisited)' /\ (unvisited \subseteq file.allocated)'
    BY <2>1, <2>2, <2>3, <2>4, <2>5
  <2>7. IsChunked' /\ Supported' /\ KnownFilters(Len(file.filters))'
    BY <2>2, <2>3 DEF IsChunked, Supported, KnownFilters, DatasetInv
  <2> QED
    BY <2>2, <2>6, <2>7 DEF DatasetInv
<1>9. CASE Visited
  <2>1. /\ pc = "visit" /\ pc' = "sort" /\ file' = file /\ found' = found /\ unvisited = {}
        /\ IsChunked /\ Supported /\ Lists(found, file.allocated \ unvisited)
    BY <1>9 DEF Visited, DatasetInv
  <2>2. file.allocated \ unvisited = TheChunks /\ TheChunks' = TheChunks
    BY <2>1 DEF TheChunks, IsChunked
  <2>3. Lists(found, TheChunks)'
    BY <2>1, <2>2
  <2>4. Supported' /\ KnownFilters(Len(file.filters))'
    BY <2>1 DEF IsChunked, Supported, KnownFilters, DatasetInv
  <2> QED
    BY <2>1, <2>3, <2>4 DEF DatasetInv
<1>10. CASE Sort
  <2>1. /\ pc = "sort" /\ pc' = "count" /\ file' = file
        /\ FileOk(file) /\ Supported /\ Lists(found, TheChunks)
    BY <1>10 DEF Sort, DatasetInv
  <2>2. PICK p \in Bijection(1..Len(found), 1..Len(found)) :
          /\ \A i, j \in 1..Len(found) :
               i < j => ~Precedes(found[p[j]].offset, found[p[i]].offset)
          /\ found' = [n \in 1..Len(found) |-> found[p[n]]]
    BY <1>10 DEF Sort
  <2> DEFINE list == found'
  <2>3. list = [n \in 1..Len(found) |-> found[p[n]]]
    BY <2>2
  <2> HIDE DEF list
  <2>4. Lists(list, TheChunks) /\ Sorted(list, file.shape, ChunkShape)
    BY <2>1, <2>2, <2>3, SortedChunks
  <2>5. TheChunks' = TheChunks /\ ChunkShape' = ChunkShape /\ Supported'
    BY <2>1 DEF TheChunks, ChunkShape, IsChunked, Zero, Supported
  <2>6. Lists(found, TheChunks)' /\ Sorted(found, file.shape, ChunkShape)'
    BY <2>1, <2>4, <2>5 DEF list
  <2>7. KnownFilters(Len(file.filters))'
    BY <2>1 DEF KnownFilters, DatasetInv
  <2> QED
    BY <2>1, <2>5, <2>6, <2>7 DEF DatasetInv
<1>11. CASE Unexpected
  <2>1. pc = "count" /\ pc' = "rejected" /\ file' = file /\ Len(found) # Expected
    BY <1>11 DEF Unexpected, Reject
  <2>2. ~Indexable(file)
    BY <2>1, FoundAll DEF DatasetInv
  <2> QED
    BY <2>1, <2>2 DEF DatasetInv
<1>12. CASE LayOut
  <2>1. /\ pc = "count" /\ pc' = "indexed" /\ file' = file /\ found' = found
        /\ Len(found) = Expected /\ result' = New(file.shape, found, ChunkShape)
    BY <1>12 DEF LayOut
  <2>2. /\ FileOk(file) /\ Supported /\ Lists(found, TheChunks)
        /\ Sorted(found, file.shape, ChunkShape)
    BY <2>1 DEF DatasetInv
  <2>3. TheChunks' = TheChunks /\ ChunkShape' = ChunkShape /\ Supported' /\ Expected' = Expected
    BY <2>1, <2>2 DEF TheChunks, ChunkShape, IsChunked, Zero, Supported, Expected
  <2>4. /\ Lists(found, TheChunks)' /\ Sorted(found, file.shape, ChunkShape)'
        /\ (Len(found) = Expected)' /\ (result = New(file.shape, found, ChunkShape))'
    BY <2>1, <2>2, <2>3
  <2>5. KnownFilters(Len(file.filters))'
    BY <2>1 DEF KnownFilters, DatasetInv
  <2> QED
    BY <2>1, <2>2, <2>3, <2>4, <2>5 DEF DatasetInv
<1>13. CASE LibraryFails
  BY <1>13 DEF LibraryFails, DatasetInv
<1> QED
  BY <1>2, <1>3, <1>4, <1>5, <1>6, <1>7, <1>8, <1>9, <1>10, <1>11, <1>12, <1>13 DEF Index

\* What is said of the dataset is enough for the two properties of an indexed one.
LEMMA DatasetIsRight == DatasetInv => FindsEveryChunk /\ IndexedIfIndexable
<1>1. ASSUME DatasetInv, pc = "indexed", NEW x \in Coordinates(file.shape)
      PROVE  LET c == ChunkAtCoord(result, x)
             IN /\ Holds(c, x, ChunkShape)
                /\ IsChunked => c \in file.allocated
                /\ ~IsChunked => c.addr = file.address
  <2> DEFINE ds == New(file.shape, found, ChunkShape)
             c  == ChunkAtCoord(result, x)
  <2>1. result = ds
    BY <1>1 DEF DatasetInv
  <2>2. ChunkAtCoord(ds, x) \in TheChunks /\ Holds(ChunkAtCoord(ds, x), x, ChunkShape)
    BY <1>1, FindsAll DEF DatasetInv
  <2> HIDE DEF ds
  <2>3. c \in TheChunks /\ Holds(c, x, ChunkShape)
    BY <2>1, <2>2
  <2> HIDE DEF c
  <2>4. /\ IsChunked => c \in file.allocated
        /\ ~IsChunked => c.addr = file.address
    BY <2>3 DEF TheChunks
  <2> QED
    BY <2>3, <2>4 DEF c
<1>2. ASSUME DatasetInv, pc = "indexed" PROVE Indexable(file)
  <2>1. \A n \in 1..Len(file.filters) : file.filters[n] \in {"shuffle", "deflate"}
    BY <1>2 DEF DatasetInv, KnownFilters
  <2>2. Supported
    BY <1>2 DEF DatasetInv
  <2>3. ASSUME IsChunked PROVE AllChunksInFile(file)
    <3>1. ASSUME NEW x \in Coordinates(file.shape)
          PROVE  \E c \in file.allocated : Holds(c, x, file.chunk)
      <4>1. /\ ChunkAtCoord(result, x) \in file.allocated
            /\ Holds(ChunkAtCoord(result, x), x, ChunkShape)
        BY <1>1, <1>2, <2>3
      <4>2. ChunkShape = file.chunk
        BY <2>3 DEF ChunkShape
      <4> QED
        BY <4>1, <4>2
    <3> QED
      BY <3>1 DEF AllChunksInFile
  <2> QED
    BY <2>1, <2>2, <2>3 DEF Indexable, Supported, IsChunked
<1>3. DatasetInv /\ pc = "rejected" => ~Indexable(file)
  BY DEF DatasetInv
<1> QED
  BY <1>1, <1>2, <1>3 DEF FindsEveryChunk, IndexedIfIndexable

-------------------------------------------------------------------------------
\* Dataset::index is under way, or has returned the dataset.
Indexing == {"filters", "layout", "visit", "sort", "count", "indexed"}

\* A call of index_group is for one of the groups, and what it still has to do is
\* in that group.
IsCall(c) ==
  /\ c = [path |-> c.path, left |-> c.left, subgroups |-> c.subgroups,
          datasets |-> c.datasets, groups |-> c.groups]
  /\ c.path \in GroupPaths
  /\ c.left \subseteq DOMAIN GroupAt(c.path).datasets
  /\ c.subgroups \subseteq DOMAIN GroupAt(c.path).groups

\* A sequence, of what is left open.
Listed(s) == \E S : s \in Seq(S)

\* The calls are for the groups along one path.
CallsNest ==
  /\ Listed(stack)
  /\ \A i \in 1..Len(stack) :
       IsCall(stack[i]) /\ Len(stack[i].path) = i - 1 /\ stack[i].path = SubSeq(Top.path, 1, i - 1)

\* The dataset m of the group at p can be indexed.
Right(p, m) ==
  Indexable(GroupAt(p).datasets[m]) /\ Len(GroupAt(p).datasets[m].shape) <= MaxRank

\* The walk has still to come by a dataset, or is at it.
Waits(p, m) ==
  \E i \in 1..Len(stack) :
    /\ i - 1 <= Len(p) /\ SubSeq(p, 1, i - 1) = stack[i].path
    /\ i - 1 = Len(p) => \/ m \in stack[i].left
                         \/ i = Len(stack) /\ pc \in Indexing /\ m = member
    /\ i - 1 < Len(p) => p[i] \in stack[i].subgroups

\* Each dataset that is to be indexed can be, or is still to come.
NoneForgotten ==
  \A p \in GroupPaths : \A m \in Outside(GroupAt(p)) : Right(p, m) \/ Waits(p, m)

\* The invariant of the walk.
WalkInv ==
  /\ tree \in Trees
  /\ CallsNest
  /\ pc = "idle" => stack # << >>
  /\ stack # << >> /\ pc \in Indexing \cup {"rejected"} =>
       member \in Outside(Group) /\ file = Group.datasets[member] /\ Len(file.shape) <= MaxRank
  /\ stack # << >> /\ pc \in Indexing \cup {"idle"} => NoneForgotten
  /\ AllOrNothing

\* All elements of a sequence are the sequence.
LEMMA WholePrefix ==
  ASSUME NEW S, NEW p \in Seq(S)
  PROVE  SubSeq(p, 1, Len(p)) = p
BY SubSeqProperties

\* A path is a sequence.
LEMMA PathSeq ==
  ASSUME NEW t, NEW p \in PathsIn(t)
  PROVE  p \in Seq(GroupNames) /\ Len(p) \in Nat
BY PathsAre

\* The datasets that are considered are those whose values are outside of the header.
LEMMA ConsideredIs ==
  ASSUME NEW group, NEW m \in DOMAIN group.datasets
  PROVE  Considered(group, m) <=> m \in Outside(group)
BY DEF Considered, Outside

\* The group of the topmost call.
LEMMA TopIs ==
  ASSUME CallsNest, stack # << >>
  PROVE  /\ Len(stack) \in Nat /\ Len(stack) > 0 /\ Len(stack) \in 1..Len(stack)
         /\ IsCall(Top) /\ Len(Top.path) = Len(stack) - 1 /\ Top.path \in GroupPaths
<1>1. Len(stack) \in Nat /\ Len(stack) > 0
  BY DEF CallsNest, Listed
<1>2. Len(stack) \in 1..Len(stack)
  BY <1>1
<1> QED
  BY <1>1, <1>2 DEF CallsNest, Top, IsCall

\* What is left to do changes in the topmost call only.
\* The calls with another in the place of the topmost.
WithTop(s, c) == [s EXCEPT ![Len(s)] = c]

\* Replacing the topmost call leaves the others alone.
LEMMA TopReplaced ==
  ASSUME NEW s, Listed(s), s # << >>, NEW c, NEW t, t = WithTop(s, c)
  PROVE  /\ Listed(t) /\ Len(t) = Len(s) /\ t[Len(s)] = c /\ t # << >>
         /\ \A i \in 1..Len(s) : i # Len(s) => t[i] = s[i]
<1>1. PICK S : s \in Seq(S)
  BY DEF Listed
<1> DEFINE n == Len(s)
           T == S \cup {c}
<1>2. n \in Nat /\ n > 0 /\ s \in [1..n -> T] /\ c \in T
  BY <1>1
<1> HIDE DEF n, T
<1>3. t = [s EXCEPT ![n] = c]
  BY DEF n, WithTop
<1>4. t \in [1..n -> T]
  BY <1>2, <1>3
<1>5. t \in Seq(T) /\ Len(t) = n
  BY <1>2, <1>4
<1>6. t[n] = c /\ \A i \in 1..n : i # n => t[i] = s[i]
  BY <1>2, <1>3
<1>7. t # << >>
  BY <1>2, <1>5
<1> QED
  BY <1>5, <1>6, <1>7 DEF Listed, n

\* The calls stay along a path when the topmost is replaced by one for its group.
LEMMA CallsNestStill ==
  ASSUME CallsNest, stack # << >>, tree' = tree, NEW c, stack' = WithTop(stack, c),
         c.path = Top.path, IsCall(c)
  PROVE  CallsNest' /\ Top' = c
<1> DEFINE n == Len(stack)
           t == stack'
<1>1. /\ Listed(t) /\ Len(t) = n /\ t[n] = c
      /\ \A i \in 1..n : i # n => t[i] = stack[i]
  <2>1. Listed(stack) /\ t = WithTop(stack, c)
    BY DEF CallsNest
  <2> HIDE DEF t
  <2> QED
    BY <2>1, TopReplaced
<1>2. Top' = c
  BY <1>1 DEF Top
<1>3. GroupPaths' = GroupPaths /\ \A p : GroupAt(p)' = GroupAt(p)
  BY DEF GroupPaths, GroupAt
<1>4. ASSUME NEW i \in 1..n
      PROVE  /\ IsCall(t[i]) /\ Len(t[i].path) = i - 1
             /\ t[i].path = SubSeq(c.path, 1, i - 1)
  <2>1. IsCall(stack[i]) /\ Len(stack[i].path) = i - 1 /\ stack[i].path = SubSeq(Top.path, 1, i - 1)
    BY DEF CallsNest
  <2>2. CASE i = n
    <3>1. stack[i] = Top /\ t[i] = c
      BY <1>1, <2>2 DEF Top
    <3> QED
      BY <2>1, <3>1
  <2>3. CASE i # n
    <3>1. t[i] = stack[i]
      BY <1>1, <2>3
    <3> QED
      BY <2>1, <3>1
  <2> QED
    BY <2>2, <2>3
<1>5. \A d : IsCall(d)' <=> IsCall(d)
  BY <1>3, Zenon DEF IsCall
<1>6. \A i \in 1..Len(stack') : IsCall(stack[i])'
  BY <1>1, <1>3, <1>4 DEF IsCall
<1> QED
  BY <1>1, <1>2, <1>4, <1>6 DEF CallsNest

\* A call with a member less to do is still a call for its group.
LEMMA CallTaken ==
  ASSUME NEW c, IsCall(c), NEW a, NEW d, d = [c EXCEPT !.left = @ \ {a}]
  PROVE  /\ IsCall(d) /\ d.path = c.path /\ d.left = c.left \ {a} /\ d.subgroups = c.subgroups
<1>1. c = [path |-> c.path, left |-> c.left, subgroups |-> c.subgroups,
           datasets |-> c.datasets, groups |-> c.groups]
  BY DEF IsCall
<1>2. d = [path |-> c.path, left |-> c.left \ {a}, subgroups |-> c.subgroups,
           datasets |-> c.datasets, groups |-> c.groups]
  BY <1>1
<1> QED
  BY <1>2 DEF IsCall

\* So is one with more in its maps,
LEMMA CallFilled ==
  ASSUME NEW c, IsCall(c), NEW x, NEW d,
         d = [c EXCEPT !.datasets = x] \/ d = [c EXCEPT !.groups = x]
  PROVE  /\ IsCall(d) /\ d.path = c.path /\ d.left = c.left /\ d.subgroups = c.subgroups
<1>1. c = [path |-> c.path, left |-> c.left, subgroups |-> c.subgroups,
           datasets |-> c.datasets, groups |-> c.groups]
  BY DEF IsCall
<1>2. \/ d = [path |-> c.path, left |-> c.left, subgroups |-> c.subgroups,
              datasets |-> x, groups |-> c.groups]
      \/ d = [path |-> c.path, left |-> c.left, subgroups |-> c.subgroups,
              datasets |-> c.datasets, groups |-> x]
  BY <1>1
<1> QED
  BY <1>2 DEF IsCall

\* and a group less.
LEMMA CallEntered ==
  ASSUME NEW c, IsCall(c), NEW g, NEW d, d = [c EXCEPT !.subgroups = @ \ {g}]
  PROVE  /\ IsCall(d) /\ d.path = c.path /\ d.left = c.left /\ d.subgroups = c.subgroups \ {g}
<1>1. c = [path |-> c.path, left |-> c.left, subgroups |-> c.subgroups,
           datasets |-> c.datasets, groups |-> c.groups]
  BY DEF IsCall
<1>2. d = [path |-> c.path, left |-> c.left, subgroups |-> c.subgroups \ {g},
           datasets |-> c.datasets, groups |-> c.groups]
  BY <1>1
<1> QED
  BY <1>2 DEF IsCall

\* A dataset that the walk has still to come by is left to it, but that which is
\* taken now, or was indexed.
LEMMA StillWaits ==
  ASSUME CallsNest, stack # << >>, tree' = tree, NEW c, stack' = WithTop(stack, c),
         IsCall(c), c.path = Top.path, c.subgroups = Top.subgroups,
         NEW a, Top.left \ {a} \subseteq c.left, pc = "idle" \/ member = a,
         NEW p \in GroupPaths, NEW m, Waits(p, m)
  PROVE  Waits(p, m)' \/ (p = Top.path /\ m = a)
<1> DEFINE n == Len(stack)
           t == stack'
<1>1. /\ Len(t) = n /\ t[n] = c
      /\ \A i \in 1..n : i # n => t[i] = stack[i]
  <2>1. Listed(stack) /\ t = WithTop(stack, c)
    BY DEF CallsNest
  <2> HIDE DEF t
  <2> QED
    BY <2>1, TopReplaced
<1>2. PICK i \in 1..n :
        /\ i - 1 <= Len(p) /\ SubSeq(p, 1, i - 1) = stack[i].path
        /\ i - 1 = Len(p) => \/ m \in stack[i].left
                             \/ i = n /\ pc \in Indexing /\ m = member
        /\ i - 1 < Len(p) => p[i] \in stack[i].subgroups
  BY DEF Waits
<1>3. CASE i # n
  <2>1. t[i] = stack[i] /\ (i - 1 = Len(p) => m \in stack[i].left)
    BY <1>1, <1>2, <1>3
  <2>2. Waits(p, m)'
    BY <1>1, <1>2, <2>1 DEF Waits
  <2> QED
    BY <2>2
<1>4. CASE i = n
  <2>1. stack[i] = Top /\ t[i] = c
    BY <1>1, <1>4 DEF Top
  <2>2. ASSUME i - 1 = Len(p) PROVE p = Top.path
    <3>1. p \in Seq(GroupNames)
      BY PathSeq DEF GroupPaths
    <3>2. SubSeq(p, 1, Len(p)) = p
      BY <3>1, WholePrefix
    <3>3. SubSeq(p, 1, Len(p)) = Top.path
      BY <1>2, <2>1, <2>2
    <3> QED
      BY <3>2, <3>3
  <2>3. ASSUME ~(p = Top.path /\ m = a) PROVE Waits(p, m)'
    <3>1. i - 1 = Len(p) => m \in c.left
      <4>1. SUFFICES ASSUME i - 1 = Len(p) PROVE m \in c.left
        OBVIOUS
      <4>2. m # a
        BY <2>2, <2>3, <4>1
      <4>3. pc = "idle" => pc \notin Indexing
        BY DEF Indexing
      <4>4. m \in Top.left
        BY <1>2, <2>1, <4>1, <4>2, <4>3
      <4> QED
        BY <4>2, <4>4
    <3>2. i \in 1..Len(t) /\ SubSeq(p, 1, i - 1) = t[i].path /\ t[i].left = c.left
          /\ t[i].subgroups = stack[i].subgroups
      BY <1>1, <1>2, <2>1
    <3> QED
      BY <1>2, <2>1, <3>1, <3>2 DEF Waits
  <2> QED
    BY <2>3
<1> QED
  BY <1>3, <1>4

\* The file does not change while it is indexed.
LEMMA SameTree ==
  ASSUME tree' = tree
  PROVE  /\ GroupPaths' = GroupPaths /\ Wanted' = Wanted
         /\ \A p : GroupAt(p)' = GroupAt(p)
         /\ \A p, m : Right(p, m)' <=> Right(p, m)
<1>1. /\ GroupPaths' = GroupPaths /\ Wanted' = Wanted
  BY DEF GroupPaths, GroupAt, Wanted
<1>2. /\ \A p : GroupAt(p)' = GroupAt(p)
      /\ \A p, m : Right(p, m)' <=> Right(p, m)
  BY DEF GroupAt, Right
<1> QED
  BY <1>1, <1>2

\* The datasets that are to be indexed, by their path and name.
LEMMA WantedAre ==
  \A d : d \in Wanted <=>
           \E p \in GroupPaths : \E m \in Outside(GroupAt(p)) : d = GroupAt(p).datasets[m]
BY DEF Wanted

\* The inductive invariant.
IndexInv == DatasetInv /\ WalkInv

\* What is on the stack when a dataset is to be opened.
LEMMA TopGroup ==
  ASSUME WalkInv, stack # << >>
  PROVE  /\ CallsNest /\ IsCall(Top) /\ Top.path \in GroupPaths
         /\ Top.left \subseteq DOMAIN Group.datasets
         /\ Top.subgroups \subseteq DOMAIN Group.groups
         /\ \A m \in Outside(Group) : FileOk(Group.datasets[m]) /\ Group.datasets[m] \in Wanted
<1>1. CallsNest /\ IsCall(Top) /\ Top.path \in GroupPaths /\ tree \in Trees
  BY TopIs DEF WalkInv
<1>2. Top.left \subseteq DOMAIN Group.datasets /\ Top.subgroups \subseteq DOMAIN Group.groups
  BY <1>1 DEF IsCall, Group
<1>3. ASSUME NEW m \in Outside(Group)
      PROVE  FileOk(Group.datasets[m]) /\ Group.datasets[m] \in Wanted
  <2>1. m \in DOMAIN Group.datasets \ Group.broken
    BY DEF Outside
  <2>2. Group = GroupIn(tree, Top.path) /\ Top.path \in PathsIn(tree)
    BY <1>1 DEF Group, GroupAt, GroupPaths
  <2>3. FileOk(Group.datasets[m])
    BY <1>1, <2>1, <2>2, FilesAssumption
  <2>4. Group.datasets[m] \in Wanted
    BY <1>1, WantedAre DEF Group
  <2> QED
    BY <2>3, <2>4
<1> QED
  BY <1>1, <1>2, <1>3

\* A step of the walk leaves the dataset alone,
LEMMA DatasetStays ==
  ASSUME DatasetInv, UNCHANGED <<file, f, found, result, unvisited>>,
         pc' = pc \/ pc' \in {"idle", "done", "failed", "panicked"}
  PROVE  DatasetInv'
<1>1. FileOk(file')
  BY DEF DatasetInv
<1> QED
  BY <1>1 DEF DatasetInv, KnownFilters, Supported, IsChunked, Lists, TheChunks,
              Zero, ChunkShape, Expected, Sorted

\* or begins with a new one.
LEMMA DatasetOpened ==
  ASSUME NEW d, FileOk(d), Open(d)
  PROVE  DatasetInv' /\ pc' = "filters" /\ file' = d
<1>1. file' = d /\ f' = 1 /\ found' = << >> /\ pc' = "filters"
  BY DEF Open
<1>2. Len(d.filters) \in Nat
  BY DEF FileOk
<1>3. KnownFilters(f - 1)'
  BY <1>1 DEF KnownFilters
<1> QED
  BY <1>1, <1>2, <1>3 DEF DatasetInv

\* When the topmost call has one dataset less to do, none is forgotten but that.
LEMMA NoneForgottenStill ==
  ASSUME CallsNest, stack # << >>, tree' = tree, NEW c, stack' = WithTop(stack, c),
         IsCall(c), c.path = Top.path, c.subgroups = Top.subgroups,
         NEW a, Top.left \ {a} \subseteq c.left, pc = "idle" \/ member = a, NoneForgotten,
         NEW q, q = Top.path, a \in Outside(Group) => Right(q, a) \/ Waits(q, a)'
  PROVE  NoneForgotten' /\ CallsNest' /\ stack' # << >>
<1>1. ASSUME NEW p \in GroupPaths, NEW m \in Outside(GroupAt(p))
      PROVE  Right(p, m)' \/ Waits(p, m)'
  <2>1. CASE Right(p, m)
    BY <2>1, SameTree
  <2>2. CASE Waits(p, m)
    <3>1. CASE p = Top.path /\ m = a
      <4>1. p = q /\ m = a /\ (Right(q, a) \/ Waits(q, a)')
        BY <3>1 DEF Group
      <4>2. Right(p, m) \/ Waits(p, m)'
        BY <4>1
      <4> QED
        BY <4>2, SameTree
    <3>2. CASE ~(p = Top.path /\ m = a)
      BY <2>2, <3>2, StillWaits
    <3> QED
      BY <3>1, <3>2
  <2> QED
    BY <2>1, <2>2 DEF NoneForgotten
<1>2. GroupPaths' = GroupPaths /\ \A p : GroupAt(p)' = GroupAt(p)
  BY SameTree
<1>3. NoneForgotten'
  BY <1>1, <1>2 DEF NoneForgotten
<1>4. CallsNest'
  BY CallsNestStill
<1>5. stack' # << >>
  BY TopReplaced DEF CallsNest
<1> QED
  BY <1>3, <1>4, <1>5

\* A dataset that is not considered is none of those that are to be indexed.
LEMMA SkipStep == IndexInv /\ Skip => IndexInv'
<1> SUFFICES ASSUME IndexInv, Skip PROVE IndexInv'
  OBVIOUS
<1>1. /\ pc = "idle" /\ stack # << >> /\ WalkInv /\ NoneForgotten /\ DatasetInv
      /\ tree' = tree /\ UNCHANGED datasetVars
  BY DEF Skip, IndexInv, WalkInv
<1>2. PICK a \in Top.left :
        ~Considered(Group, a) /\ stack' = [stack EXCEPT ![Len(stack)].left = @ \ {a}]
  BY DEF Skip
<1> DEFINE c == [Top EXCEPT !.left = @ \ {a}]
<1>3. stack' = WithTop(stack, c)
  BY <1>2 DEF WithTop, Top
<1>4. /\ IsCall(c) /\ c.path = Top.path /\ c.subgroups = Top.subgroups /\ c.left = Top.left \ {a}
      /\ CallsNest
  <2>1. IsCall(Top) /\ CallsNest
    BY <1>1, TopGroup
  <2> QED
    BY <2>1, CallTaken
<1> HIDE DEF c
<1>0. a \notin Outside(Group)
  BY <1>1, <1>2, TopGroup, ConsideredIs
<1>5. NoneForgotten' /\ CallsNest' /\ stack' # << >>
  BY <1>0, <1>1, <1>3, <1>4, NoneForgottenStill
<1>6. DatasetInv' /\ pc' = pc
  BY <1>1, DatasetStays DEF datasetVars
<1> QED
  BY <1>1, <1>5, <1>6 DEF IndexInv, WalkInv, AllOrNothing, Indexing

\* A dataset that is opened is waited for until it is indexed.
LEMMA OpenStep == IndexInv /\ OpenMember => IndexInv'
<1> SUFFICES ASSUME IndexInv, OpenMember PROVE IndexInv'
  OBVIOUS
<1>1. /\ pc = "idle" /\ stack # << >> /\ WalkInv /\ NoneForgotten /\ DatasetInv /\ tree' = tree
  BY DEF OpenMember, IndexInv, WalkInv
<1>2. PICK a \in Top.left :
        /\ Considered(Group, a) /\ Len(Group.datasets[a].shape) <= MaxRank
        /\ stack' = [stack EXCEPT ![Len(stack)].left = @ \ {a}]
        /\ member' = a /\ Open(Group.datasets[a])
  BY DEF OpenMember
<1> DEFINE c == [Top EXCEPT !.left = @ \ {a}]
<1>3. stack' = WithTop(stack, c)
  BY <1>2 DEF WithTop, Top
<1>4. /\ IsCall(c) /\ c.path = Top.path /\ c.subgroups = Top.subgroups /\ c.left = Top.left \ {a}
      /\ CallsNest /\ a \in Outside(Group) /\ FileOk(Group.datasets[a]) /\ Top.path \in GroupPaths
  <2>1. IsCall(Top) /\ CallsNest /\ Top.path \in GroupPaths
    BY <1>1, TopGroup
  <2>2. /\ IsCall(c) /\ c.path = Top.path /\ c.subgroups = Top.subgroups
        /\ c.left = Top.left \ {a}
    BY <2>1, CallTaken
  <2>3. a \in Outside(Group) /\ FileOk(Group.datasets[a])
    BY <1>1, <1>2, TopGroup, ConsideredIs
  <2> HIDE DEF c
  <2> QED
    BY <2>1, <2>2, <2>3
<1> HIDE DEF c
<1>5. DatasetInv' /\ pc' = "filters" /\ file' = Group.datasets[a]
  BY <1>2, <1>4, DatasetOpened
<1>6. CallsNest' /\ Top' = c
  BY <1>1, <1>3, <1>4, CallsNestStill
<1>7. Group' = Group
  BY <1>1, <1>4, <1>6 DEF Group, GroupAt
<1>8. PICK p : p = Top.path
  OBVIOUS
<1>9. Waits(p, a)'
  <2>1. PICK n : n = Len(stack)
    OBVIOUS
  <2>2. Len(stack') = n /\ stack'[n] = c
    <3>1. Listed(stack)
      BY <1>4 DEF CallsNest
    <3> QED
      BY <1>1, <1>3, <2>1, <3>1, TopReplaced
  <2>3. n \in 1..n /\ n - 1 = Len(p) /\ n - 1 <= Len(p) /\ ~(n - 1 < Len(p))
    BY <1>1, <1>4, <1>8, <2>1, TopIs
  <2>4. SubSeq(p, 1, n - 1) = c.path
    <3>1. p \in Seq(GroupNames)
      BY <1>4, <1>8, PathSeq DEF GroupPaths
    <3>2. SubSeq(p, 1, Len(p)) = p
      BY <3>1, WholePrefix
    <3> QED
      BY <1>4, <1>8, <2>3, <3>2
  <2>5. pc' \in Indexing
    BY <1>5 DEF Indexing
  <2> QED
    BY <1>2, <2>2, <2>3, <2>4, <2>5 DEF Waits
<1>10. NoneForgotten' /\ stack' # << >>
  BY <1>1, <1>3, <1>4, <1>8, <1>9, NoneForgottenStill
<1>11. /\ member' \in Outside(Group') /\ file' = Group'.datasets[member']
       /\ Len(file'.shape) <= MaxRank
  BY <1>2, <1>4, <1>5, <1>7
<1> QED
  BY <1>1, <1>5, <1>6, <1>10, <1>11 DEF IndexInv, WalkInv, AllOrNothing, Outside

\* A panic shows a dataset of too high a rank.
LEMMA PanicStep == IndexInv /\ RankPanics => IndexInv'
<1> SUFFICES ASSUME IndexInv, RankPanics PROVE IndexInv'
  OBVIOUS
<1>1. /\ pc = "idle" /\ stack # << >> /\ WalkInv /\ DatasetInv /\ pc' = "panicked"
      /\ tree' = tree /\ stack' = stack
  BY DEF RankPanics, IndexInv, WalkInv
<1>2. PICK m \in Top.left :
        /\ Considered(Group, m) /\ Len(Group.datasets[m].shape) > MaxRank
        /\ member' = m /\ file' = Group.datasets[m]
  BY DEF RankPanics
<1>3. FileOk(Group.datasets[m]) /\ Group.datasets[m] \in Wanted
  BY <1>1, <1>2, TopGroup, ConsideredIs
<1>4. DatasetInv'
  BY <1>1, <1>2, <1>3 DEF DatasetInv
<1>5. Wanted' = Wanted /\ GroupPaths' = GroupPaths /\ \A p : GroupAt(p)' = GroupAt(p)
  BY <1>1, SameTree
<1>6. AllOrNothing'
  BY <1>1, <1>2, <1>3, <1>5 DEF AllOrNothing
<1>7. CallsNest'
  BY <1>1 DEF WalkInv, CallsNest, IsCall, GroupPaths, GroupAt, Top
<1> QED
  BY <1>1, <1>4, <1>6, <1>7 DEF IndexInv, WalkInv, Indexing

\* A dataset that was indexed can be indexed.
LEMMA CollectStep == IndexInv /\ Collect => IndexInv'
<1> SUFFICES ASSUME IndexInv, Collect PROVE IndexInv'
  OBVIOUS
<1>1. /\ pc = "indexed" /\ stack # << >> /\ WalkInv /\ DatasetInv /\ pc' = "idle"
      /\ UNCHANGED <<file, f, found, result, unvisited>>
      /\ tree' = tree /\ member' = member
  BY DEF Collect, IndexInv, WalkInv
<1>2. NoneForgotten /\ member \in Outside(Group) /\ file = Group.datasets[member]
      /\ Len(file.shape) <= MaxRank
  BY <1>1 DEF WalkInv, Indexing
<1>3. PICK x : stack' = [stack EXCEPT ![Len(stack)].datasets = x]
  BY DEF Collect
<1> DEFINE c == [Top EXCEPT !.datasets = x]
<1>4. stack' = WithTop(stack, c)
  BY <1>3 DEF WithTop, Top
<1>5. CallsNest /\ IsCall(Top) /\ Top.path \in GroupPaths
  BY <1>1, TopGroup
<1>6. /\ IsCall(c) /\ c.path = Top.path /\ c.subgroups = Top.subgroups /\ c.left = Top.left
  BY <1>5, CallFilled
<1> HIDE DEF c
<1>7. PICK p : p = Top.path
  OBVIOUS
<1>8. Right(p, member)
  <2>1. Indexable(file)
    BY <1>1, DatasetIsRight DEF IndexedIfIndexable
  <2>2. GroupAt(p) = Group
    BY <1>7 DEF Group
  <2> QED
    BY <1>2, <2>1, <2>2 DEF Right
<1>9. NoneForgotten' /\ CallsNest' /\ stack' # << >>
  <2>1. PICK a : a = member
    OBVIOUS
  <2>2. Right(p, a)
    BY <1>8, <2>1
  <2>3. Top.left \ {a} \subseteq c.left
    BY <1>6
  <2> QED
    BY <1>1, <1>2, <1>4, <1>5, <1>6, <1>7, <2>1, <2>2, <2>3, NoneForgottenStill
<1>10. DatasetInv'
  BY <1>1, DatasetStays
<1> QED
  BY <1>1, <1>9, <1>10 DEF IndexInv, WalkInv, AllOrNothing, Indexing

\* A dataset that a caller indexes is one of the file.
LEMMA AloneStep == IndexInv /\ IndexAlone => IndexInv'
<1> SUFFICES ASSUME IndexInv, IndexAlone PROVE IndexInv'
  OBVIOUS
<1>1. /\ pc = "idle" /\ WalkInv /\ DatasetInv /\ stack' = << >> /\ tree' = tree /\ tree \in Trees
  BY DEF IndexAlone, IndexInv, WalkInv
<1>2. PICK m \in DOMAIN tree.datasets \ tree.broken : Open(tree.datasets[m])
  BY DEF IndexAlone
<1>3. FileOk(tree.datasets[m])
  BY <1>1, <1>2, RootPath, FilesAssumption
<1>4. DatasetInv' /\ pc' = "filters"
  BY <1>2, <1>3, DatasetOpened
<1>5. Listed(<< >>) /\ 1..Len(<< >>) = {}
  BY DEF Listed
<1>6. CallsNest'
  BY <1>1, <1>5 DEF CallsNest
<1> QED
  BY <1>1, <1>4, <1>6 DEF IndexInv, WalkInv, AllOrNothing

\* At the end of the walk no dataset waits.
LEMMA FinishStep == IndexInv /\ Finish => IndexInv'
<1> SUFFICES ASSUME IndexInv, Finish PROVE IndexInv'
  OBVIOUS
<1>1. /\ pc = "idle" /\ stack # << >> /\ WalkInv /\ DatasetInv /\ pc' = "done" /\ Len(stack) = 1
      /\ tree' = tree /\ stack' = stack /\ Top.left = {} /\ Top.subgroups = {}
      /\ UNCHANGED <<file, f, found, result, unvisited>> /\ NoneForgotten
  BY DEF Finish, GroupDone, IndexInv, WalkInv
<1>2. \A p \in GroupPaths : \A m \in Outside(GroupAt(p)) : Right(p, m)
  <2>1. ASSUME NEW p, NEW m, Waits(p, m), Len(p) \in Nat PROVE FALSE
    <3>1. PICK i \in 1..Len(stack) :
            /\ i - 1 <= Len(p)
            /\ i - 1 = Len(p) => \/ m \in stack[i].left
                                 \/ i = Len(stack) /\ pc \in Indexing /\ m = member
            /\ i - 1 < Len(p) => p[i] \in stack[i].subgroups
      BY <2>1 DEF Waits
    <3>2. i = 1 /\ stack[i] = Top /\ pc \notin Indexing
      BY <1>1 DEF Top, Indexing
    <3> QED
      BY <1>1, <2>1, <3>1, <3>2
  <2>2. \A p \in GroupPaths : Len(p) \in Nat
    BY PathSeq DEF GroupPaths
  <2> QED
    BY <1>1, <2>1, <2>2 DEF NoneForgotten
<1>3. \A d \in Wanted : Indexable(d) /\ Len(d.shape) <= MaxRank
  BY <1>2, WantedAre DEF Right
<1>4. Wanted' = Wanted
  BY <1>1, SameTree
<1>5. AllOrNothing'
  BY <1>1, <1>3, <1>4 DEF AllOrNothing
<1>6. CallsNest'
  BY <1>1 DEF WalkInv, CallsNest, IsCall, GroupPaths, GroupAt, Top
<1>7. DatasetInv'
  BY <1>1, DatasetStays
<1> QED
  BY <1>1, <1>5, <1>6, <1>7 DEF IndexInv, WalkInv, Indexing

\* A walk that fails has promised nothing.
LEMMA FailStep == IndexInv /\ ListFails => IndexInv'
<1> SUFFICES ASSUME IndexInv, ListFails PROVE IndexInv'
  OBVIOUS
<1>1. WalkInv /\ DatasetInv /\ pc' = "failed" /\ UNCHANGED groupVars
      /\ UNCHANGED <<file, f, found, result, unvisited>>
  BY DEF ListFails, IndexInv
<1>2. CallsNest'
  BY <1>1 DEF WalkInv, CallsNest, IsCall, GroupPaths, GroupAt, Top, groupVars
<1>3. DatasetInv'
  BY <1>1, DatasetStays
<1> QED
  BY <1>1, <1>2, <1>3 DEF IndexInv, WalkInv, AllOrNothing, Indexing, groupVars

\* While a dataset is indexed the walk stands still; if it is rejected it is one that
\* could not be indexed.
LEMMA IndexStep == IndexInv /\ Index /\ UNCHANGED groupVars => IndexInv'
<1> SUFFICES ASSUME IndexInv, Index, UNCHANGED groupVars PROVE IndexInv'
  OBVIOUS
<1>1. WalkInv /\ DatasetInv /\ tree' = tree /\ stack' = stack /\ member' = member
  BY DEF IndexInv, groupVars
<1>2. file' = file /\ pc \in Indexing /\ pc' \in Indexing \cup {"rejected", "failed"}
  BY DEF Index, Indexing, Reject, ReadFilter, UnsupportedFilter, FiltersRead, Contiguous, Chunked,
         UnsupportedLayout, Visit, Visited, Sort, Unexpected, LayOut, LibraryFails, DatasetInv
<1>3. DatasetInv'
  BY <1>1, DatasetStep
<1>4. /\ GroupPaths' = GroupPaths /\ Wanted' = Wanted /\ Group' = Group
      /\ \A p : GroupAt(p)' = GroupAt(p)
  BY <1>1, SameTree DEF Group, Top, GroupAt
<1>5. CallsNest'
  BY <1>1 DEF WalkInv, CallsNest, IsCall, GroupPaths, GroupAt, Top
<1>6. ASSUME stack # << >>
      PROVE  /\ member' \in Outside(Group)' /\ file' = (Group.datasets[member])'
             /\ Len(file'.shape) <= MaxRank
  BY <1>1, <1>2, <1>4, <1>6 DEF WalkInv, Outside
<1>7. ASSUME stack # << >>, pc' \in Indexing PROVE NoneForgotten'
  <2>1. NoneForgotten
    BY <1>1, <1>2, <1>7 DEF WalkInv
  <2>2. ASSUME NEW p, NEW m PROVE Waits(p, m)' <=> Waits(p, m)
    BY <1>1, <1>2, <1>7 DEF Waits
  <2>3. ASSUME NEW p, NEW m PROVE Right(p, m)' <=> Right(p, m)
    BY <1>1, SameTree
  <2> QED
    BY <1>4, <2>1, <2>2, <2>3 DEF NoneForgotten
<1>8. ASSUME stack # << >>, pc' = "rejected" PROVE \E d \in Wanted : ~Indexable(d)
  <2>1. ~Indexable(file)
    BY <1>2, <1>3, <1>8 DEF DatasetInv
  <2>2. file \in Wanted
    BY <1>1, <1>2, <1>8, TopGroup DEF WalkInv
  <2> QED
    BY <2>1, <2>2
<1>9. AllOrNothing'
  BY <1>1, <1>2, <1>4, <1>8 DEF AllOrNothing, Indexing
<1>10. pc' # "idle"
  BY <1>2 DEF Indexing
<1> QED
  BY <1>1, <1>2, <1>3, <1>5, <1>6, <1>7, <1>9, <1>10 DEF IndexInv, WalkInv, Indexing

\* The datasets that wait for the group the walk goes into wait in the call for it.
LEMMA DescendStep == IndexInv /\ Descend => IndexInv'
<1> SUFFICES ASSUME IndexInv, Descend PROVE IndexInv'
  OBVIOUS
<1> DEFINE n == Len(stack)
           t == stack'
<1>1. /\ pc = "idle" /\ stack # << >> /\ WalkInv /\ DatasetInv
      /\ tree' = tree /\ UNCHANGED datasetVars
      /\ Top.left = {} /\ NoneForgotten /\ tree \in Trees
  BY DEF Descend, IndexInv, WalkInv
<1>2. PICK g \in Top.subgroups :
        t = Append([stack EXCEPT ![Len(stack)].subgroups = @ \ {g}],
                   Call(Append(Top.path, g), Group.groups[g]))
  BY DEF Descend
<1> DEFINE c == [Top EXCEPT !.subgroups = @ \ {g}]
           q == Append(Top.path, g)
           e == Call(q, Group.groups[g])
           s == WithTop(stack, c)
<1>3. t = Append(s, e)
  BY <1>2 DEF WithTop, Top
<1>4. /\ CallsNest /\ IsCall(Top) /\ Top.path \in GroupPaths /\ g \in DOMAIN Group.groups
      /\ Top.path \in Seq(GroupNames) /\ Len(Top.path) = n - 1
      /\ n \in Nat /\ n > 0 /\ n \in 1..n
  <2>1. CallsNest /\ IsCall(Top) /\ Top.path \in GroupPaths /\ g \in DOMAIN Group.groups
    BY <1>1, <1>2, TopGroup
  <2>2. Top.path \in Seq(GroupNames)
    BY <2>1, PathSeq DEF GroupPaths
  <2> QED
    BY <1>1, <2>1, <2>2, TopIs
<1>5. /\ IsCall(c) /\ c.path = Top.path /\ c.left = Top.left /\ c.subgroups = Top.subgroups \ {g}
  BY <1>4, CallEntered
<1>6. q \in GroupPaths /\ GroupAt(q) = Group.groups[g]
  BY <1>1, <1>4, PathStep DEF GroupPaths, GroupAt, Group
<1>7. /\ e.path = q /\ e.left = DOMAIN GroupAt(q).datasets /\ e.subgroups = DOMAIN GroupAt(q).groups
      /\ IsCall(e)
  <2>1. e = [path |-> q, left |-> DOMAIN GroupAt(q).datasets,
             subgroups |-> DOMAIN GroupAt(q).groups, datasets |-> EmptyMap, groups |-> EmptyMap]
    BY <1>6 DEF Call
  <2> HIDE DEF e, q
  <2> QED
    BY <1>6, <2>1 DEF IsCall
<1>8. /\ q \in Seq(GroupNames) /\ Len(q) = n
      /\ \A k \in 0..(n - 1) : SubSeq(q, 1, k) = SubSeq(Top.path, 1, k)
  <2>1. g \in GroupNames
    <3>1. q \in Seq(GroupNames)
      BY <1>6, PathSeq DEF GroupPaths
    <3>2. Len(q) = n /\ q[n] = g
      BY <1>4
    <3> HIDE DEF q
    <3> QED
      BY <1>4, <3>1, <3>2
  <2>2. q \in Seq(GroupNames) /\ Len(q) = n
    BY <1>4, <2>1
  <2>3. \A k \in 0..(n - 1) : k \in 0..Len(Top.path)
    BY <1>4
  <2> QED
    BY <1>4, <2>1, <2>2, <2>3, PrefixOfAppend
<1> HIDE DEF c, e, q
<1>9. /\ Listed(t) /\ Len(t) = n + 1 /\ t[n + 1] = e /\ t[n] = c
      /\ \A i \in 1..n : i # n => t[i] = stack[i]
  <2>1. /\ Listed(s) /\ Len(s) = n /\ s[n] = c
        /\ \A i \in 1..n : i # n => s[i] = stack[i]
    <3>1. Listed(stack) /\ s = WithTop(stack, c)
      BY <1>4 DEF CallsNest
    <3> HIDE DEF s
    <3> QED
      BY <1>1, <3>1, TopReplaced
  <2> HIDE DEF s, t, n
  <2>2. PICK S : s \in Seq(S)
    BY <2>1 DEF Listed
  <2> DEFINE T == S \cup {e}
  <2>3. s \in Seq(T) /\ e \in T
    BY <2>2
  <2> HIDE DEF T
  <2>4. t \in Seq(T) /\ Len(t) = n + 1 /\ t[n + 1] = e /\ \A i \in 1..n : t[i] = s[i]
    BY <1>3, <1>4, <2>1, <2>3
  <2>5. Listed(t)
    BY <2>4 DEF Listed
  <2> QED
    BY <1>4, <2>1, <2>4, <2>5
<1>10. Top' = e
  BY <1>9 DEF Top
<1>11. GroupPaths' = GroupPaths /\ (\A p : GroupAt(p)' = GroupAt(p))
       /\ \A p, m : Right(p, m)' <=> Right(p, m)
  BY <1>1, SameTree
<1>12. ASSUME NEW i \in 1..(n + 1)
       PROVE  IsCall(t[i]) /\ Len(t[i].path) = i - 1 /\ t[i].path = SubSeq(q, 1, i - 1)
  <2>1. CASE i = n + 1
    <3>1. t[i] = e /\ i - 1 = n
      BY <1>4, <1>9, <2>1
    <3> QED
      BY <1>7, <1>8, <3>1, WholePrefix
  <2>2. CASE i # n + 1
    <3>1. i \in 1..n /\ i - 1 \in 0..(n - 1)
      BY <1>4, <2>2
    <3>2. /\ IsCall(stack[i]) /\ Len(stack[i].path) = i - 1
          /\ stack[i].path = SubSeq(Top.path, 1, i - 1)
      BY <1>4, <3>1 DEF CallsNest
    <3>3. IsCall(t[i]) /\ t[i].path = stack[i].path
      <4>1. CASE i = n
        BY <1>5, <1>9, <4>1 DEF Top
      <4>2. CASE i # n
        BY <1>9, <3>1, <3>2, <4>2
      <4> QED
        BY <4>1, <4>2
    <3> QED
      BY <1>8, <3>1, <3>2, <3>3
  <2> QED
    BY <2>1, <2>2
<1>13. \A d : IsCall(d)' <=> IsCall(d)
  BY <1>11, Zenon DEF IsCall
<1>14. CallsNest'
  <2>1. \A i \in 1..Len(stack') : IsCall(stack[i])'
    BY <1>9, <1>11, <1>12 DEF IsCall
  <2> QED
    BY <1>7, <1>9, <1>10, <1>12, <2>1 DEF CallsNest
<1>15. ASSUME NEW p \in GroupPaths, NEW m \in Outside(GroupAt(p)), Waits(p, m)
       PROVE  Waits(p, m)'
  <2>0. p \in Seq(GroupNames) /\ Len(p) \in Nat
    BY PathSeq DEF GroupPaths
  <2>1. PICK i \in 1..n :
          /\ i - 1 <= Len(p) /\ SubSeq(p, 1, i - 1) = stack[i].path
          /\ i - 1 = Len(p) => \/ m \in stack[i].left
                               \/ i = n /\ pc \in Indexing /\ m = member
          /\ i - 1 < Len(p) => p[i] \in stack[i].subgroups
    BY <1>15 DEF Waits
  <2>2. i \in 1..(n + 1) /\ n + 1 \in 1..(n + 1) /\ (n + 1) - 1 = n
    BY <1>4
  <2>3. CASE i # n
    <3>1. t[i] = stack[i] /\ (i - 1 = Len(p) => m \in stack[i].left)
      BY <1>9, <2>1, <2>3
    <3> QED
      BY <1>9, <2>1, <2>2, <3>1 DEF Waits
  <2>4. CASE i = n
    <3>1. stack[i] = Top /\ t[i] = c /\ pc \notin Indexing
      BY <1>1, <1>9, <2>4 DEF Top, Indexing
    <3>2. n - 1 < Len(p) /\ p[n] \in Top.subgroups /\ SubSeq(p, 1, n - 1) = Top.path
          /\ n \in 1..Len(p) /\ n <= Len(p)
      BY <1>1, <1>4, <2>0, <2>1, <2>4, <3>1
    <3>3. CASE p[n] # g
      <4>1. n \in 1..Len(t) /\ n - 1 <= Len(p) /\ SubSeq(p, 1, n - 1) = t[n].path
            /\ n - 1 # Len(p) /\ p[n] \in t[n].subgroups
        BY <1>4, <1>5, <1>9, <2>0, <3>2, <3>3
      <4> QED
        BY <4>1 DEF Waits
    <3>4. CASE p[n] = g
      <4>1. SubSeq(p, 1, n) = q
        BY <2>0, <3>2, <3>4, PrefixNext DEF q
      <4>2. ASSUME n = Len(p) PROVE m \in e.left
        <5>1. p = q
          BY <2>0, <4>1, <4>2, WholePrefix
        <5>2. m \in DOMAIN GroupAt(q).datasets
          BY <5>1 DEF Outside
        <5> QED
          BY <1>7, <5>2
      <4>3. ASSUME n < Len(p) PROVE p[n + 1] \in e.subgroups
        <5>1. n + 1 \in 1..Len(p) /\ (n + 1) - 1 = n
          BY <1>4, <2>0, <4>3
        <5>2. p[n + 1] \in DOMAIN GroupIn(tree, SubSeq(p, 1, n)).groups
          BY SMTT(30), <5>1, PathsAre DEF GroupPaths
        <5> QED
          BY <1>7, <4>1, <5>2 DEF GroupAt
      <4>4. n + 1 \in 1..Len(t) /\ SubSeq(p, 1, (n + 1) - 1) = t[n + 1].path /\ t[n + 1] = e
        BY <1>7, <1>9, <2>2, <4>1
      <4> QED
        BY <1>9, <2>2, <3>2, <4>2, <4>3, <4>4 DEF Waits
    <3> QED
      BY <3>3, <3>4
  <2> QED
    BY <2>3, <2>4
<1>16. NoneForgotten'
  BY <1>1, <1>11, <1>15 DEF NoneForgotten
<1>17. DatasetInv' /\ pc' = pc
  BY <1>1, DatasetStays DEF datasetVars
<1>18. stack' # << >>
  BY <1>4, <1>9
<1> QED
  BY <1>1, <1>14, <1>16, <1>17, <1>18 DEF IndexInv, WalkInv, AllOrNothing, Indexing

\* None waits for a group that is done.
LEMMA AscendStep == IndexInv /\ Ascend => IndexInv'
<1> SUFFICES ASSUME IndexInv, Ascend PROVE IndexInv'
  OBVIOUS
<1> DEFINE n == Len(stack)
           t == stack'
           r == SubSeq(stack, 1, Len(stack) - 1)
<1>1. /\ pc = "idle" /\ stack # << >> /\ WalkInv /\ DatasetInv
      /\ tree' = tree /\ UNCHANGED datasetVars
      /\ Top.left = {} /\ Top.subgroups = {} /\ NoneForgotten /\ n > 1
  BY DEF Ascend, GroupDone, IndexInv, WalkInv
<1>2. /\ CallsNest /\ IsCall(Top) /\ Top.path \in Seq(GroupNames)
      /\ Len(Top.path) = n - 1 /\ n \in Nat
  BY <1>1, TopGroup, TopIs, PathSeq DEF GroupPaths
<1>3. /\ Listed(r) /\ Len(r) = n - 1 /\ r # << >>
      /\ \A i \in 1..(n - 1) : r[i] = stack[i]
  <2>1. PICK S : stack \in Seq(S)
    BY <1>2 DEF CallsNest, Listed
  <2>2. n - 1 \in 0..n
    BY <1>1, <1>2
  <2>3. r \in Seq(S) /\ Len(r) = n - 1 /\ \A i \in 1..(n - 1) : r[i] = stack[i]
    BY <2>1, <2>2, PrefixOf
  <2> HIDE DEF r
  <2>4. Listed(r)
    BY <2>3 DEF Listed
  <2>5. r # << >>
    BY <1>1, <1>2, <2>3
  <2> QED
    BY <2>3, <2>4, <2>5
<1>4. PICK x : t = [r EXCEPT ![Len(stack) - 1].groups = x]
  BY DEF Ascend
<1> DEFINE b == stack[n - 1]
           c == [b EXCEPT !.groups = x]
<1>5. n - 1 \in 1..(n - 1) /\ n - 1 \in 1..n /\ r[n - 1] = b
  BY <1>1, <1>2, <1>3
<1>6. t = WithTop(r, c)
  <2> HIDE DEF r
  <2> QED
    BY <1>3, <1>4, <1>5 DEF WithTop
<1>7. /\ IsCall(b) /\ IsCall(c) /\ c.path = b.path /\ c.left = b.left /\ c.subgroups = b.subgroups
  <2>1. IsCall(b)
    BY <1>2, <1>5 DEF CallsNest
  <2> HIDE DEF b
  <2> QED
    BY <2>1, CallFilled
<1> HIDE DEF c, b
<1>8. /\ Listed(t) /\ Len(t) = n - 1 /\ t[n - 1] = c /\ t # << >>
      /\ \A i \in 1..(n - 1) : i # n - 1 => t[i] = stack[i]
  <2>1. /\ Listed(t) /\ Len(t) = Len(r) /\ t[Len(r)] = c /\ t # << >>
        /\ \A i \in 1..Len(r) : i # Len(r) => t[i] = r[i]
    <3> HIDE DEF t, r
    <3> QED
      BY <1>3, <1>6, TopReplaced
  <2> HIDE DEF t, r
  <2> QED
    BY <1>3, <2>1
<1>9. Top' = c
  BY <1>8 DEF Top
<1>10. GroupPaths' = GroupPaths /\ (\A p : GroupAt(p)' = GroupAt(p))
       /\ \A p, m : Right(p, m)' <=> Right(p, m)
  BY <1>1, SameTree
<1>11. ASSUME NEW i \in 1..(n - 1)
       PROVE  /\ t[i].path = stack[i].path /\ t[i].left = stack[i].left
              /\ t[i].subgroups = stack[i].subgroups /\ IsCall(t[i])
  <2>1. CASE i = n - 1
    BY <1>7, <1>8, <2>1 DEF b
  <2>2. CASE i # n - 1
    <3>1. t[i] = stack[i] /\ i \in 1..n
      BY <1>2, <1>8, <2>2
    <3> QED
      BY <1>2, <3>1 DEF CallsNest
  <2> QED
    BY <2>1, <2>2
<1>12. c.path = SubSeq(Top.path, 1, n - 2)
  <2>1. \A i \in 1..n : stack[i].path = SubSeq(Top.path, 1, i - 1)
    BY <1>2 DEF CallsNest
  <2>2. (n - 1) - 1 = n - 2
    BY <1>2
  <2> HIDE DEF n
  <2>3. stack[n - 1].path = SubSeq(Top.path, 1, n - 2)
    BY <1>5, <2>1, <2>2
  <2> QED
    BY <1>7, <2>3 DEF b
<1>13. ASSUME NEW i \in 1..(n - 1)
       PROVE  IsCall(t[i]) /\ Len(t[i].path) = i - 1 /\ t[i].path = SubSeq(c.path, 1, i - 1)
  <2>1. i \in 1..n /\ i - 1 \in 0..(n - 2) /\ n - 2 \in 0..Len(Top.path)
    BY <1>1, <1>2
  <2>2. Len(stack[i].path) = i - 1 /\ stack[i].path = SubSeq(Top.path, 1, i - 1)
    BY <1>2, <2>1 DEF CallsNest
  <2>3. SubSeq(SubSeq(Top.path, 1, n - 2), 1, i - 1) = SubSeq(Top.path, 1, i - 1)
    BY <1>2, <2>1, PrefixOf
  <2> QED
    BY <1>11, <1>12, <2>2, <2>3
<1>14. CallsNest'
  <2>1. \A i \in 1..Len(stack') : IsCall(stack[i])'
    BY <1>8, <1>10, <1>13 DEF IsCall
  <2> QED
    BY <1>8, <1>9, <1>13, <2>1 DEF CallsNest
<1>15. ASSUME NEW p \in GroupPaths, NEW m \in Outside(GroupAt(p)), Waits(p, m)
       PROVE  Waits(p, m)'
  <2>1. PICK i \in 1..n :
          /\ i - 1 <= Len(p) /\ SubSeq(p, 1, i - 1) = stack[i].path
          /\ i - 1 = Len(p) => \/ m \in stack[i].left
                               \/ i = n /\ pc \in Indexing /\ m = member
          /\ i - 1 < Len(p) => p[i] \in stack[i].subgroups
    BY <1>15 DEF Waits
  <2>2. Len(p) \in Nat
    BY PathSeq DEF GroupPaths
  <2>3. i # n
    <3>1. SUFFICES ASSUME i = n PROVE FALSE
      OBVIOUS
    <3>2. stack[i] = Top /\ pc \notin Indexing
      BY <1>1, <3>1 DEF Top, Indexing
    <3> QED
      BY <1>1, <1>2, <2>1, <2>2, <3>2
  <2>4. i \in 1..(n - 1)
    BY <1>2, <2>3
  <2>5. i \in 1..Len(t) /\ (i - 1 = Len(p) => m \in stack[i].left)
    BY <1>8, <2>1, <2>3, <2>4
  <2> QED
    BY <1>11, <2>1, <2>4, <2>5 DEF Waits
<1>16. NoneForgotten'
  BY <1>1, <1>10, <1>15 DEF NoneForgotten
<1>17. DatasetInv' /\ pc' = pc
  BY <1>1, DatasetStays DEF datasetVars
<1> QED
  BY <1>1, <1>8, <1>14, <1>16, <1>17 DEF IndexInv, WalkInv, AllOrNothing, Indexing

\* At the start everything waits in the call for the root.
LEMMA IndexInit == Init => IndexInv
<1> SUFFICES ASSUME Init PROVE IndexInv
  OBVIOUS
<1> DEFINE c == Call(<< >>, tree)
<1>1. /\ file = NoFile /\ f = 1 /\ found = << >> /\ pc = "idle" /\ tree \in Trees /\ stack = <<c>>
  BY DEF Init, InitDataset
<1>2. DatasetInv
  <2>1. FileOk(NoFile)
    BY DEF FileOk, NoFile, NotChunked, NoAddress
  <2> QED
    BY <1>1, <2>1 DEF DatasetInv
<1>3. << >> \in GroupPaths /\ GroupAt(<< >>) = tree
  BY RootPath DEF GroupPaths, GroupAt
<1>4. /\ IsCall(c) /\ c.path = << >> /\ c.left = DOMAIN tree.datasets
      /\ c.subgroups = DOMAIN tree.groups
  <2>1. c = [path |-> << >>, left |-> DOMAIN tree.datasets, subgroups |-> DOMAIN tree.groups,
             datasets |-> EmptyMap, groups |-> EmptyMap]
    BY DEF Call
  <2> HIDE DEF c
  <2> QED
    BY <1>3, <2>1 DEF IsCall
<1> HIDE DEF c
<1>5. Len(stack) = 1 /\ stack[1] = c /\ Top = c /\ stack # << >> /\ Listed(stack)
  <2>1. stack \in Seq({c})
    BY <1>1
  <2> QED
    BY <1>1, <2>1 DEF Top, Listed
<1>6. SubSeq(<< >>, 1, 0) = << >> /\ \A p \in Seq(GroupNames) : SubSeq(p, 1, 0) = << >>
  <2>1. ASSUME NEW p \in Seq(GroupNames) PROVE SubSeq(p, 1, 0) = << >>
    <3>1. 0 \in 0..Len(p)
      OBVIOUS
    <3>2. SubSeq(p, 1, 0) \in Seq(GroupNames) /\ Len(SubSeq(p, 1, 0)) = 0
      BY <3>1, PrefixOf
    <3> QED
      BY <3>2
  <2>2. << >> \in Seq(GroupNames)
    OBVIOUS
  <2> QED
    BY <2>1, <2>2
<1>7. CallsNest
  <2>1. ASSUME NEW i \in 1..Len(stack)
        PROVE  /\ IsCall(stack[i]) /\ Len(stack[i].path) = i - 1
               /\ stack[i].path = SubSeq(Top.path, 1, i - 1)
    <3>1. i = 1 /\ i - 1 = 0 /\ stack[i] = c
      BY <1>5
    <3>2. SubSeq(Top.path, 1, i - 1) = << >> /\ Len(c.path) = 0
      BY <1>4, <1>5, <1>6, <3>1
    <3> QED
      BY <1>4, <3>1, <3>2
  <2> QED
    BY <1>5, <2>1 DEF CallsNest
<1>8. NoneForgotten
  <2>1. ASSUME NEW p \in GroupPaths, NEW m \in Outside(GroupAt(p)) PROVE Waits(p, m)
    <3>1. p \in Seq(GroupNames) /\ Len(p) \in Nat
      BY PathSeq DEF GroupPaths
    <3>2. SubSeq(p, 1, 1 - 1) = << >> /\ 1 - 1 = 0
      BY <1>6, <3>1
    <3>3. ASSUME Len(p) = 0 PROVE m \in c.left
      <4>1. p = << >>
        BY <3>1, <3>3
      <4> QED
        BY <1>3, <1>4, <4>1 DEF Outside
    <3>4. ASSUME 0 < Len(p) PROVE p[1] \in c.subgroups
      <4>1. 1 \in 1..Len(p)
        BY <3>1, <3>4
      <4>2. p[1] \in DOMAIN GroupIn(tree, SubSeq(p, 1, 1 - 1)).groups
        BY <4>1, PathsAre DEF GroupPaths
      <4> QED
        BY <1>4, <3>2, <4>2, RootPath
    <3>5. PICK i : i = 1
      OBVIOUS
    <3>6. /\ i \in 1..Len(stack) /\ stack[i] = c /\ i - 1 = 0 /\ i - 1 <= Len(p)
          /\ SubSeq(p, 1, i - 1) = stack[i].path
      <4>1. i \in 1..Len(stack) /\ stack[i] = c /\ i - 1 = 0 /\ i - 1 <= Len(p)
        BY <1>5, <3>1, <3>5
      <4>2. SubSeq(p, 1, 0) = << >>
        BY <1>6, <3>1
      <4> QED
        BY <1>4, <4>1, <4>2
    <3>7. i - 1 = Len(p) => m \in stack[i].left
      BY <3>3, <3>6
    <3>8. i - 1 < Len(p) => p[i] \in stack[i].subgroups
      BY <3>4, <3>5, <3>6
    <3> QED
      BY <3>6, <3>7, <3>8 DEF Waits
  <2> QED
    BY <2>1 DEF NoneForgotten
<1> QED
  BY <1>1, <1>2, <1>5, <1>7, <1>8 DEF IndexInv, WalkInv, AllOrNothing, Indexing

\* The invariant is inductive.
LEMMA IndexNext == IndexInv /\ [Next]_vars => IndexInv'
<1> SUFFICES ASSUME IndexInv, [Next]_vars PROVE IndexInv'
  OBVIOUS
<1>1. CASE UNCHANGED vars
  <2>1. /\ UNCHANGED <<file, f, found, result, unvisited>> /\ pc' = pc
        /\ tree' = tree /\ stack' = stack /\ member' = member
    BY <1>1 DEF vars, groupVars, datasetVars
  <2>2. DatasetInv'
    BY <2>1, DatasetStays DEF IndexInv
  <2>3. WalkInv'
    BY <2>1 DEF IndexInv, WalkInv, CallsNest, IsCall, GroupPaths, GroupAt, Top, Group,
                NoneForgotten, Right, Waits, AllOrNothing, Wanted
  <2> QED
    BY <2>2, <2>3 DEF IndexInv
<1>2. CASE Next
  BY <1>2, SkipStep, OpenStep, PanicStep, CollectStep, AloneStep, DescendStep, AscendStep,
     FinishStep, FailStep, IndexStep DEF Next
<1> QED
  BY <1>1, <1>2

\* For every file: in an indexed dataset chunk_at_coord finds for every coordinate the
\* chunk of the file that holds it, in whatever order the library visited the chunks
\* (dataset.rs:358).
THEOREM IndexedDatasetIsFound == Spec => []FindsEveryChunk
<1>1. IndexInv => FindsEveryChunk
  BY DatasetIsRight DEF IndexInv
<1> QED
  BY <1>1, IndexInit, IndexNext, PTL DEF Spec

\* For every file: Dataset::index succeeds exactly if the filters and the layout are
\* supported and no chunk is missing, unless the library fails; counting the chunks is
\* enough to tell (dataset.rs:138).
THEOREM IndexedExactlyIfIndexable == Spec => []IndexedIfIndexable
<1>1. IndexInv => IndexedIfIndexable
  BY DatasetIsRight DEF IndexInv
<1> QED
  BY <1>1, IndexInit, IndexNext, PTL DEF Spec

\* For every file: a finished index has all datasets that have values outside of the
\* header, and the walk is refused, or panics, for one of these only (index.rs:109).
THEOREM WalkIsAllOrNothing == Spec => []AllOrNothing
<1>1. IndexInv => AllOrNothing
  BY DEF IndexInv, WalkInv
<1> QED
  BY <1>1, IndexInit, IndexNext, PTL DEF Spec

-------------------------------------------------------------------------------
(***************************************************************************)
(* Looking up a path.                                                      *)
(***************************************************************************)
\* Induction on sequences that grow at their end, of a set of them.
LEMMA GrowingSequences ==
  ASSUME NEW S, NEW E \in SUBSET Seq(S), << >> \in E,
         \A s \in E : \A x \in S : Append(s, x) \in E
  PROVE  E = Seq(S)
<1> DEFINE Q(n) == \A s \in Seq(S) : Len(s) = n => s \in E
           L == {n \in Nat : Q(n)}
<1>1. Q(0)
  OBVIOUS
<1>2. ASSUME NEW n \in Nat, Q(n) PROVE Q(n + 1)
  <2> SUFFICES ASSUME NEW s \in Seq(S), Len(s) = n + 1 PROVE s \in E
    OBVIOUS
  <2>1. s # << >>
    OBVIOUS
  <2>2. PICK t \in Seq(S), x \in S : s = Append(t, x)
    BY <2>1, SequenceEmptyOrAppend
  <2>3. Len(t) = n
    BY <2>2
  <2> QED
    BY <1>2, <2>2, <2>3
<1>3. L \in SUBSET Nat /\ 0 \in L /\ \A n \in L : n + 1 \in L
  <2> HIDE DEF Q
  <2> QED
    BY <1>1, <1>2
<1>4. L = Nat
  <2> HIDE DEF L
  <2> QED
    BY <1>3, SetInduction
<1>5. \A n \in Nat : Q(n)
  <2> HIDE DEF Q
  <2> QED
    BY <1>4
<1>6. \A s \in Seq(S) : Len(s) \in Nat
  OBVIOUS
<1> QED
  BY <1>5, <1>6

\* The groups of that name in any of a set of groups.
GroupsNamed(name, groups) ==
  {g.groups[name] : g \in {h \in groups : name \in DOMAIN h.groups}}

\* The groups that are found on the way along a path.
Search(e, names, n, F) ==
  F = [k \in 0..n |-> IF k = 0 THEN {e} ELSE GroupsNamed(names[k], F[k - 1])]

\* Something is found, if nothing else the empty set,
LEMMA SearchExists ==
  ASSUME NEW e, NEW names, NEW n \in Nat
  PROVE  \E F : Search(e, names, n, F)
<1> DEFINE Q(m) == \E F : Search(e, names, m, F)
           E == {m \in Nat : Q(m)}
<1>1. Q(0)
  <2> DEFINE F == [k \in 0..0 |-> {e}]
  <2>1. \A k \in 0..0 : k = 0
    OBVIOUS
  <2>2. F = [k \in 0..0 |-> IF k = 0 THEN {e} ELSE GroupsNamed(names[k], F[k - 1])]
    BY <2>1, Zenon
  <2> QED
    BY <2>2 DEF Search
<1>2. ASSUME NEW m \in Nat, Q(m) PROVE Q(m + 1)
  <2>1. PICK F : Search(e, names, m, F)
    BY <1>2
  <2> DEFINE H == [k \in 0..(m + 1) |-> IF k = m + 1 THEN GroupsNamed(names[k], F[m]) ELSE F[k]]
             Next1(k) == IF k = 0 THEN {e} ELSE GroupsNamed(names[k], H[k - 1])
  <2>2. ASSUME NEW k \in 0..(m + 1) PROVE H[k] = Next1(k)
    <3>1. CASE k = m + 1
      <4>1. k # 0 /\ k - 1 = m /\ m \in 0..(m + 1) /\ m # m + 1
        BY <3>1
      <4>2. H[m] = F[m] /\ H[k] = GroupsNamed(names[k], F[m])
        BY <3>1, <4>1
      <4> HIDE DEF H
      <4> QED
        BY <4>1, <4>2
    <3>2. CASE k # m + 1
      <4>1. k \in 0..m
        BY <3>2
      <4>2. F[k] = IF k = 0 THEN {e} ELSE GroupsNamed(names[k], F[k - 1])
        BY <2>1, <4>1 DEF Search
      <4>3. H[k] = F[k]
        BY <3>2
      <4>4. k # 0 => k - 1 \in 0..(m + 1) /\ k - 1 # m + 1
        BY <4>1
      <4>5. k # 0 => H[k - 1] = F[k - 1]
        BY <4>4
      <4> HIDE DEF H
      <4> QED
        BY <4>2, <4>3, <4>5
    <3> QED
      BY <3>1, <3>2
  <2>3. H = [k \in 0..(m + 1) |-> Next1(k)]
    <3>1. H = [k \in 0..(m + 1) |-> H[k]]
      OBVIOUS
    <3> HIDE DEF H
    <3> QED
      BY <2>2, <3>1
  <2>4. Search(e, names, m + 1, H)
    BY <2>3 DEF Search
  <2> QED
    BY <2>4
<1>3. E \in SUBSET Nat /\ 0 \in E /\ \A m \in E : m + 1 \in E
  <2> HIDE DEF Q
  <2> QED
    BY <1>1, <1>2
<1>4. E = Nat
  <2> HIDE DEF E
  <2> QED
    BY <1>3, SetInduction
<1> HIDE DEF Q
<1> QED
  BY <1>4 DEF Q

\* always the same along the same names,
LEMMA SearchIs ==
  ASSUME NEW e, NEW p, NEW q, NEW n \in Nat, NEW m \in Nat, n <= m,
         Together(p, q, n),
         NEW F, Search(e, p, n, F), NEW H, Search(e, q, m, H)
  PROVE  F[n] = H[n]
<1> DEFINE Q(k) == F[k] = H[k]
           E == {k \in Nat : k <= n => Q(k)}
<1>1. Q(0)
  <2>1. 0 \in 0..n /\ 0 \in 0..m
    OBVIOUS
  <2> QED
    BY <2>1 DEF Search
<1>2. ASSUME NEW k \in Nat, k + 1 <= n, Q(k) PROVE Q(k + 1)
  <2>1. k + 1 \in 0..n /\ k + 1 \in 0..m /\ k + 1 \in 1..n /\ k + 1 # 0 /\ (k + 1) - 1 = k
    BY <1>2
  <2>2. F[k + 1] = GroupsNamed(p[k + 1], F[k])
    BY <2>1 DEF Search
  <2>3. H[k + 1] = GroupsNamed(q[k + 1], H[k])
    BY <2>1 DEF Search
  <2>4. p[k + 1] = q[k + 1]
    BY <2>1 DEF Together
  <2> QED
    BY <1>2, <2>2, <2>3, <2>4
<1>3. E \in SUBSET Nat /\ 0 \in E /\ \A k \in E : k + 1 \in E
  <2> HIDE DEF Q
  <2> QED
    BY <1>1, <1>2
<1>4. E = Nat
  <2> HIDE DEF E
  <2> QED
    BY <1>3, SetInduction
<1>5. \A k \in Nat : k <= n => Q(k)
  <2> HIDE DEF Q
  <2> QED
    BY <1>4
<1> QED
  BY <1>5

\* and in the end what Fold finds.
LEMMA FoldIs ==
  ASSUME NEW e, NEW p, Len(p) \in Nat
  PROVE  \E F : Search(e, p, Len(p), F) /\ Fold(e, p) = F[Len(p)]
<1> DEFINE G == CHOOSE F : F = [n \in 0..Len(p) |->
                  IF n = 0 THEN {e}
                  ELSE {g.groups[p[n]] : g \in {h \in F[n - 1] : p[n] \in DOMAIN h.groups}}]
<1>1. Fold(e, p) = G[Len(p)]
  BY DEF Fold
<1>2. \E F : F = [n \in 0..Len(p) |->
                  IF n = 0 THEN {e}
                  ELSE {g.groups[p[n]] : g \in {h \in F[n - 1] : p[n] \in DOMAIN h.groups}}]
  <2>1. PICK F : Search(e, p, Len(p), F)
    BY SearchExists
  <2> QED
    BY <2>1, Zenon DEF Search, GroupsNamed
<1>3. G = [n \in 0..Len(p) |->
                  IF n = 0 THEN {e}
                  ELSE {g.groups[p[n]] : g \in {h \in G[n - 1] : p[n] \in DOMAIN h.groups}}]
  BY <1>2, Zenon
<1> HIDE DEF G
<1>4. Search(e, p, Len(p), G)
  BY <1>3, Zenon DEF Search, GroupsNamed
<1> QED
  BY <1>1, <1>4

\* Without a name it is the group one begins at,
LEMMA FoldRoot ==
  ASSUME NEW e
  PROVE  Fold(e, << >>) = {e}
<1>1. PICK F : Search(e, << >>, 0, F) /\ Fold(e, << >>) = F[0]
  BY FoldIs
<1>2. 0 \in 0..0
  OBVIOUS
<1> QED
  BY <1>1, <1>2 DEF Search

\* with one more it is that group of what was found.
LEMMA FoldNext ==
  ASSUME NEW e, NEW S, NEW p \in Seq(S), NEW x \in S
  PROVE  Fold(e, Append(p, x)) = GroupsNamed(x, Fold(e, p))
<1> DEFINE q == Append(p, x)
           n == Len(p)
           m == n + 1
<1>1. n \in Nat /\ m \in Nat /\ n <= m /\ Len(q) = m /\ q[m] = x /\ Together(p, q, n)
  BY DEF Together
<1>2. PICK F : Search(e, p, n, F) /\ Fold(e, p) = F[n]
  BY FoldIs
<1> HIDE DEF q
<1>3. PICK H : Search(e, q, m, H) /\ Fold(e, q) = H[m]
  BY <1>1, FoldIs
<1>4. F[n] = H[n]
  <2> HIDE DEF m, n
  <2> QED
    BY <1>1, <1>2, <1>3, SearchIs
<1>5. m \in 0..m /\ m # 0 /\ m - 1 = n
  OBVIOUS
<1>6. H[m] = GroupsNamed(q[m], H[n])
  BY <1>3, <1>5 DEF Search
<1> QED
  BY <1>1, <1>2, <1>3, <1>4, <1>6 DEF q

\* Going down a path is going down its beginning and from there the rest.
LEMMA FoldTwice ==
  ASSUME NEW e, NEW S, NEW a \in Seq(S), NEW b \in Seq(S)
  PROVE  Fold(e, a \o b) = UNION {Fold(g, b) : g \in Fold(e, a)}
<1> DEFINE Q(s) == Fold(e, a \o s) = UNION {Fold(g, s) : g \in Fold(e, a)}
           E == {s \in Seq(S) : Q(s)}
<1>1. Q(<< >>)
  <2>1. a \o << >> = a
    BY ConcatEmptySeq
  <2>2. UNION {Fold(g, << >>) : g \in Fold(e, a)} = Fold(e, a)
    BY FoldRoot
  <2> QED
    BY <2>1, <2>2
<1>2. ASSUME NEW s \in Seq(S), NEW x \in S, Q(s) PROVE Q(Append(s, x))
  <2>1. a \o Append(s, x) = Append(a \o s, x) /\ a \o s \in Seq(S)
    <3>1. a \o (s \o <<x>>) = (a \o s) \o <<x>> /\ a \o s \in Seq(S)
      BY ConcatAssociative, ConcatProperties
    <3> QED
      BY <3>1, AppendIsConcat
  <2>2. Fold(e, a \o Append(s, x)) = GroupsNamed(x, UNION {Fold(g, s) : g \in Fold(e, a)})
    <3>1. Fold(e, Append(a \o s, x)) = GroupsNamed(x, Fold(e, a \o s))
      BY <2>1, FoldNext
    <3> QED
      BY <1>2, <2>1, <3>1
  <2>3. \A g : Fold(g, Append(s, x)) = GroupsNamed(x, Fold(g, s))
    BY FoldNext
  <2>4. GroupsNamed(x, UNION {Fold(g, s) : g \in Fold(e, a)})
          = UNION {GroupsNamed(x, Fold(g, s)) : g \in Fold(e, a)}
    BY DEF GroupsNamed
  <2> QED
    BY <2>2, <2>3, <2>4
<1>3. E \in SUBSET Seq(S) /\ << >> \in E /\ \A s \in E : \A x \in S : Append(s, x) \in E
  <2>1. << >> \in Seq(S) /\ \A s \in Seq(S) : \A x \in S : Append(s, x) \in Seq(S)
    OBVIOUS
  <2> HIDE DEF Q
  <2> QED
    BY <1>1, <1>2, <2>1
<1>4. E = Seq(S)
  <2> HIDE DEF E
  <2> QED
    BY <1>3, GrowingSequences
<1> HIDE DEF Q
<1>5. Q(b)
  BY <1>4
<1> QED
  BY <1>5 DEF Q

\* One more name leads to one of the groups.
LEMMA GroupInAppend ==
  ASSUME NEW t, NEW S, NEW p \in Seq(S), NEW x \in S
  PROVE  GroupIn(t, Append(p, x)) = GroupIn(t, p).groups[x]
<1> DEFINE q == Append(p, x)
           n == Len(p)
<1>1. n \in Nat /\ Len(p) = n /\ Len(q) = n + 1 /\ q[n + 1] = x /\ Together(p, q, n)
  BY DEF Together
<1> HIDE DEF q, n
<1>2. GroupIn(t, q) = GroupIn(t, p).groups[q[n + 1]]
  BY <1>1, GroupInNext
<1> QED
  BY <1>1, <1>2 DEF q

\* A path can be followed from the first group on it.
LEMMA GroupInTail ==
  ASSUME NEW e, NEW S, NEW r \in Seq(S), r # << >>
  PROVE  GroupIn(e, r) = GroupIn(e.groups[r[1]], Tail(r))
<1> DEFINE Q(s) == s # << >> => GroupIn(e, s) = GroupIn(e.groups[s[1]], Tail(s))
           E == {s \in Seq(S) : Q(s)}
<1>1. Q(<< >>)
  OBVIOUS
<1>2. ASSUME NEW s \in Seq(S), NEW x \in S, Q(s) PROVE Q(Append(s, x))
  <2> DEFINE q == Append(s, x)
  <2>1. GroupIn(e, q) = GroupIn(e, s).groups[x]
    BY GroupInAppend
  <2>2. CASE s = << >>
    <3>1. q[1] = x
      BY <2>2, AppendProperties
    <3>2. Tail(q) = << >>
      BY <2>2, HeadTailAppend
    <3>3. GroupIn(e, s) = e /\ GroupIn(e.groups[x], << >>) = e.groups[x]
      BY <2>2, GroupInRoot
    <3> HIDE DEF q
    <3>4. GroupIn(e, q) = GroupIn(e.groups[q[1]], Tail(q))
      BY <2>1, <3>1, <3>2, <3>3
    <3> QED
      BY <3>4 DEF q
  <2>3. CASE s # << >>
    <3>1. q[1] = s[1]
      <4>1. 1 \in 1..Len(s)
        BY <2>3
      <4> QED
        BY <4>1, AppendProperties
    <3>2. Tail(q) = Append(Tail(s), x) /\ Tail(s) \in Seq(S)
      BY <2>3, HeadTailAppend, HeadTailProperties
    <3>3. GroupIn(e, s) = GroupIn(e.groups[s[1]], Tail(s))
      BY <1>2, <2>3
    <3>4. GroupIn(e.groups[s[1]], Append(Tail(s), x)) = GroupIn(e.groups[s[1]], Tail(s)).groups[x]
      <4>1. PICK h : h = e.groups[s[1]]
        OBVIOUS
      <4>2. PICK u \in Seq(S) : u = Tail(s)
        BY <3>2
      <4>3. GroupIn(h, Append(u, x)) = GroupIn(h, u).groups[x]
        BY GroupInAppend
      <4> QED
        BY <4>1, <4>2, <4>3
    <3> HIDE DEF q
    <3>5. GroupIn(e, q) = GroupIn(e.groups[q[1]], Tail(q))
      BY <2>1, <3>1, <3>2, <3>3, <3>4
    <3> QED
      BY <3>5 DEF q
  <2> QED
    BY <2>2, <2>3
<1>3. E \in SUBSET Seq(S) /\ << >> \in E /\ \A s \in E : \A x \in S : Append(s, x) \in E
  <2>1. << >> \in Seq(S) /\ \A s \in Seq(S) : \A x \in S : Append(s, x) \in Seq(S)
    OBVIOUS
  <2> HIDE DEF Q
  <2> QED
    BY <1>1, <1>2, <2>1
<1>4. E = Seq(S)
  <2> HIDE DEF E
  <2> QED
    BY <1>3, GrowingSequences
<1> HIDE DEF Q
<1>5. Q(r)
  BY <1>4
<1> QED
  BY <1>5 DEF Q

\* The maps are those of the group: of its datasets with values outside of the header,
\* each indexed, and of its groups.
IsEntry(e, group) ==
  /\ DOMAIN e.datasets = Outside(group)
  /\ \A m \in Outside(group) : Summary(e.datasets[m]) = IndexOf(group.datasets[m])
  /\ DOMAIN e.groups = DOMAIN group.groups

\* So are all below the group at p.
Mirrors(e, p) ==
  \A r \in GroupPaths :
    Len(p) <= Len(r) /\ SubSeq(r, 1, Len(p)) = p =>
      IsEntry(GroupIn(e, SubSeq(r, Len(p) + 1, Len(r))), GroupAt(r))

\* Maps are right if they are right themselves, and those of each group in them.
LEMMA MirrorsMade ==
  ASSUME NEW p \in GroupPaths, NEW e, IsEntry(e, GroupAt(p)),
         \A g \in DOMAIN e.groups : Mirrors(e.groups[g], Append(p, g))
  PROVE  Mirrors(e, p)
<1> SUFFICES ASSUME NEW r \in GroupPaths, Len(p) <= Len(r), SubSeq(r, 1, Len(p)) = p
             PROVE  IsEntry(GroupIn(e, SubSeq(r, Len(p) + 1, Len(r))), GroupAt(r))
  BY DEF Mirrors
<1> DEFINE n == Len(p)
           rest == SubSeq(r, n + 1, Len(r))
<1>1. /\ p \in Seq(GroupNames) /\ r \in Seq(GroupNames) /\ n \in Nat /\ Len(r) \in Nat
  BY PathSeq DEF GroupPaths
<1>2. CASE Len(r) = n
  <2>1. r = p
    BY <1>1, <1>2, WholePrefix
  <2>2. rest = << >>
    BY <1>1, <1>2, SubSeqEmpty
  <2> HIDE DEF rest
  <2> QED
    BY <2>1, <2>2, GroupInRoot DEF rest
<1>3. CASE Len(r) # n
  <2>1. n + 1 \in 1..Len(r) /\ (n + 1) - 1 = n /\ Len(r) \in (n + 1)..Len(r)
    BY <1>1, <1>3
  <2> DEFINE g == r[n + 1]
  <2>2. g \in DOMAIN e.groups
    <3>1. g \in DOMAIN GroupIn(tree, SubSeq(r, 1, n)).groups
      BY <2>1, PathsAre DEF GroupPaths
    <3> QED
      BY <3>1 DEF IsEntry, GroupAt
  <2>3. SubSeq(r, 1, n + 1) = Append(p, g) /\ Len(Append(p, g)) = n + 1
    <3>1. SubSeq(r, 1, n + 1) = Append(SubSeq(r, 1, n), g)
      BY <1>1, <2>1, PrefixNext
    <3>2. g \in GroupNames
      BY <1>1, <2>1
    <3> QED
      BY <1>1, <3>1, <3>2
  <2>4. IsEntry(GroupIn(e.groups[g], SubSeq(r, (n + 1) + 1, Len(r))), GroupAt(r))
    <3>1. PICK q : q = Append(p, g)
      OBVIOUS
    <3>2. Mirrors(e.groups[g], q) /\ Len(q) = n + 1 /\ SubSeq(r, 1, Len(q)) = q /\ Len(q) <= Len(r)
      BY <1>1, <2>1, <2>2, <2>3, <3>1
    <3> HIDE DEF g
    <3>3. IsEntry(GroupIn(e.groups[g], SubSeq(r, Len(q) + 1, Len(r))), GroupAt(r))
      BY <3>2 DEF Mirrors
    <3> QED
      BY <3>2, <3>3
  <2>5. rest \in Seq(GroupNames) /\ rest # << >> /\ rest[1] = g
    <3>1. /\ n + 1 \in Int /\ Len(r) \in Int /\ n + 1 <= Len(r)
          /\ \A i \in (n + 1)..Len(r) : r[i] \in GroupNames
      BY <1>1, <2>1
    <3>2. /\ rest \in Seq(GroupNames) /\ Len(rest) = Len(r) - (n + 1) + 1
          /\ \A i \in 1..(Len(r) - (n + 1) + 1) : rest[i] = r[(n + 1) + i - 1]
      BY <3>1, SubSeqProperties
    <3>3. 1 \in 1..(Len(r) - (n + 1) + 1) /\ (n + 1) + 1 - 1 = n + 1
      BY <3>1
    <3> HIDE DEF rest
    <3> QED
      BY <3>1, <3>2, <3>3
  <2>6. Tail(rest) = SubSeq(r, (n + 1) + 1, Len(r))
    BY <1>1, <2>1, HeadTailOfSubSeq
  <2> HIDE DEF g, rest
  <2>7. GroupIn(e, rest) = GroupIn(e.groups[g], Tail(rest))
    BY <2>5, GroupInTail
  <2> QED
    BY <2>4, <2>6, <2>7 DEF rest
<1> QED
  BY <1>2, <1>3

\* The maps of a file that is done are right at each path.
LEMMA MirrorsAll ==
  ASSUME NEW e, Mirrors(e, << >>), NEW r \in GroupPaths
  PROVE  IsEntry(GroupIn(e, r), GroupAt(r))
<1>1. r \in Seq(GroupNames) /\ Len(r) \in Nat
  BY PathSeq DEF GroupPaths
<1>2. Len(<< >>) = 0 /\ SubSeq(r, 1, 0) = << >> /\ SubSeq(r, 0 + 1, Len(r)) = r
  <2>1. 0 + 1 = 1
    OBVIOUS
  <2> QED
    BY <1>1, <2>1, WholePrefix, SubSeqEmpty
<1>3. PICK p : p = << >>
  OBVIOUS
<1>4. Mirrors(e, p) /\ Len(p) = 0
  BY <1>2, <1>3
<1>5. IsEntry(GroupIn(e, SubSeq(r, Len(p) + 1, Len(r))), GroupAt(r))
  BY <1>1, <1>2, <1>3, <1>4 DEF Mirrors
<1> QED
  BY <1>2, <1>4, <1>5

\* There Fold finds what is at a path if it is one of the file's.
LEMMA FoldFinds ==
  ASSUME tree \in Trees, NEW e, Mirrors(e, << >>), NEW S, NEW p \in Seq(S)
  PROVE  Fold(e, p) = IF p \in GroupPaths THEN {GroupIn(e, p)} ELSE {}
<1> DEFINE Q(s) == Fold(e, s) = IF s \in GroupPaths THEN {GroupIn(e, s)} ELSE {}
           E == {s \in Seq(S) : Q(s)}
<1>1. Q(<< >>)
  BY FoldRoot, GroupInRoot, RootPath DEF GroupPaths
<1>2. ASSUME NEW s \in Seq(S), NEW x \in S, Q(s) PROVE Q(Append(s, x))
  <2> DEFINE q == Append(s, x)
  <2>1. Fold(e, q) = GroupsNamed(x, Fold(e, s)) /\ GroupIn(e, q) = GroupIn(e, s).groups[x]
    BY FoldNext, GroupInAppend
  <2>2. Len(q) = Len(s) + 1 /\ Len(s) \in 0..Len(q) /\ SubSeq(q, 1, Len(s)) = s /\ q[Len(q)] = x
        /\ Len(q) \in 1..Len(q) /\ Len(q) - 1 = Len(s)
    <3>1. q \in Seq(S) /\ Len(q) = Len(s) + 1 /\ q[Len(s) + 1] = x /\ Len(s) \in Nat
      BY AppendProperties
    <3>2. SubSeq(q, 1, Len(s)) = SubSeq(s, 1, Len(s))
      <4>1. Len(s) \in 0..Len(s)
        BY <3>1
      <4> QED
        BY <4>1, PrefixOfAppend
    <3>3. SubSeq(s, 1, Len(s)) = s
      BY WholePrefix
    <3> HIDE DEF q
    <3> QED
      BY <3>1, <3>2, <3>3
  <2> HIDE DEF q
  <2>3. CASE s \notin GroupPaths
    <3>1. q \notin GroupPaths
      BY <2>2, <2>3, PathPrefix DEF GroupPaths
    <3>2. Fold(e, s) = {}
      BY <1>2, <2>3
    <3>3. GroupsNamed(x, {}) = {}
      BY DEF GroupsNamed
    <3> QED
      BY <2>1, <3>1, <3>2, <3>3 DEF q
  <2>4. CASE s \in GroupPaths
    <3>1. Fold(e, s) = {GroupIn(e, s)}
      BY <1>2, <2>4
    <3>2. DOMAIN GroupIn(e, s).groups = DOMAIN GroupIn(tree, s).groups
      BY <2>4, MirrorsAll DEF IsEntry, GroupAt
    <3>3. CASE x \in DOMAIN GroupIn(tree, s).groups
      <4>1. q \in GroupPaths
        BY <2>4, <3>3, PathStep DEF GroupPaths, q
      <4>2. GroupsNamed(x, {GroupIn(e, s)}) = {GroupIn(e, s).groups[x]}
        BY <3>2, <3>3 DEF GroupsNamed
      <4> QED
        BY <2>1, <3>1, <4>1, <4>2 DEF q
    <3>4. CASE x \notin DOMAIN GroupIn(tree, s).groups
      <4>1. q \notin GroupPaths
        BY <2>2, <3>4, PathsAre DEF GroupPaths
      <4>2. GroupsNamed(x, {GroupIn(e, s)}) = {}
        BY <3>2, <3>4 DEF GroupsNamed
      <4> QED
        BY <2>1, <3>1, <4>1, <4>2 DEF q
    <3> QED
      BY <3>3, <3>4
  <2> QED
    BY <2>3, <2>4
<1>3. E \in SUBSET Seq(S) /\ << >> \in E /\ \A s \in E : \A x \in S : Append(s, x) \in E
  <2>1. << >> \in Seq(S) /\ \A s \in Seq(S) : \A x \in S : Append(s, x) \in Seq(S)
    OBVIOUS
  <2> HIDE DEF Q
  <2> QED
    BY <1>1, <1>2, <2>1
<1>4. E = Seq(S)
  <2> HIDE DEF E
  <2> QED
    BY <1>3, GrowingSequences
<1> HIDE DEF Q
<1>5. Q(p)
  BY <1>4
<1> QED
  BY <1>5 DEF Q

\* The parts of a path, and those that are a name.
Named(s) == {n \in 1..Len(s) : s[n] # Blank}

\* The first of them,
LEMMA FirstNamed ==
  ASSUME NEW S, NEW s \in Seq(S), NEW m \in Named(s), \A k \in Named(s) : m <= k
  PROVE  TrimStart(s) = SubSeq(s, m, Len(s))
<1>1. (CHOOSE n \in Named(s) : \A k \in Named(s) : n <= k) = m
  <2>1. \A n \in Named(s) : (\A k \in Named(s) : n <= k) => n = m
    BY DEF Named
  <2> QED
    BY <2>1
<1>2. Named(s) # {}
  OBVIOUS
<1> QED
  BY <1>1, <1>2 DEF TrimStart, Named

\* the last,
LEMMA LastNamed ==
  ASSUME NEW S, NEW s \in Seq(S), NEW m \in Named(s), \A k \in Named(s) : m >= k
  PROVE  TrimEnd(s) = SubSeq(s, 1, m)
<1>1. (CHOOSE n \in Named(s) : \A k \in Named(s) : n >= k) = m
  <2>1. \A n \in Named(s) : (\A k \in Named(s) : n >= k) => n = m
    BY DEF Named
  <2> QED
    BY <2>1
<1>2. Named(s) # {}
  OBVIOUS
<1> QED
  BY <1>1, <1>2 DEF TrimEnd, Named

\* and what is between: all, if there are only names.
LEMMA AllNamed ==
  ASSUME NEW S, NEW s \in Seq(S \ {Blank}), s # << >>
  PROVE  TrimStart(s) = s /\ TrimEnd(s) = s
<1>1. s \in Seq(S) /\ Len(s) \in Nat /\ Len(s) > 0 /\ Named(s) = 1..Len(s)
  <2>1. s \in Seq(S)
    BY SeqMonotonic
  <2>2. \A n \in 1..Len(s) : s[n] # Blank
    BY ElementOfSeq
  <2> QED
    BY <2>1, <2>2 DEF Named
<1>2. 1 \in Named(s) /\ (\A k \in Named(s) : 1 <= k)
      /\ Len(s) \in Named(s) /\ (\A k \in Named(s) : Len(s) >= k)
  BY <1>1
<1> QED
  BY <1>1, <1>2, FirstNamed, LastNamed, WholePrefix

\* The names of a plain path are what is left when the slashes before them are dropped.
LEMMA PlainNames ==
  ASSUME NEW S, NEW s \in Seq(S), s # << >>, Plain(s)
  PROVE  /\ Names(s) \in Seq(S \ {Blank})
         /\ Names(s) # << >> => TrimStart(s) = Names(s)
         /\ Names(s) = << >> => TrimStart(s) = <<Blank>>
<1> DEFINE empty == {n \in 1..Len(s) : s[n] = Blank}
<1>1. Len(s) \in Nat /\ s \in [1..Len(s) -> S]
  OBVIOUS
<1>2. CASE Named(s) = {}
  <2>1. empty = 1..Len(s)
    BY <1>2 DEF Named
  <2>2. Cardinality(1..Len(s)) = Len(s)
    BY <1>1, FS_Interval
  <2>3. SubSeq(s, Len(s) + 1, Len(s)) = << >>
    BY <1>1, SubSeqEmpty
  <2>4. Names(s) = << >>
    BY <2>1, <2>2, <2>3 DEF Names
  <2>5. TrimStart(s) = <<Blank>>
    BY <1>2 DEF TrimStart, Named
  <2> QED
    BY <2>4, <2>5
<1>3. CASE Named(s) # {}
  <2>1. Named(s) \in SUBSET Nat
    BY <1>1 DEF Named
  <2>2. PICK m \in Named(s) : \A k \in Named(s) : m <= k
    BY <1>3, <2>1, Least
  <2>3. m \in 1..Len(s) /\ s[m] # Blank /\ m - 1 \in Int /\ (m - 1) + 1 = m
    BY <2>2 DEF Named
  <2>4. empty = 1..(m - 1)
    <3>1. ASSUME NEW n \in 1..Len(s) PROVE s[n] = Blank <=> n < m
      <4>1. n < m => n \notin Named(s)
        BY <2>2, <2>3
      <4>2. m < n => s[n] # Blank
        BY <2>3 DEF Plain
      <4> QED
        BY <2>3, <4>1, <4>2 DEF Named
    <3> QED
      BY <1>1, <2>3, <3>1
  <2>5. Cardinality(1..(m - 1)) = m - 1
    BY <2>3, FS_Interval
  <2>6. Names(s) = SubSeq(s, m, Len(s))
    BY <2>3, <2>4, <2>5 DEF Names
  <2>7. \A i \in m..Len(s) : s[i] \in S \ {Blank}
    <3>1. ASSUME NEW i \in m..Len(s) PROVE s[i] \in S \ {Blank}
      <4>1. i \in 1..Len(s) /\ (i = m \/ m < i)
        BY <2>3
      <4>2. s[i] # Blank
        BY <2>3, <4>1 DEF Plain
      <4> QED
        BY <1>1, <4>1, <4>2
    <3> QED
      BY <3>1
  <2>8. SubSeq(s, m, Len(s)) \in Seq(S \ {Blank}) /\ Len(SubSeq(s, m, Len(s))) = Len(s) - m + 1
    <3>1. m \in Int /\ Len(s) \in Int /\ m <= Len(s)
      BY <1>1, <2>3
    <3> QED
      BY <2>7, <3>1, SubSeqProperties
  <2>9. Names(s) # << >>
    <3>1. Len(s) - m + 1 >= 1 /\ Len(<< >>) = 0
      BY <1>1, <2>3
    <3> QED
      BY <2>6, <2>8, <3>1
  <2>10. TrimStart(s) = Names(s)
    BY <2>2, <2>6, FirstNamed
  <2> QED
    BY <2>6, <2>8, <2>9, <2>10
<1> QED
  BY <1>2, <1>3

\* In any other, and in one without names, something is left that is none.
LEMMA OtherParts ==
  ASSUME NEW S, Blank \in S, NEW s \in Seq(S), s # << >>, ~Plain(s) \/ Names(s) = << >>
  PROVE  /\ TrimStart(s) \in Seq(S) /\ TrimStart(s) # << >>
         /\ \E j \in 1..Len(TrimStart(s)) : TrimStart(s)[j] = Blank
<1>1. CASE Plain(s)
  <2>1. TrimStart(s) = <<Blank>>
    BY <1>1, PlainNames
  <2>2. Len(<<Blank>>) = 1 /\ <<Blank>>[1] = Blank /\ <<Blank>> \in Seq(S)
    OBVIOUS
  <2>3. Len(<< >>) = 0 /\ 1 \in 1..1
    OBVIOUS
  <2> QED
    BY <2>1, <2>2, <2>3
<1>2. CASE ~Plain(s)
  <2>1. PICK a \in 1..Len(s), b \in 1..Len(s) : a < b /\ s[a] # Blank /\ s[b] = Blank
    BY <1>2 DEF Plain
  <2>2. Named(s) \in SUBSET Nat /\ Named(s) # {} /\ a \in Named(s) /\ Len(s) \in Nat
    BY <2>1 DEF Named
  <2>3. PICK m \in Named(s) : \A k \in Named(s) : m <= k
    BY <2>2, Least
  <2>4. m \in 1..Len(s) /\ m < b
    BY <2>1, <2>2, <2>3 DEF Named
  <2> DEFINE parts == SubSeq(s, m, Len(s))
             j == b - m + 1
  <2>5. TrimStart(s) = parts
    BY <2>3, FirstNamed
  <2>6. /\ parts \in Seq(S) /\ Len(parts) = Len(s) - m + 1
        /\ \A i \in 1..(Len(s) - m + 1) : parts[i] = s[m + i - 1]
    <3>1. m \in Int /\ Len(s) \in Int /\ m <= Len(s) /\ \A i \in m..Len(s) : s[i] \in S
      BY <2>2, <2>4
    <3> QED
      BY <3>1, SubSeqProperties
  <2>7. j \in 1..(Len(s) - m + 1) /\ m + j - 1 = b
    BY <2>1, <2>2, <2>4
  <2> HIDE DEF parts, j
  <2>8. j \in 1..Len(parts) /\ parts[j] = Blank
    BY <2>1, <2>6, <2>7
  <2>9. parts # << >>
    BY <2>6, <2>8
  <2> QED
    BY <2>5, <2>6, <2>8, <2>9
<1> QED
  BY <1>1, <1>2

\* The last part of a path, and the ones before.
LEMMA FrontAndLast ==
  ASSUME NEW S, NEW p \in Seq(S), p # << >>
  PROVE  /\ SubSeq(p, 1, Len(p) - 1) \in Seq(S) /\ p[Len(p)] \in S
         /\ Len(SubSeq(p, 1, Len(p) - 1)) = Len(p) - 1 /\ Len(p) \in Nat /\ Len(p) >= 1
         /\ \A k \in 1..(Len(p) - 1) : SubSeq(p, 1, Len(p) - 1)[k] = p[k]
<1>1. Len(p) \in Nat /\ Len(p) >= 1 /\ Len(p) \in 1..Len(p) /\ Len(p) - 1 \in 0..Len(p)
  OBVIOUS
<1> QED
  BY <1>1, PrefixOf, ElementOfSeq

\* The datasets that are found in some groups under a name.
Under(groups, name) == {g.datasets[name] : g \in {h \in groups : name \in DOMAIN h.datasets}}

\* LookupDataset finds, of the parts that are left, the dataset at these names,
LEMMA LookupFinds ==
  ASSUME tree \in Trees, NEW e, Mirrors(e, << >>), NEW s, NEW S, NEW p \in Seq(S), p # << >>,
         TrimStart(s) = p
  PROVE  LET up == SubSeq(p, 1, Len(p) - 1)
             name == p[Len(p)]
             at == GroupIn(e, up)
         IN /\ LookupDataset(e, s) = Under(Fold(e, up), name)
            /\ LookupDataset(e, s) = IF up \in GroupPaths /\ name \in Outside(GroupAt(up))
                                     THEN {at.datasets[name]} ELSE {}
            /\ up \in GroupPaths /\ name \in Outside(GroupAt(up)) =>
                 Summary(at.datasets[name]) = IndexOf(GroupAt(up).datasets[name])
<1> DEFINE up == SubSeq(p, 1, Len(p) - 1)
           name == p[Len(p)]
           at == GroupIn(e, up)
<1>1. LookupDataset(e, s) = Under(Fold(e, up), name)
  BY DEF LookupDataset, Under
<1>2. up \in Seq(S)
  BY FrontAndLast
<1> HIDE DEF up, name
<1>3. Fold(e, up) = IF up \in GroupPaths THEN {at} ELSE {}
  BY <1>2, FoldFinds
<1>4. up \in GroupPaths => IsEntry(at, GroupAt(up))
  BY MirrorsAll
<1> HIDE DEF at
<1>5. Under({}, name) = {} /\ Under({at}, name) = IF name \in DOMAIN at.datasets THEN {at.datasets[name]} ELSE {}
  BY DEF Under
<1>6. up \in GroupPaths /\ name \in Outside(GroupAt(up)) =>
        Summary(at.datasets[name]) = IndexOf(GroupAt(up).datasets[name])
  BY <1>4 DEF IsEntry
<1>7. LookupDataset(e, s) = IF up \in GroupPaths /\ name \in Outside(GroupAt(up))
                            THEN {at.datasets[name]} ELSE {}
  BY <1>1, <1>3, <1>4, <1>5 DEF IsEntry
<1> QED
  BY <1>1, <1>6, <1>7 DEF up, name, at

\* and nothing when one of them is no name.
LEMMA NothingElse ==
  ASSUME tree \in Trees, NEW S, NEW p \in Seq(S), p # << >>, NEW j \in 1..Len(p), p[j] = Blank
  PROVE  ~(SubSeq(p, 1, Len(p) - 1) \in GroupPaths
             /\ p[Len(p)] \in Outside(GroupAt(SubSeq(p, 1, Len(p) - 1))))
<1> DEFINE up == SubSeq(p, 1, Len(p) - 1)
<1> SUFFICES ASSUME up \in GroupPaths, p[Len(p)] \in Outside(GroupAt(up)) PROVE FALSE
  OBVIOUS
<1>1. /\ Len(up) = Len(p) - 1 /\ Len(p) \in Nat
      /\ \A k \in 1..(Len(p) - 1) : up[k] = p[k]
  BY FrontAndLast
<1> HIDE DEF up
<1>2. up \in Seq(GroupNames)
  BY PathSeq DEF GroupPaths
<1>3. \A k \in 1..Len(up) : up[k] # Blank
  BY <1>2, NamesAssumption, ElementOfSeq
<1>4. p[Len(p)] # Blank
  BY NamesAssumption DEF Outside, GroupAt, GroupPaths
<1> QED
  BY <1>1, <1>3, <1>4

\* A path of slashes alone has no names.
LEMMA NoNames ==
  ASSUME NEW S, NEW s \in Seq(S), Names(s) = << >>
  PROVE  TrimStart(s) = << Blank >>
<1> DEFINE n == Len(s)
           empty == {k \in 1..n : s[k] = Blank}
<1>1. n \in Nat
  OBVIOUS
<1>2. SUFFICES ASSUME Named(s) # {} PROVE FALSE
  <2>1. Named(s) = {} => TrimStart(s) = << Blank >>
    BY DEF TrimStart, Named
  <2> QED
    BY <2>1
<1>3. PICK m \in 1..n : s[m] # Blank
  BY <1>2 DEF Named
<1>4. empty \subseteq (1..n) \ {m}
  BY <1>3
<1>5. /\ IsFiniteSet(1..n) /\ Cardinality(1..n) = n
  BY <1>1, FS_Interval
<1>6. IsFiniteSet((1..n) \ {m}) /\ Cardinality((1..n) \ {m}) = n - 1
  BY <1>3, <1>5, FS_RemoveElement
<1> DEFINE c == Cardinality(empty)
<1>7. c \in Nat /\ c <= n - 1
  <2> HIDE DEF empty
  <2>1. IsFiniteSet(empty) /\ Cardinality(empty) <= Cardinality((1..n) \ {m})
    BY <1>4, <1>6, FS_Subset
  <2> QED
    BY <1>6, <2>1, FS_CardinalityType
<1>8. Names(s) = SubSeq(s, c + 1, n)
  BY DEF Names
<1> HIDE DEF c
<1>9. /\ c + 1 \in Int /\ n \in Int /\ c + 1 <= n /\ n - (c + 1) + 1 # 0
      /\ \A i \in (c + 1)..n : s[i] \in S
  BY <1>1, <1>7
<1>10. Len(SubSeq(s, c + 1, n)) = n - (c + 1) + 1
  BY <1>9, SubSeqProperties
<1>11. Len(<< >>) = 0
  OBVIOUS
<1> QED
  BY <1>8, <1>9, <1>10, <1>11

\* A sequence is what is before its last element, and that.
LEMMA FrontThenLast ==
  ASSUME NEW S, NEW p \in Seq(S), p # << >>
  PROVE  p = Append(SubSeq(p, 1, Len(p) - 1), p[Len(p)])
<1>1. Len(p) \in Nat /\ Len(p) \in 1..Len(p)
  OBVIOUS
<1>2. SubSeq(p, 1, Len(p)) = p
  BY WholePrefix
<1> QED
  BY <1>1, <1>2, PrefixNext

\* and a sequence with one more element has these.
LEMMA AppendedFront ==
  ASSUME NEW S, NEW u \in Seq(S), NEW x \in S, NEW c, c = Append(u, x)
  PROVE  c \in Seq(S) /\ c # << >> /\ c[Len(c)] = x /\ SubSeq(c, 1, Len(c) - 1) = u
<1>1. c \in Seq(S) /\ Len(c) = Len(u) + 1 /\ c[Len(u) + 1] = x /\ Len(u) \in Nat
  BY AppendProperties
<1>2. SubSeq(c, 1, Len(u)) = SubSeq(u, 1, Len(u))
  <2>1. Len(u) \in 0..Len(u)
    BY <1>1
  <2> QED
    BY <2>1, PrefixOfAppend
<1>3. SubSeq(u, 1, Len(u)) = u
  BY WholePrefix
<1>4. Len(c) - 1 = Len(u)
  BY <1>1
<1> QED
  BY <1>1, <1>2, <1>3, <1>4

\* The dataset and the group that are looked up depend on the parts that are left.
LEMMA SameParts ==
  ASSUME NEW e, NEW s, NEW t, TrimStart(s) = TrimStart(t)
  PROVE  LookupDataset(e, s) = LookupDataset(e, t)
BY DEF LookupDataset

\* What is under a name in some groups is what is under it in each.
LEMMA UnderEach ==
  ASSUME NEW groups, NEW b, NEW name
  PROVE  Under(UNION {Fold(g, b) : g \in groups}, name)
           = UNION {Under(Fold(g, b), name) : g \in groups}
BY DEF Under

\* With maps that are right a path finds what it should,
LEMMA FindsOne ==
  ASSUME tree \in Trees, NEW e, Mirrors(e, << >>), NEW s \in Paths
  PROVE  LET names == Names(s)
             up    == SubSeq(names, 1, Len(names) - 1)
             name  == names[Len(names)]
         IN {Summary(x) : x \in LookupDataset(e, s)} =
              IF /\ Plain(s) /\ names # << >>
                 /\ up \in GroupPaths
                 /\ name \in Outside(GroupAt(up))
              THEN {IndexOf(GroupAt(up).datasets[name])} ELSE {}
<1> DEFINE S == STRING \cup {Blank}
           names == Names(s)
           up    == SubSeq(names, 1, Len(names) - 1)
           name  == names[Len(names)]
           There == up \in GroupPaths /\ name \in Outside(GroupAt(up))
<1>1. s \in Seq(S) /\ s # << >> /\ Blank \in S
  <2>1. s \in Seq(STRING) /\ s # << >>
    BY NamesAssumption
  <2>2. STRING \subseteq S
    OBVIOUS
  <2> HIDE DEF S
  <2>3. s \in Seq(S)
    BY <2>1, <2>2, SeqMonotonic
  <2> QED
    BY <2>1, <2>3 DEF S
<1> HIDE DEF S
<1>2. CASE Plain(s) /\ names # << >>
  <2>1. names \in Seq(S \ {Blank}) /\ TrimStart(s) = names
    BY <1>1, <1>2, PlainNames
  <2> HIDE DEF names
  <2>2. LookupDataset(e, s) = IF There THEN {GroupIn(e, up).datasets[name]} ELSE {}
    BY <1>2, <2>1, LookupFinds
  <2>3. There => Summary(GroupIn(e, up).datasets[name]) = IndexOf(GroupAt(up).datasets[name])
    BY <1>2, <2>1, LookupFinds
  <2> HIDE DEF up, name
  <2>4. {Summary(x) : x \in LookupDataset(e, s)} =
          IF There THEN {IndexOf(GroupAt(up).datasets[name])} ELSE {}
    BY <2>2, <2>3
  <2> QED
    BY <1>2, <2>4 DEF up, name, names
<1>3. CASE ~(Plain(s) /\ names # << >>)
  <2>1. PICK p : p = TrimStart(s)
    OBVIOUS
  <2>2. p \in Seq(S) /\ p # << >> /\ \E j \in 1..Len(p) : p[j] = Blank
    BY <1>1, <1>3, <2>1, OtherParts
  <2>3. ~(SubSeq(p, 1, Len(p) - 1) \in GroupPaths
            /\ p[Len(p)] \in Outside(GroupAt(SubSeq(p, 1, Len(p) - 1))))
    BY <2>2, NothingElse
  <2>4. LookupDataset(e, s) = {}
    BY <2>1, <2>2, <2>3, LookupFinds
  <2> HIDE DEF names, up, name
  <2>5. {Summary(x) : x \in LookupDataset(e, s)} = {}
    BY <2>4
  <2> QED
    BY <1>3, <2>5 DEF names, up, name
<1> QED
  BY <1>2, <1>3

\* with other names behind its own, what the rest finds from there,
LEMMA FindsFrom ==
  ASSUME NEW e, NEW s \in Paths, NEW t \in Paths, Plain(s), Plain(t), Names(s) # << >>
  PROVE  LookupDataset(e, Names(s) \o Names(t)) =
           IF Names(t) = << >> THEN LookupDataset(e, s)
           ELSE UNION {LookupDataset(g, t) : g \in LookupGroup(e, s)}
<1> DEFINE N == STRING \ {Blank}
           a == Names(s)
           b == Names(t)
<1>1. s \in Seq(STRING) /\ s # << >> /\ t \in Seq(STRING) /\ t # << >>
  BY NamesAssumption
<1>2. a \in Seq(N) /\ b \in Seq(N) /\ TrimStart(s) = a /\ (b # << >> => TrimStart(t) = b) /\ a # << >>
  BY <1>1, PlainNames
<1> HIDE DEF a, b
<1>3. TrimStart(a) = a /\ TrimEnd(a) = a
  BY <1>2, AllNamed DEF N
<1>4. CASE b = << >>
  <2>1. a \o b = a
    BY <1>2, <1>4, ConcatEmptySeq
  <2>2. LookupDataset(e, a) = LookupDataset(e, s)
    BY <1>2, <1>3, SameParts
  <2> QED
    BY <1>4, <2>1, <2>2 DEF a, b
<1>5. CASE b # << >>
  <2> DEFINE c == a \o b
             front == SubSeq(b, 1, Len(b) - 1)
             last == b[Len(b)]
  <2>1. c \in Seq(N) /\ c # << >> /\ c[Len(c)] = last
        /\ SubSeq(c, 1, Len(c) - 1) = a \o front
    <3>1. front \in Seq(N) /\ last \in N /\ b = Append(front, last)
      <4> HIDE DEF N
      <4>1. front \in Seq(N) /\ last \in N
        BY <1>2, <1>5, FrontAndLast
      <4>2. b = Append(front, last)
        BY <1>2, <1>5, FrontThenLast
      <4> QED
        BY <4>1, <4>2
    <3> HIDE DEF front, last, N
    <3>2. c = Append(a \o front, last)
      BY <1>2, <3>1
    <3>3. a \o front \in Seq(N)
      BY <1>2, <3>1
    <3>4. PICK u \in Seq(N) : u = a \o front
      BY <3>3
    <3>5. c = Append(u, last)
      BY <3>2, <3>4
    <3> HIDE DEF c
    <3>6. c \in Seq(N) /\ c # << >> /\ c[Len(c)] = last /\ SubSeq(c, 1, Len(c) - 1) = u
      BY <3>1, <3>5, AppendedFront
    <3> QED
      BY <3>4, <3>6
  <2>2. TrimStart(c) = c
    <3> HIDE DEF c
    <3> QED
      BY <2>1, AllNamed DEF N
  <2>3. LookupDataset(e, c) = Under(Fold(e, a \o front), last)
    <3> HIDE DEF c, front, last
    <3> QED
      BY <2>1, <2>2 DEF LookupDataset, Under
  <2>4. Fold(e, a \o front) = UNION {Fold(g, front) : g \in Fold(e, a)}
    <3>1. front \in Seq(N)
      BY <1>2, <1>5, FrontAndLast
    <3> HIDE DEF front, N
    <3> QED
      BY <1>2, <3>1, FoldTwice
  <2>5. LookupGroup(e, s) = Fold(e, a)
    BY <1>2, <1>3 DEF LookupGroup
  <2>6. ASSUME NEW g PROVE LookupDataset(g, t) = Under(Fold(g, front), last)
    BY <1>2, <1>5 DEF LookupDataset, Under
  <2> HIDE DEF front, last, c
  <2>7. LookupDataset(e, c) = UNION {Under(Fold(g, front), last) : g \in Fold(e, a)}
    BY <2>3, <2>4, UnderEach
  <2>8. LookupDataset(e, c) = UNION {LookupDataset(g, t) : g \in LookupGroup(e, s)}
    BY <2>5, <2>6, <2>7
  <2> QED
    BY <1>5, <2>8 DEF a, b, c
<1> QED
  BY <1>4, <1>5

\* and no group when there are no names.
LEMMA FindsNoGroup ==
  ASSUME tree \in Trees, NEW e, Mirrors(e, << >>), NEW s \in Paths, Names(s) = << >>
  PROVE  LookupGroup(e, s) = {}
<1>1. s \in Seq(STRING)
  BY NamesAssumption
<1>2. TrimStart(s) = << Blank >>
  BY <1>1, NoNames
<1>3. PICK b : b = << Blank >>
  OBVIOUS
<1>4. b \in Seq({Blank}) /\ Len(b) = 1 /\ b[1] = Blank
  BY <1>3
<1>5. TrimEnd(b) = b
  <2>1. Named(b) = {}
    BY <1>4 DEF Named
  <2> QED
    BY <1>3, <2>1 DEF TrimEnd, Named
<1>6. b \notin GroupPaths
  <2>1. SUFFICES ASSUME b \in GroupPaths PROVE FALSE
    OBVIOUS
  <2>2. b \in Seq(GroupNames)
    BY <2>1, PathSeq DEF GroupPaths
  <2>3. b[1] \in GroupNames
    BY <1>4, <2>2
  <2> QED
    BY <1>4, <2>3, NamesAssumption
<1>7. Fold(e, b) = {}
  BY <1>4, <1>6, FoldFinds
<1> QED
  BY <1>2, <1>3, <1>5, <1>7 DEF LookupGroup

\* A dataset is found by its path when the maps are right.
LEMMA RightMapsFind ==
  ASSUME tree \in Trees, Mirrors(index, << >>)
  PROVE  FindsByPath
<1>1. \A s, t \in {q \in Paths : Len(q) <= 2} :
        (Plain(s) /\ Plain(t) /\ Names(s) # << >>) =>
          LookupDataset(index, Names(s) \o Names(t)) =
            IF Names(t) = << >> THEN LookupDataset(index, s)
            ELSE UNION {LookupDataset(g, t) : g \in LookupGroup(index, s)}
  BY FindsFrom
<1>2. \A s \in Paths : Names(s) = << >> => LookupGroup(index, s) = {}
  BY FindsNoGroup
<1>3. \A s \in Paths :
         LET names == Names(s)
             up    == SubSeq(names, 1, Len(names) - 1)
             name  == names[Len(names)]
         IN {Summary(e) : e \in LookupDataset(index, s)} =
              IF /\ Plain(s) /\ names # << >>
                 /\ up \in GroupPaths
                 /\ name \in Outside(GroupAt(up))
              THEN {IndexOf(GroupAt(up).datasets[name])} ELSE {}
  BY FindsOne
<1> QED
  BY <1>1, <1>2, <1>3 DEF FindsByPath

-------------------------------------------------------------------------------
(***************************************************************************)
(* The maps while they are filled.                                         *)
(***************************************************************************)
\* One of the first n filters is that one.
Uses(name, n) == \E k \in 1..n : file.filters[k] = name

\* The flags tell which filters were read.
FlagsInv ==
  /\ shuffle \in BOOLEAN /\ gzip \in BOOLEAN
  /\ pc = "filters" =>
       (shuffle <=> Uses("shuffle", f - 1)) /\ (gzip <=> Uses("deflate", f - 1))
  /\ pc \in {"layout", "visit", "sort", "count", "indexed"} =>
       /\ shuffle <=> Uses("shuffle", Len(file.filters))
       /\ gzip <=> Uses("deflate", Len(file.filters))

\* With one filter more.
LEMMA UsesNext ==
  ASSUME NEW name, NEW n \in Nat \ {0}
  PROVE  Uses(name, n) <=> Uses(name, n - 1) \/ file.filters[n] = name
<1>1. 1..n = (1..(n - 1)) \cup {n}
  OBVIOUS
<1> QED
  BY <1>1 DEF Uses

\* A step of a dataset sets the flag of the filter that it reads.
LEMMA FlagsStep == DatasetInv /\ FlagsInv /\ Index => FlagsInv'
<1> SUFFICES ASSUME DatasetInv, FlagsInv, Index PROVE FlagsInv'
  OBVIOUS
<1>1. file' = file
  BY DEF Index, ReadFilter, UnsupportedFilter, FiltersRead, Contiguous, Chunked,
         UnsupportedLayout, Visit, Visited, Sort, Unexpected, LayOut, LibraryFails, Reject
<1>2. \A name, n : Uses(name, n)' <=> Uses(name, n)
  BY <1>1 DEF Uses
<1>3. CASE ReadFilter
  <2>1. /\ pc = "filters" /\ f \in 1..(Len(file.filters) + 1) /\ f <= Len(file.filters)
        /\ f' = f + 1 /\ pc' = pc
        /\ shuffle' = (shuffle \/ file.filters[f] = "shuffle")
        /\ gzip' = (gzip \/ file.filters[f] = "deflate")
    BY <1>3 DEF ReadFilter, DatasetInv
  <2>2. f \in Nat \ {0} /\ f' - 1 = f
    BY <2>1
  <2>3. Uses("shuffle", f) <=> Uses("shuffle", f - 1) \/ file.filters[f] = "shuffle"
    BY <2>2, UsesNext
  <2>4. Uses("deflate", f) <=> Uses("deflate", f - 1) \/ file.filters[f] = "deflate"
    BY <2>2, UsesNext
  <2>5. shuffle' \in BOOLEAN /\ (shuffle' <=> Uses("shuffle", f))
    BY <2>1, <2>3 DEF FlagsInv
  <2>6. gzip' \in BOOLEAN /\ (gzip' <=> Uses("deflate", f))
    BY <2>1, <2>4 DEF FlagsInv
  <2>7. /\ (\E k \in 1..(f' - 1) : file'.filters[k] = "shuffle") <=> Uses("shuffle", f)
        /\ (\E k \in 1..(f' - 1) : file'.filters[k] = "deflate") <=> Uses("deflate", f)
    BY <1>1, <2>2 DEF Uses
  <2>8. pc' = "filters"
    BY <2>1
  <2> QED
    BY <2>5, <2>6, <2>7, <2>8, Zenon DEF FlagsInv, Uses
<1>4. CASE FiltersRead
  <2>0. Len(file.filters) \in Nat
    <3>1. file.filters \in Seq(STRING)
      BY DEF DatasetInv, FileOk
    <3> QED
      BY <3>1, LenProperties
  <2>1. /\ pc = "filters" /\ f = Len(file.filters) + 1
        /\ pc' = "layout" /\ shuffle' = shuffle /\ gzip' = gzip
    BY <1>4, <2>0 DEF FiltersRead, DatasetInv
  <2>2. f - 1 = Len(file.filters)
    BY <2>1
  <2> QED
    BY <1>1, <1>2, <2>1, <2>2 DEF FlagsInv, Uses
<1>5. CASE UNCHANGED <<shuffle, gzip>>
           /\ pc \in {"layout", "visit", "sort", "count"} /\ pc' # "filters"
  BY <1>1, <1>5 DEF FlagsInv, Uses
<1>6. CASE UNCHANGED <<shuffle, gzip>> /\ pc' \in {"rejected", "failed"}
  BY <1>6 DEF FlagsInv
<1> QED
  BY <1>3, <1>4, <1>5, <1>6
  DEF Index, UnsupportedFilter, Contiguous, Chunked, UnsupportedLayout, Visit, Visited, Sort,
      Unexpected, LayOut, LibraryFails, Reject

\* What is collected of a dataset is the index of it.
LEMMA Summarised ==
  ASSUME DatasetInv, FlagsInv, pc = "indexed",
         NEW e, e = [layout |-> result, shuffle |-> shuffle, gzip |-> gzip]
  PROVE  Summary(e) = IndexOf(file)
<1>1. result = New(file.shape, found, ChunkShape) /\ Lists(found, TheChunks)
  BY DEF DatasetInv
<1>2. result.shape = file.shape /\ result.chunks = found
  BY <1>1 DEF New
<1>3. {found[n].addr : n \in 1..Len(found)} = {c.addr : c \in TheChunks}
  <2>1. \A n \in 1..Len(found) : found[n] \in TheChunks
    BY <1>1 DEF Lists
  <2>2. \A c \in TheChunks : \E n \in 1..Len(found) : found[n] = c
    BY <1>1 DEF Lists
  <2> QED
    BY <2>1, <2>2
<1>4. {c.addr : c \in TheChunks} =
        IF file.chunk = NotChunked THEN {file.address} ELSE {c.addr : c \in file.allocated}
  <2>1. CASE IsChunked
    BY <2>1 DEF TheChunks, IsChunked
  <2>2. CASE ~IsChunked
    <3>1. TheChunks = {[addr |-> file.address, offset |-> Zero]}
      BY <2>2 DEF TheChunks
    <3>2. {c.addr : c \in TheChunks} = {file.address}
      BY <3>1
    <3> QED
      BY <2>2, <3>2 DEF IsChunked
  <2> QED
    BY <2>1, <2>2
<1>5. shuffle = (\E n \in 1..Len(file.filters) : file.filters[n] = "shuffle")
  BY Zenon DEF FlagsInv, Uses
<1>6. gzip = (\E n \in 1..Len(file.filters) : file.filters[n] = "deflate")
  BY Zenon DEF FlagsInv, Uses
<1>7. e.layout = result /\ e.shuffle = shuffle /\ e.gzip = gzip
  OBVIOUS
<1> QED
  BY <1>2, <1>3, <1>4, <1>5, <1>6, <1>7, Zenon DEF Summary, IndexOf

\* A call has the datasets that are done: those to be indexed that are neither left
\* nor being indexed.
DatasetsRight(c, taken) ==
  /\ DOMAIN c.datasets = Outside(GroupAt(c.path)) \ (c.left \cup taken)
  /\ \A m \in DOMAIN c.datasets : Summary(c.datasets[m]) = IndexOf(GroupAt(c.path).datasets[m])

\* And the groups that are done.
GroupsRight(c, taken) ==
  /\ DOMAIN c.groups = DOMAIN GroupAt(c.path).groups \ (c.subgroups \cup taken)
  /\ \A g \in DOMAIN c.groups : Mirrors(c.groups[g], Append(c.path, g))

\* A call that waits for the walk of the group g in it.
WaitsFor(c, g) ==
  DatasetsRight(c, {}) /\ GroupsRight(c, {g}) /\ g \notin c.subgroups

\* The dataset that is being indexed.
UnderWay == IF pc \in Indexing THEN {member} ELSE {}

\* The topmost call: its datasets are done but for the one that is being indexed.
TopRight(c) ==
  DatasetsRight(c, UnderWay) /\ GroupsRight(c, {}) /\ UnderWay \cap c.left = {}

\* The maps are right as far as they are filled.
MapsInv ==
  /\ stack # << >> /\ pc \in Indexing \cup {"idle"} =>
       /\ \A i \in 1..(Len(stack) - 1) : WaitsFor(stack[i], Top.path[i])
       /\ TopRight(Top)
  /\ pc = "done" => Mirrors(index, << >>)

\* The file is the same.
LEMMA SameMaps ==
  ASSUME tree' = tree
  PROVE  /\ \A c, taken : DatasetsRight(c, taken)' <=> DatasetsRight(c, taken)
         /\ \A c, taken : GroupsRight(c, taken)' <=> GroupsRight(c, taken)
         /\ \A c, g : WaitsFor(c, g)' <=> WaitsFor(c, g)
         /\ \A e, p : Mirrors(e, p)' <=> Mirrors(e, p)
<1>1. GroupPaths' = GroupPaths /\ \A p : GroupAt(p)' = GroupAt(p)
  BY SameTree
<1>2. \A e, p : Mirrors(e, p)' <=> Mirrors(e, p)
  BY <1>1, Zenon DEF Mirrors
<1>3. \A c, taken : DatasetsRight(c, taken)' <=> DatasetsRight(c, taken)
  BY <1>1, Zenon DEF DatasetsRight
<1>4. \A c, taken : GroupsRight(c, taken)' <=> GroupsRight(c, taken)
  BY <1>1, <1>2, Zenon DEF GroupsRight
<1> QED
  BY <1>2, <1>3, <1>4, Zenon DEF WaitsFor

\* The maps of a call are not touched by what is taken from the rest of it,
LEMMA MapsOfTaken ==
  ASSUME NEW c, IsCall(c), NEW x
  PROVE  /\ [c EXCEPT !.left = x].datasets = c.datasets
         /\ [c EXCEPT !.left = x].groups = c.groups
         /\ [c EXCEPT !.subgroups = x].datasets = c.datasets
         /\ [c EXCEPT !.subgroups = x].groups = c.groups
<1>1. c = [path |-> c.path, left |-> c.left, subgroups |-> c.subgroups,
           datasets |-> c.datasets, groups |-> c.groups]
  BY DEF IsCall
<1> QED
  BY <1>1

\* and of the two only that which is filled.
LEMMA MapsOfFilled ==
  ASSUME NEW c, IsCall(c), NEW x
  PROVE  /\ [c EXCEPT !.datasets = x].datasets = x
         /\ [c EXCEPT !.datasets = x].groups = c.groups
         /\ [c EXCEPT !.groups = x].datasets = c.datasets
         /\ [c EXCEPT !.groups = x].groups = x
<1>1. c = [path |-> c.path, left |-> c.left, subgroups |-> c.subgroups,
           datasets |-> c.datasets, groups |-> c.groups]
  BY DEF IsCall
<1> QED
  BY <1>1

\* When only the topmost call changes the others wait as before.
LEMMA MapsStill ==
  ASSUME CallsNest, stack # << >>, tree' = tree, NEW c, stack' = WithTop(stack, c),
         c.path = Top.path, IsCall(c), pc' # "done",
         \A i \in 1..(Len(stack) - 1) : WaitsFor(stack[i], Top.path[i]),
         DatasetsRight(c, UnderWay'), GroupsRight(c, {}), UnderWay' \cap c.left = {}
  PROVE  MapsInv'
<1>1. Top' = c
  BY CallsNestStill
<1>2. /\ Len(stack') = Len(stack)
      /\ \A i \in 1..Len(stack) : i # Len(stack) => stack'[i] = stack[i]
  BY TopReplaced DEF CallsNest
<1>3. Len(stack) \in Nat
  BY TopIs
<1>4. ASSUME NEW i \in 1..(Len(stack') - 1) PROVE WaitsFor(stack[i], Top.path[i])'
  <2>1. i \in 1..(Len(stack) - 1) /\ stack'[i] = stack[i]
    BY <1>2, <1>3
  <2>2. WaitsFor(stack'[i], Top'.path[i])
    BY <1>1, <2>1
  <2> QED
    BY <2>2, SameMaps
<1>5. TopRight(Top)'
  <2>1. DatasetsRight(c, UnderWay)' /\ GroupsRight(c, {})'
    BY SameMaps
  <2> QED
    BY <1>1, <2>1 DEF TopRight
<1> QED
  BY <1>4, <1>5 DEF MapsInv

\* A dataset that is skipped is in no map: it was not to be.
LEMMA SkipMaps == IndexInv /\ MapsInv /\ Skip => MapsInv'
<1> SUFFICES ASSUME IndexInv, MapsInv, Skip PROVE MapsInv'
  OBVIOUS
<1>1. /\ pc = "idle" /\ stack # << >> /\ WalkInv /\ tree' = tree /\ pc' = pc
      /\ UnderWay = {} /\ UnderWay' = {}
  BY DEF Skip, IndexInv, WalkInv, datasetVars, UnderWay, Indexing
<1>2. PICK a \in Top.left :
        ~Considered(Group, a) /\ stack' = [stack EXCEPT ![Len(stack)].left = @ \ {a}]
  BY DEF Skip
<1>3. CallsNest /\ IsCall(Top)
  BY <1>1, TopGroup
<1> DEFINE c == [Top EXCEPT !.left = @ \ {a}]
<1>4. stack' = WithTop(stack, c)
  BY <1>2 DEF WithTop, Top
<1>5. IsCall(c) /\ c.path = Top.path /\ c.left = Top.left \ {a}
  BY <1>3, CallTaken
<1>6. c.datasets = Top.datasets /\ c.groups = Top.groups /\ c.subgroups = Top.subgroups
  BY <1>3, MapsOfTaken, CallTaken
<1> HIDE DEF c
<1>7. a \notin Outside(GroupAt(Top.path))
  BY <1>1, <1>2, TopGroup, ConsideredIs DEF Group
<1>8. TopRight(Top) /\ \A i \in 1..(Len(stack) - 1) : WaitsFor(stack[i], Top.path[i])
  BY <1>1 DEF MapsInv
<1>9. DatasetsRight(c, UnderWay') /\ GroupsRight(c, {}) /\ UnderWay' \cap c.left = {}
  BY <1>1, <1>5, <1>6, <1>7, <1>8 DEF TopRight, DatasetsRight, GroupsRight
<1> QED
  BY <1>1, <1>3, <1>4, <1>5, <1>8, <1>9, MapsStill

\* One that is opened is not yet in the map,
LEMMA OpenMaps == IndexInv /\ MapsInv /\ OpenMember => MapsInv'
<1> SUFFICES ASSUME IndexInv, MapsInv, OpenMember PROVE MapsInv'
  OBVIOUS
<1>1. pc = "idle" /\ stack # << >> /\ WalkInv /\ tree' = tree /\ pc' = "filters" /\ UnderWay = {}
  BY DEF OpenMember, Open, IndexInv, WalkInv, UnderWay, Indexing
<1>2. PICK a \in Top.left :
        /\ stack' = [stack EXCEPT ![Len(stack)].left = @ \ {a}]
        /\ member' = a
  BY DEF OpenMember
<1>3. CallsNest /\ IsCall(Top)
  BY <1>1, TopGroup
<1> DEFINE c == [Top EXCEPT !.left = @ \ {a}]
<1>4. stack' = WithTop(stack, c)
  BY <1>2 DEF WithTop, Top
<1>5. IsCall(c) /\ c.path = Top.path /\ c.left = Top.left \ {a}
  BY <1>3, CallTaken
<1>6. c.datasets = Top.datasets /\ c.groups = Top.groups /\ c.subgroups = Top.subgroups
  BY <1>3, MapsOfTaken, CallTaken
<1> HIDE DEF c
<1>7. UnderWay' = {a}
  BY <1>1, <1>2 DEF UnderWay, Indexing
<1>8. TopRight(Top) /\ \A i \in 1..(Len(stack) - 1) : WaitsFor(stack[i], Top.path[i])
  BY <1>1 DEF MapsInv
<1>9. DatasetsRight(c, UnderWay') /\ GroupsRight(c, {}) /\ UnderWay' \cap c.left = {}
  BY <1>1, <1>2, <1>5, <1>6, <1>7, <1>8 DEF TopRight, DatasetsRight, GroupsRight
<1> QED
  BY <1>1, <1>3, <1>4, <1>5, <1>8, <1>9, MapsStill

\* and is put there, under its name, when it is indexed.
LEMMA CollectMaps == IndexInv /\ FlagsInv /\ MapsInv /\ Collect => MapsInv'
<1> SUFFICES ASSUME IndexInv, FlagsInv, MapsInv, Collect PROVE MapsInv'
  OBVIOUS
<1>1. /\ pc = "indexed" /\ stack # << >> /\ WalkInv /\ DatasetInv /\ tree' = tree /\ pc' = "idle"
      /\ UnderWay = {member} /\ UnderWay' = {}
  BY DEF Collect, IndexInv, UnderWay, Indexing
<1>2. member \in Outside(Group) /\ file = Group.datasets[member]
  BY <1>1 DEF WalkInv, Indexing
<1>3. CallsNest /\ IsCall(Top)
  BY <1>1, TopGroup
<1>4. PICK e : e = [layout |-> result, shuffle |-> shuffle, gzip |-> gzip]
  OBVIOUS
<1>5. PICK x : x = Insert(Top.datasets, member, e)
  OBVIOUS
<1> DEFINE c == [Top EXCEPT !.datasets = x]
<1>6. stack' = WithTop(stack, c)
  BY <1>4, <1>5 DEF Collect, WithTop, Top
<1>7. IsCall(c) /\ c.path = Top.path /\ c.left = Top.left /\ c.subgroups = Top.subgroups
  BY <1>3, CallFilled
<1>8. c.datasets = x /\ c.groups = Top.groups
  BY <1>3, MapsOfFilled
<1> HIDE DEF c
<1>9. TopRight(Top) /\ \A i \in 1..(Len(stack) - 1) : WaitsFor(stack[i], Top.path[i])
  BY <1>1 DEF MapsInv, Indexing
<1>10. /\ DOMAIN Top.datasets = Outside(Group) \ (Top.left \cup {member})
       /\ \A m \in DOMAIN Top.datasets : Summary(Top.datasets[m]) = IndexOf(Group.datasets[m])
       /\ member \notin Top.left
  BY <1>1, <1>9 DEF TopRight, DatasetsRight, Group
<1>11. /\ DOMAIN x = DOMAIN Top.datasets \cup {member} /\ x[member] = e
       /\ \A m \in DOMAIN Top.datasets : x[m] = Top.datasets[m]
  <2>1. PICK a, k : a = Top.datasets /\ k = member
    OBVIOUS
  <2>2. k \notin DOMAIN a /\ x = Insert(a, k, e)
    BY <1>5, <1>10, <2>1
  <2>3. DOMAIN x = DOMAIN a \cup {k} /\ x[k] = e /\ \A j \in DOMAIN a : x[j] = a[j]
    BY <2>2 DEF Insert
  <2> QED
    BY <2>1, <2>3
<1>12. Summary(e) = IndexOf(Group.datasets[member])
  BY <1>1, <1>2, <1>4, Summarised
<1>13. DatasetsRight(c, {})
  <2>1. DOMAIN x = Outside(Group) \ Top.left
    BY <1>2, <1>10, <1>11
  <2>2. \A m \in DOMAIN x : Summary(x[m]) = IndexOf(Group.datasets[m])
    BY <1>10, <1>11, <1>12
  <2> QED
    BY <1>7, <1>8, <2>1, <2>2 DEF DatasetsRight, Group
<1>14. GroupsRight(c, {})
  BY <1>7, <1>8, <1>9 DEF TopRight, GroupsRight
<1> QED
  BY <1>1, <1>3, <1>6, <1>7, <1>9, <1>13, <1>14, MapsStill

\* The maps of a group that is done are right for all that is below it.
LEMMA EntryMirrors ==
  ASSUME Top.path \in GroupPaths, DatasetsRight(Top, {}), GroupsRight(Top, {}),
         Top.left = {}, Top.subgroups = {}, NEW e, e = Entry
  PROVE  Mirrors(e, Top.path)
<1>1. e.datasets = Top.datasets /\ e.groups = Top.groups
  BY DEF Entry
<1>2. IsEntry(e, GroupAt(Top.path))
  BY <1>1 DEF IsEntry, DatasetsRight, GroupsRight
<1>3. \A g \in DOMAIN e.groups : Mirrors(e.groups[g], Append(Top.path, g))
  BY <1>1 DEF GroupsRight
<1>4. PICK p : p = Top.path
  OBVIOUS
<1>5. /\ p \in GroupPaths /\ IsEntry(e, GroupAt(p))
      /\ \A g \in DOMAIN e.groups : Mirrors(e.groups[g], Append(p, g))
  BY <1>2, <1>3, <1>4
<1> QED
  BY <1>4, <1>5, MirrorsMade

\* At the end the maps of the root are the index.
LEMMA FinishMaps == IndexInv /\ MapsInv /\ Finish => MapsInv'
<1> SUFFICES ASSUME IndexInv, MapsInv, Finish PROVE MapsInv'
  OBVIOUS
<1>1. /\ pc = "idle" /\ stack # << >> /\ WalkInv /\ tree' = tree /\ pc' = "done" /\ UnderWay = {}
      /\ Len(stack) = 1 /\ Top.left = {} /\ Top.subgroups = {} /\ index' = Entry
  BY DEF Finish, GroupDone, IndexInv, WalkInv, UnderWay, Indexing
<1>2. Top.path = << >> /\ Top.path \in GroupPaths
  <2>1. Len(Top.path) = 0 /\ Top.path \in GroupPaths
    BY <1>1, TopIs DEF WalkInv
  <2>2. Top.path \in Seq(GroupNames)
    BY <2>1, PathSeq DEF GroupPaths
  <2> QED
    BY <2>1, <2>2
<1>3. DatasetsRight(Top, {}) /\ GroupsRight(Top, {})
  BY <1>1 DEF MapsInv, TopRight
<1>4. PICK e : e = Entry
  OBVIOUS
<1>5. Mirrors(e, Top.path)
  BY <1>1, <1>2, <1>3, <1>4, EntryMirrors
<1>6. Mirrors(e, << >>)'
  BY <1>1, <1>2, <1>5, SameMaps
<1> QED
  BY <1>1, <1>4, <1>6 DEF MapsInv, Indexing

\* The call that the walk leaves waits for the group it goes into; the call for
\* that has empty maps.
LEMMA DescendMaps == IndexInv /\ MapsInv /\ Descend => MapsInv'
<1> SUFFICES ASSUME IndexInv, MapsInv, Descend PROVE MapsInv'
  OBVIOUS
<1> DEFINE n == Len(stack)
           t == stack'
<1>1. /\ pc = "idle" /\ stack # << >> /\ WalkInv /\ tree' = tree /\ pc' = pc
      /\ tree \in Trees /\ UnderWay' = {} /\ UnderWay = {} /\ Top.left = {}
  BY DEF Descend, IndexInv, WalkInv, UnderWay, Indexing, datasetVars
<1>2. PICK g \in Top.subgroups :
        t = Append([stack EXCEPT ![Len(stack)].subgroups = @ \ {g}],
                   Call(Append(Top.path, g), Group.groups[g]))
  BY DEF Descend
<1>3. /\ CallsNest /\ IsCall(Top) /\ Top.path \in GroupPaths /\ g \in DOMAIN Group.groups
      /\ Top.path \in Seq(GroupNames) /\ Len(Top.path) = n - 1 /\ n \in Nat \ {0}
  <2>1. CallsNest /\ IsCall(Top) /\ Top.path \in GroupPaths /\ g \in DOMAIN Group.groups
    BY <1>1, <1>2, TopGroup
  <2>2. Top.path \in Seq(GroupNames)
    BY <2>1, PathSeq DEF GroupPaths
  <2> QED
    BY <1>1, <2>1, <2>2, TopIs
<1>4. PICK q : q = Append(Top.path, g)
  OBVIOUS
<1> DEFINE c == [Top EXCEPT !.subgroups = @ \ {g}]
           e == Call(q, Group.groups[g])
           s == WithTop(stack, c)
<1>5. t = Append(s, e)
  BY <1>2, <1>4 DEF WithTop, Top
<1>6. c.path = Top.path /\ c.left = Top.left /\ c.subgroups = Top.subgroups \ {g}
  BY <1>3, CallEntered
<1>7. c.datasets = Top.datasets /\ c.groups = Top.groups
  BY <1>3, MapsOfTaken
<1>8. q \in GroupPaths /\ GroupAt(q) = Group.groups[g]
  BY <1>1, <1>3, <1>4, PathStep DEF GroupPaths, GroupAt, Group
<1>9. /\ q[n] = g /\ \A i \in 1..(n - 1) : q[i] = Top.path[i]
  <2>1. q \in Seq(GroupNames)
    BY <1>8, PathSeq DEF GroupPaths
  <2> HIDE DEF n
  <2> QED
    BY <1>3, <1>4
<1>10. /\ e.path = q /\ e.left = DOMAIN GroupAt(q).datasets /\ e.subgroups = DOMAIN GroupAt(q).groups
       /\ e.datasets = EmptyMap /\ e.groups = EmptyMap
  <2>1. e = [path |-> q, left |-> DOMAIN GroupAt(q).datasets,
             subgroups |-> DOMAIN GroupAt(q).groups, datasets |-> EmptyMap, groups |-> EmptyMap]
    BY <1>8 DEF Call
  <2> HIDE DEF e
  <2> QED
    BY <2>1
<1> HIDE DEF c, e
<1>11. /\ Len(t) = n + 1 /\ t[n + 1] = e /\ t[n] = c
       /\ \A i \in 1..n : i # n => t[i] = stack[i]
  <2>1. /\ Listed(s) /\ Len(s) = n /\ s[n] = c
        /\ \A i \in 1..n : i # n => s[i] = stack[i]
    <3>1. Listed(stack) /\ s = WithTop(stack, c)
      BY <1>3 DEF CallsNest
    <3> HIDE DEF s
    <3> QED
      BY <1>1, <3>1, TopReplaced
  <2> HIDE DEF s, t, n
  <2>2. PICK S : s \in Seq(S)
    BY <2>1 DEF Listed
  <2> DEFINE T == S \cup {e}
  <2>3. s \in Seq(T) /\ e \in T
    BY <2>2
  <2> HIDE DEF T
  <2>4. Len(t) = n + 1 /\ t[n + 1] = e /\ \A i \in 1..n : t[i] = s[i]
    BY <1>3, <1>5, <2>1, <2>3
  <2> QED
    BY <1>3, <2>1, <2>4
<1>12. Top' = e
  BY <1>11 DEF Top
<1>13. TopRight(Top) /\ \A i \in 1..(n - 1) : WaitsFor(stack[i], Top.path[i])
  BY <1>1 DEF MapsInv
<1>14. DatasetsRight(e, {}) /\ GroupsRight(e, {})
  <2>1. DOMAIN EmptyMap = {}
    BY DEF EmptyMap
  <2>2. Outside(GroupAt(q)) \ DOMAIN GroupAt(q).datasets = {}
    BY DEF Outside
  <2> QED
    BY <1>10, <2>1, <2>2 DEF DatasetsRight, GroupsRight
<1>15. WaitsFor(c, g)
  <2>1. DatasetsRight(c, {})
    BY <1>1, <1>6, <1>7, <1>13 DEF TopRight, DatasetsRight
  <2>2. GroupsRight(c, {g})
    BY <1>2, <1>6, <1>7, <1>13 DEF TopRight, GroupsRight
  <2> QED
    BY <1>6, <2>1, <2>2 DEF WaitsFor
<1>16. ASSUME NEW i \in 1..n PROVE WaitsFor(t[i], Top'.path[i])
  <2>1. CASE i = n
    BY <1>9, <1>10, <1>11, <1>12, <1>15, <2>1
  <2>2. CASE i # n
    <3>1. i \in 1..(n - 1)
      BY <1>3, <2>2
    <3>2. t[i] = stack[i] /\ Top'.path[i] = Top.path[i]
      BY <1>9, <1>10, <1>11, <1>12, <2>2, <3>1
    <3> QED
      BY <1>13, <3>1, <3>2
  <2> QED
    BY <2>1, <2>2
<1>17. ASSUME NEW i \in 1..(Len(stack') - 1) PROVE WaitsFor(stack[i], Top.path[i])'
  <2>1. i \in 1..n
    BY <1>3, <1>11
  <2>2. WaitsFor(stack'[i], Top'.path[i])
    BY <1>16, <2>1
  <2> QED
    BY <1>1, <2>2, SameMaps
<1>18. TopRight(Top)'
  <2>1. DatasetsRight(e, UnderWay') /\ GroupsRight(e, {}) /\ UnderWay' \cap e.left = {}
    BY <1>1, <1>14
  <2>2. DatasetsRight(Top', UnderWay') /\ GroupsRight(Top', {}) /\ UnderWay' \cap Top'.left = {}
    BY <1>12, <2>1
  <2> QED
    BY <1>1, <2>2, SameMaps DEF TopRight
<1>19. pc' # "done"
  BY <1>1
<1> QED
  BY <1>17, <1>18, <1>19 DEF MapsInv

\* What was filled for a group is put into the map of the call that waited for it.
LEMMA AscendMaps == IndexInv /\ MapsInv /\ Ascend => MapsInv'
<1> SUFFICES ASSUME IndexInv, MapsInv, Ascend PROVE MapsInv'
  OBVIOUS
<1> DEFINE n == Len(stack)
           t == stack'
           r == SubSeq(stack, 1, Len(stack) - 1)
<1>1. /\ pc = "idle" /\ stack # << >> /\ WalkInv /\ tree' = tree /\ pc' = pc /\ n > 1
      /\ UnderWay' = {} /\ UnderWay = {} /\ Top.left = {} /\ Top.subgroups = {}
  BY DEF Ascend, GroupDone, IndexInv, WalkInv, UnderWay, Indexing, datasetVars
<1>2. /\ CallsNest /\ IsCall(Top) /\ Top.path \in Seq(GroupNames) /\ Top.path \in GroupPaths
      /\ Len(Top.path) = n - 1 /\ n \in Nat
  BY <1>1, TopGroup, TopIs, PathSeq DEF GroupPaths
<1>3. PICK e, g, x : /\ e = Entry /\ g = Top.path[Len(Top.path)]
                     /\ x = Insert(stack[n - 1].groups, g, e)
  OBVIOUS
<1>4. /\ Listed(r) /\ Len(r) = n - 1 /\ r # << >>
      /\ \A i \in 1..(n - 1) : r[i] = stack[i]
  <2>1. PICK S : stack \in Seq(S)
    BY <1>2 DEF CallsNest, Listed
  <2>2. n - 1 \in 0..n
    BY <1>1, <1>2
  <2>3. r \in Seq(S) /\ Len(r) = n - 1 /\ \A i \in 1..(n - 1) : r[i] = stack[i]
    BY <2>1, <2>2, PrefixOf
  <2> HIDE DEF r
  <2>4. Listed(r)
    BY <2>3 DEF Listed
  <2>5. r # << >>
    BY <1>1, <1>2, <2>3
  <2> QED
    BY <2>3, <2>4, <2>5
<1> DEFINE b == stack[n - 1]
           c == [b EXCEPT !.groups = x]
<1>5. n - 1 \in 1..(n - 1) /\ n - 1 \in 1..n /\ r[n - 1] = b
  BY <1>1, <1>2, <1>4
<1>6. t = WithTop(r, c)
  <2>1. t = [r EXCEPT ![n - 1].groups = Insert(@, Top.path[Len(Top.path)], Entry)]
    BY DEF Ascend
  <2> HIDE DEF r
  <2>2. t = [r EXCEPT ![n - 1] = [r[n - 1] EXCEPT !.groups = Insert(@, g, e)]]
    BY <1>3, <2>1
  <2>3. t = [r EXCEPT ![n - 1] = c]
    BY <1>3, <1>5, <2>2
  <2> QED
    BY <1>4, <2>3 DEF WithTop
<1>7. /\ IsCall(b) /\ c.path = b.path /\ c.left = b.left /\ c.subgroups = b.subgroups
      /\ c.datasets = b.datasets /\ c.groups = x
  <2>1. IsCall(b)
    BY <1>2, <1>5 DEF CallsNest
  <2> HIDE DEF b
  <2> QED
    BY <2>1, CallFilled, MapsOfFilled
<1>8. b.path = SubSeq(Top.path, 1, n - 2) /\ Len(b.path) = n - 2
  <2>1. \A i \in 1..n : stack[i].path = SubSeq(Top.path, 1, i - 1) /\ Len(stack[i].path) = i - 1
    BY <1>2 DEF CallsNest
  <2>2. (n - 1) - 1 = n - 2
    BY <1>2
  <2> HIDE DEF n
  <2> QED
    BY <1>5, <2>1, <2>2
<1>9. b.groups = stack[n - 1].groups /\ WaitsFor(b, g) /\ TopRight(Top)
      /\ \A i \in 1..(n - 1) : WaitsFor(stack[i], Top.path[i])
  <2>1. TopRight(Top) /\ \A i \in 1..(n - 1) : WaitsFor(stack[i], Top.path[i])
    BY <1>1 DEF MapsInv
  <2> QED
    BY <1>2, <1>3, <1>5, <2>1
<1> HIDE DEF c, b
<1>10. /\ Len(t) = n - 1 /\ t[n - 1] = c /\ t # << >>
       /\ \A i \in 1..(n - 1) : i # n - 1 => t[i] = stack[i]
  <2>1. /\ Len(t) = Len(r) /\ t[Len(r)] = c /\ t # << >>
        /\ \A i \in 1..Len(r) : i # Len(r) => t[i] = r[i]
    <3> HIDE DEF t, r
    <3> QED
      BY SMTT(30), <1>4, <1>6, TopReplaced
  <2> HIDE DEF t, r
  <2> QED
    BY <1>4, <2>1
<1>11. Top' = c
  BY <1>10 DEF Top
<1>12. /\ g \in DOMAIN GroupAt(b.path).groups /\ Append(b.path, g) = Top.path
  <2>1. n - 1 \in 1..Len(Top.path) /\ (n - 1) - 1 = n - 2 /\ g = Top.path[n - 1]
    BY SMTT(30), <1>1, <1>2, <1>3
  <2>2. g \in DOMAIN GroupIn(tree, SubSeq(Top.path, 1, (n - 1) - 1)).groups
    BY <1>2, <2>1, PathsAre DEF GroupPaths
  <2>3. SubSeq(Top.path, 1, n - 1) = Append(SubSeq(Top.path, 1, (n - 1) - 1), Top.path[n - 1])
    BY <1>2, <2>1, PrefixNext
  <2>4. SubSeq(Top.path, 1, Len(Top.path)) = Top.path
    BY <1>2, WholePrefix
  <2> QED
    BY <1>2, <1>8, <2>1, <2>2, <2>3, <2>4 DEF GroupAt
<1>13. Mirrors(e, Append(b.path, g))
  <2>1. DatasetsRight(Top, {}) /\ GroupsRight(Top, {})
    BY <1>1, <1>9 DEF TopRight
  <2>2. Mirrors(e, Top.path)
    BY <1>1, <1>2, <1>3, <2>1, EntryMirrors
  <2> QED
    BY <1>12, <2>2
<1>14. /\ DOMAIN b.groups = DOMAIN GroupAt(b.path).groups \ (b.subgroups \cup {g})
       /\ \A h \in DOMAIN b.groups : Mirrors(b.groups[h], Append(b.path, h))
       /\ g \notin b.subgroups /\ DatasetsRight(b, {})
  BY <1>9 DEF WaitsFor, GroupsRight
<1>15. /\ DOMAIN x = DOMAIN b.groups \cup {g} /\ x[g] = e
       /\ \A h \in DOMAIN b.groups : h # g => x[h] = b.groups[h]
  <2>1. PICK a : a = b.groups
    OBVIOUS
  <2>2. x = Insert(a, g, e)
    BY <1>3, <1>9, <2>1
  <2>3. DOMAIN x = DOMAIN a \cup {g} /\ x[g] = e /\ \A h \in DOMAIN a : h # g => x[h] = a[h]
    BY <2>2 DEF Insert
  <2> QED
    BY <2>1, <2>3
<1>16. GroupsRight(c, {})
  <2>1. DOMAIN x = DOMAIN GroupAt(b.path).groups \ b.subgroups
    BY <1>12, <1>14, <1>15
  <2>2. \A h \in DOMAIN x : Mirrors(x[h], Append(b.path, h))
    BY <1>13, <1>14, <1>15
  <2> QED
    BY <1>7, <2>1, <2>2 DEF GroupsRight
<1>17. DatasetsRight(c, {})
  BY <1>7, <1>14 DEF DatasetsRight
<1>18. ASSUME NEW i \in 1..(Len(stack') - 1) PROVE WaitsFor(stack[i], Top.path[i])'
  <2>1. i \in 1..(n - 2) /\ i \in 1..(n - 1) /\ i # n - 1
    BY <1>1, <1>2, <1>10
  <2>2. t[i] = stack[i]
    BY <1>10, <2>1
  <2>3. c.path[i] = Top.path[i]
    <3>1. n - 2 \in 0..Len(Top.path)
      BY <1>1, <1>2
    <3>2. SubSeq(Top.path, 1, n - 2)[i] = Top.path[i]
      BY <1>2, <2>1, <3>1, PrefixOf
    <3> QED
      BY <1>7, <1>8, <3>2
  <2>4. WaitsFor(stack'[i], Top'.path[i])
    BY <1>9, <1>11, <2>1, <2>2, <2>3
  <2> QED
    BY <1>1, <2>4, SameMaps
<1>19. TopRight(Top)'
  <2>1. DatasetsRight(Top', UnderWay') /\ GroupsRight(Top', {}) /\ UnderWay' \cap Top'.left = {}
    BY <1>1, <1>11, <1>16, <1>17
  <2> QED
    BY <1>1, <2>1, SameMaps DEF TopRight
<1>20. pc' # "done"
  BY <1>1
<1> QED
  BY <1>18, <1>19, <1>20 DEF MapsInv

\* A step of a dataset fills no map,
LEMMA IndexMaps == IndexInv /\ MapsInv /\ Index /\ UNCHANGED groupVars => MapsInv'
<1> SUFFICES ASSUME IndexInv, MapsInv, Index, UNCHANGED groupVars PROVE MapsInv'
  OBVIOUS
<1>1. tree' = tree /\ stack' = stack /\ member' = member
  BY DEF groupVars
<1>2. pc \in Indexing /\ pc' \in Indexing \cup {"rejected", "failed"}
  BY DEF Index, ReadFilter, UnsupportedFilter, FiltersRead, Contiguous, Chunked,
         UnsupportedLayout, Visit, Visited, Sort, Unexpected, LayOut, LibraryFails, Reject, Indexing
<1>3. pc' # "done" /\ "rejected" \notin Indexing \cup {"idle"} /\ "failed" \notin Indexing \cup {"idle"}
  BY <1>2 DEF Indexing
<1>4. CASE pc' \notin Indexing \/ stack = << >>
  BY <1>1, <1>2, <1>3, <1>4 DEF MapsInv
<1>5. CASE pc' \in Indexing /\ stack # << >>
  <2>1. UnderWay' = UnderWay /\ Top' = Top
    BY <1>1, <1>2, <1>5 DEF UnderWay, Top
  <2>2. TopRight(Top) /\ \A i \in 1..(Len(stack) - 1) : WaitsFor(stack[i], Top.path[i])
    BY <1>2, <1>5 DEF MapsInv
  <2>3. DatasetsRight(Top', UnderWay') /\ GroupsRight(Top', {}) /\ UnderWay' \cap Top'.left = {}
    BY <2>1, <2>2 DEF TopRight
  <2>4. TopRight(Top)'
    BY <1>1, <2>3, SameMaps DEF TopRight
  <2>5. ASSUME NEW i \in 1..(Len(stack') - 1) PROVE WaitsFor(stack[i], Top.path[i])'
    <3>1. WaitsFor(stack'[i], Top'.path[i])
      BY <1>1, <2>1, <2>2
    <3> QED
      BY <1>1, <3>1, SameMaps
  <2> QED
    BY <1>3, <2>4, <2>5 DEF MapsInv
<1> QED
  BY <1>4, <1>5

\* and the walk that ends, or a dataset that is indexed by itself, has none to fill.
LEMMA OtherMaps ==
  MapsInv /\ (RankPanics \/ IndexAlone \/ ListFails) => MapsInv'
<1> SUFFICES ASSUME MapsInv, RankPanics \/ IndexAlone \/ ListFails PROVE MapsInv'
  OBVIOUS
<1>1. CASE RankPanics
  <2>1. pc' = "panicked"
    BY <1>1 DEF RankPanics
  <2> QED
    BY <2>1 DEF MapsInv, Indexing
<1>2. CASE ListFails
  <2>1. pc' = "failed"
    BY <1>2 DEF ListFails
  <2> QED
    BY <2>1 DEF MapsInv, Indexing
<1>3. CASE IndexAlone
  <2>1. stack' = << >> /\ pc' = "filters"
    BY <1>3 DEF IndexAlone, Open
  <2> QED
    BY <2>1 DEF MapsInv
<1> QED
  BY <1>1, <1>2, <1>3

\* The flags are set by the filters alone.
LEMMA FlagsStay ==
  FlagsInv /\ UNCHANGED <<shuffle, gzip>> /\ pc' \in {"idle", "done", "failed", "panicked"}
  => FlagsInv'
BY DEF FlagsInv

\* None is set when a dataset is opened.
LEMMA FlagsOpen ==
  ASSUME NEW d, Open(d)
  PROVE  FlagsInv'
<1>1. f' = 1 /\ shuffle' = FALSE /\ gzip' = FALSE /\ pc' = "filters"
  BY DEF Open
<1>2. \A k : k \notin 1..(f' - 1)
  BY <1>1
<1> QED
  BY <1>1, <1>2 DEF FlagsInv, Uses

\* The flags are right after every step.
LEMMA FlagsNext == IndexInv /\ FlagsInv /\ [Next]_vars => FlagsInv'
<1> SUFFICES ASSUME IndexInv, FlagsInv, [Next]_vars PROVE FlagsInv'
  OBVIOUS
<1>1. CASE UNCHANGED vars
  BY <1>1 DEF vars, datasetVars, FlagsInv, Uses
<1>2. CASE Index
  BY <1>2, FlagsStep DEF IndexInv
<1>3. CASE OpenMember \/ IndexAlone
  BY <1>3, FlagsOpen DEF OpenMember, IndexAlone
<1>4. CASE Skip \/ Descend \/ Ascend
  <2>1. pc = "idle" /\ UNCHANGED <<shuffle, gzip, pc>>
    BY <1>4 DEF Skip, Descend, Ascend, GroupDone, datasetVars
  <2> QED
    BY <2>1, FlagsStay
<1>5. CASE RankPanics \/ Collect \/ Finish \/ ListFails
  BY <1>5, FlagsStay DEF RankPanics, Collect, Finish, ListFails
<1> QED
  BY <1>1, <1>2, <1>3, <1>4, <1>5 DEF Next

\* The maps are right after every step.
LEMMA MapsNext == IndexInv /\ FlagsInv /\ MapsInv /\ [Next]_vars => MapsInv'
<1> SUFFICES ASSUME IndexInv, FlagsInv, MapsInv, [Next]_vars PROVE MapsInv'
  OBVIOUS
<1>1. CASE UNCHANGED vars
  <2>1. /\ tree' = tree /\ stack' = stack /\ index' = index
        /\ Top' = Top /\ pc' = pc /\ UnderWay' = UnderWay
    BY <1>1 DEF vars, groupVars, datasetVars, Top, UnderWay
  <2>2. (pc = "done" => Mirrors(index, << >>))'
    BY <2>1, SameMaps DEF MapsInv
  <2>3. ASSUME stack' # << >>, pc' \in Indexing \cup {"idle"}
        PROVE  /\ TopRight(Top)'
               /\ \A i \in 1..(Len(stack') - 1) : WaitsFor(stack[i], Top.path[i])'
    <3>1. TopRight(Top) /\ \A i \in 1..(Len(stack) - 1) : WaitsFor(stack[i], Top.path[i])
      BY <2>1, <2>3 DEF MapsInv
    <3>2. DatasetsRight(Top', UnderWay') /\ GroupsRight(Top', {}) /\ UnderWay' \cap Top'.left = {}
      BY <2>1, <3>1 DEF TopRight
    <3>3. TopRight(Top)'
      BY <2>1, <3>2, SameMaps DEF TopRight
    <3>4. ASSUME NEW i \in 1..(Len(stack') - 1) PROVE WaitsFor(stack[i], Top.path[i])'
      <4>1. WaitsFor(stack'[i], Top'.path[i])
        BY <2>1, <3>1
      <4> QED
        BY <2>1, <4>1, SameMaps
    <3> QED
      BY <3>3, <3>4
  <2> QED
    BY <2>2, <2>3 DEF MapsInv
<1>2. CASE Next
  BY <1>2, SkipMaps, OpenMaps, CollectMaps, DescendMaps, AscendMaps, FinishMaps, OtherMaps,
     IndexMaps DEF Next
<1> QED
  BY <1>1, <1>2

\* At the start nothing is done.
LEMMA MapsInit == Init => FlagsInv /\ MapsInv
<1> SUFFICES ASSUME Init PROVE FlagsInv /\ MapsInv
  OBVIOUS
<1> DEFINE c == Call(<< >>, tree)
<1>1. /\ pc = "idle" /\ shuffle = FALSE /\ gzip = FALSE /\ stack = <<c>>
  BY DEF Init, InitDataset
<1>2. FlagsInv
  BY <1>1 DEF FlagsInv
<1>3. GroupAt(<< >>) = tree
  BY RootPath DEF GroupAt
<1>4. /\ c.path = << >> /\ c.left = DOMAIN tree.datasets /\ c.subgroups = DOMAIN tree.groups
      /\ c.datasets = EmptyMap /\ c.groups = EmptyMap
  BY DEF Call
<1> HIDE DEF c
<1>5. Len(stack) = 1 /\ Top = c
  BY <1>1 DEF Top
<1>6. UnderWay = {}
  BY <1>1 DEF UnderWay, Indexing
<1>7. DOMAIN EmptyMap = {}
  BY DEF EmptyMap
<1>8. Outside(tree) \subseteq DOMAIN tree.datasets
  BY DEF Outside
<1>9. DatasetsRight(c, UnderWay)
  BY <1>3, <1>4, <1>6, <1>7, <1>8 DEF DatasetsRight
<1>10. GroupsRight(c, {})
  BY <1>3, <1>4, <1>7 DEF GroupsRight
<1>11. TopRight(Top)
  BY <1>5, <1>6, <1>9, <1>10 DEF TopRight
<1>12. \A i : i \notin 1..(Len(stack) - 1)
  BY <1>5
<1> QED
  BY <1>1, <1>2, <1>11, <1>12 DEF MapsInv

\* For every file: in a finished index each dataset that has values outside of the
\* header is found under its path, from the root and from every group, and nothing
\* else is found, in whatever order the walk came by the members (index.rs:132, 149).
THEOREM IndexFindsByPath == Spec => []FindsByPath
<1>1. IndexInv /\ MapsInv => FindsByPath
  <2>1. CASE pc = "done"
    BY <2>1, RightMapsFind DEF IndexInv, WalkInv, MapsInv
  <2>2. CASE pc # "done"
    BY <2>2 DEF FindsByPath
  <2> QED
    BY <2>1, <2>2
<1> QED
  BY <1>1, IndexInit, IndexNext, MapsInit, FlagsNext, MapsNext, PTL DEF Spec

-------------------------------------------------------------------------------
(***************************************************************************)
(* The filters of a pipeline, and how they are undone.                     *)
(***************************************************************************)
\* One filter.
Filtered(name, b, dsz) == IF name = "shuffle" THEN Shuffled(b, dsz) ELSE Deflated(b)

\* The bytes after each filter of a pipeline.
IsPipeline(g, fs, b, dsz) ==
  g = [n \in 0..Len(fs) |->
         IF n = 0 THEN b
         ELSE IF fs[n] = "shuffle" THEN Shuffled(g[n - 1], dsz) ELSE Deflated(g[n - 1])]

\* What is stored is what is left after the last filter.
LEMMA StoredIs ==
  ASSUME NEW fs, NEW b, NEW dsz, \E g : IsPipeline(g, fs, b, dsz)
  PROVE  \E g : IsPipeline(g, fs, b, dsz) /\ Stored(fs, b, dsz) = g[Len(fs)]
<1> DEFINE g == CHOOSE h : IsPipeline(h, fs, b, dsz)
<1>1. IsPipeline(g, fs, b, dsz)
  BY Zenon
<1>2. Stored(fs, b, dsz) = g[Len(fs)]
  BY Zenon DEF Stored, IsPipeline
<1> QED
  BY <1>1, <1>2, Zenon

\* No filter,
LEMMA StoredNone ==
  ASSUME NEW b, NEW dsz
  PROVE  Stored(<< >>, b, dsz) = b
<1> DEFINE fs == << >>
           g  == [n \in 0..0 |-> b]
<1>1. Len(fs) = 0 /\ \A n \in 0..0 : n = 0
  OBVIOUS
<1>2. IsPipeline(g, fs, b, dsz)
  BY <1>1, Zenon DEF IsPipeline
<1> HIDE DEF fs, g
<1>3. PICK h : IsPipeline(h, fs, b, dsz) /\ Stored(fs, b, dsz) = h[Len(fs)]
  BY <1>2, StoredIs, Zenon
<1>4. 0 \in 0..0
  OBVIOUS
<1>5. h[0] = b
  BY <1>1, <1>3, <1>4, Zenon DEF IsPipeline
<1> QED
  BY <1>1, <1>3, <1>5, Zenon DEF fs

\* one,
LEMMA StoredOne ==
  ASSUME NEW x, NEW b, NEW dsz
  PROVE  Stored(<<x>>, b, dsz) = Filtered(x, b, dsz)
<1> DEFINE fs == <<x>>
           c  == Filtered(x, b, dsz)
           g  == [n \in 0..1 |-> IF n = 0 THEN b ELSE c]
<1>1. Len(fs) = 1 /\ fs[1] = x
  OBVIOUS
<1>2. 0 \in 0..1 /\ 1 \in 0..1 /\ 1 - 1 = 0 /\ 1 # 0 /\ \A n \in 0..1 : n = 0 \/ n = 1
  OBVIOUS
<1>3. g[0] = b /\ g[1] = c
  BY <1>2, Zenon
<1>4. IsPipeline(g, fs, b, dsz)
  <2> DEFINE S(n) == IF n = 0 THEN b
                     ELSE IF fs[n] = "shuffle" THEN Shuffled(g[n - 1], dsz) ELSE Deflated(g[n - 1])
  <2>1. S(0) = b
    BY Zenon
  <2>2. S(1) = c
    <3> HIDE DEF g, fs
    <3> QED
      BY <1>1, <1>2, <1>3, Zenon DEF Filtered
  <2>3. \A n \in 0..1 : g[n] = S(n)
    <3> HIDE DEF g, S
    <3> QED
      BY <1>2, <1>3, <2>1, <2>2, Zenon
  <2>4. g = [n \in 0..1 |-> g[n]]
    OBVIOUS
  <2>5. g = [n \in 0..1 |-> S(n)]
    <3> HIDE DEF g, S
    <3> QED
      BY <2>3, <2>4, Zenon
  <2> HIDE DEF g, fs
  <2> QED
    BY <1>1, <2>5, Zenon DEF IsPipeline
<1> HIDE DEF fs, g
<1>5. PICK h : IsPipeline(h, fs, b, dsz) /\ Stored(fs, b, dsz) = h[Len(fs)]
  BY <1>4, StoredIs, Zenon
<1>6. h = [n \in 0..1 |-> IF n = 0 THEN b
             ELSE IF fs[n] = "shuffle" THEN Shuffled(h[n - 1], dsz) ELSE Deflated(h[n - 1])]
  BY <1>1, <1>5, Zenon DEF IsPipeline
<1>7. h[0] = b /\ h[1] = Filtered(fs[1], h[0], dsz)
  BY <1>2, <1>6, Zenon DEF Filtered
<1> QED
  BY <1>1, <1>5, <1>7, Zenon DEF fs

\* or two, one after the other.
LEMMA StoredTwo ==
  ASSUME NEW x, NEW y, NEW b, NEW dsz
  PROVE  Stored(<<x, y>>, b, dsz) = Filtered(y, Filtered(x, b, dsz), dsz)
<1> DEFINE fs == <<x, y>>
           c  == Filtered(x, b, dsz)
           e  == Filtered(y, c, dsz)
           g  == [n \in 0..2 |-> IF n = 0 THEN b ELSE IF n = 1 THEN c ELSE e]
<1>1. Len(fs) = 2 /\ fs[1] = x /\ fs[2] = y
  OBVIOUS
<1>2. /\ 0 \in 0..2 /\ 1 \in 0..2 /\ 2 \in 0..2 /\ 1 - 1 = 0 /\ 2 - 1 = 1 /\ 1 # 0 /\ 2 # 0 /\ 2 # 1
      /\ \A n \in 0..2 : n = 0 \/ n = 1 \/ n = 2
  OBVIOUS
<1>3. g[0] = b /\ g[1] = c /\ g[2] = e
  <2> HIDE DEF c, e
  <2> QED
    BY <1>2, Zenon
<1>4. IsPipeline(g, fs, b, dsz)
  <2> DEFINE S(n) == IF n = 0 THEN b
                     ELSE IF fs[n] = "shuffle" THEN Shuffled(g[n - 1], dsz) ELSE Deflated(g[n - 1])
  <2>1. S(0) = b
    BY Zenon
  <2>2. S(1) = c
    <3> HIDE DEF g, fs
    <3> QED
      BY <1>1, <1>2, <1>3, Zenon DEF Filtered
  <2>3. S(2) = e
    <3> HIDE DEF g, fs, c
    <3> QED
      BY <1>1, <1>2, <1>3, Zenon DEF Filtered
  <2>4. \A n \in 0..2 : g[n] = S(n)
    <3> HIDE DEF g, S
    <3> QED
      BY <1>2, <1>3, <2>1, <2>2, <2>3, Zenon
  <2>5. g = [n \in 0..2 |-> g[n]]
    OBVIOUS
  <2>6. g = [n \in 0..2 |-> S(n)]
    <3> HIDE DEF g, S
    <3> QED
      BY <2>4, <2>5, Zenon
  <2> HIDE DEF g, fs
  <2> QED
    BY <1>1, <2>6, Zenon DEF IsPipeline
<1> HIDE DEF fs, g
<1>5. PICK h : IsPipeline(h, fs, b, dsz) /\ Stored(fs, b, dsz) = h[Len(fs)]
  BY <1>4, StoredIs, Zenon
<1>6. h = [n \in 0..2 |-> IF n = 0 THEN b
             ELSE IF fs[n] = "shuffle" THEN Shuffled(h[n - 1], dsz) ELSE Deflated(h[n - 1])]
  BY <1>1, <1>5, Zenon DEF IsPipeline
<1>7. h[0] = b /\ h[1] = Filtered(fs[1], h[0], dsz) /\ h[2] = Filtered(fs[2], h[1], dsz)
  BY <1>2, <1>6, Zenon DEF Filtered
<1> QED
  BY <1>1, <1>5, <1>7, Zenon DEF fs
\* Unshuffling takes back what shuffling did.
LEMMA Unshuffles ==
  ASSUME NEW S, NEW n \in Nat, NEW w \in Nat \ {0}, NEW src \in Seq(S), Len(src) = n * w
  PROVE  /\ Shuffled(src, w) \in Seq(S) /\ Len(Shuffled(src, w)) = Len(src)
         /\ Unshuffled(Shuffled(src, w), w) = src
<1> DEFINE m == Len(src)
           At(p) == (p % n) * w + (p \div n)
           To(p) == (p % w) * n + (p \div w)
           b == Shuffled(src, w)
<1>1. m \in Nat /\ m = n * w /\ m = w * n
  OBVIOUS
<1>2. m \div w = n
  BY <1>1
<1>3. ASSUME NEW k \in 1..m
      PROVE  /\ At(k - 1) + 1 \in 1..m /\ To(k - 1) + 1 \in 1..m
             /\ At(To(k - 1)) + 1 = k
  <2> DEFINE p == k - 1
  <2>1. p \in 0..(n * w - 1) /\ p \in 0..(w * n - 1) /\ p \in Nat
    BY <1>1
  <2>2. n \in Nat \ {0}
    <3>1. n # 0
      <4>1. SUFFICES ASSUME n = 0 PROVE FALSE
        OBVIOUS
      <4>2. n * w = 0
        BY <4>1
      <4> QED
        BY <2>1, <4>2
    <3> QED
      BY <3>1
  <2> HIDE DEF p
  <2> DEFINE q == p \div w
             a == p % w
             r == p \div n
             c == p % n
  <2>3. q \in 0..(n - 1) /\ a \in 0..(w - 1) /\ p = q * w + a
    BY <2>1, PartOf, PartsOf
  <2>4. r \in 0..(w - 1) /\ c \in 0..(n - 1)
    BY <2>1, <2>2, PartOf, PartsOf
  <2> HIDE DEF q, a, r, c
  <2>5. c * w + r \in 0..(n * w - 1)
    BY <2>2, <2>4, PartBelow
  <2>6. a * n + q \in 0..(w * n - 1) /\ (a * n + q) \div n = a /\ (a * n + q) % n = q
    BY <2>2, <2>3, PartBelow, Parts
  <2>7. To(p) = a * n + q /\ At(p) = c * w + r
    BY DEF q, a, r, c
  <2>8. At(To(p)) = q * w + a
    BY <2>6, <2>7
  <2>9. At(p) \in 0..(m - 1) /\ To(p) \in 0..(m - 1)
    BY <1>1, <2>5, <2>6, <2>7
  <2> HIDE DEF At, To, m
  <2>10. At(p) + 1 \in 1..m /\ To(p) + 1 \in 1..m
    BY <1>1, <2>9
  <2>11. At(To(p)) + 1 = k
    BY <2>3, <2>8 DEF p
  <2> QED
    BY <2>10, <2>11 DEF p
<1>4. b = [k \in 1..m |-> src[At(k - 1) + 1]]
  BY <1>2 DEF Shuffled
<1> HIDE DEF b
<1>5. \A k \in 1..m : src[At(k - 1) + 1] \in S /\ b[k] = src[At(k - 1) + 1]
  <2> TAKE k \in 1..m
  <2>1. At(k - 1) + 1 \in 1..m
    BY <1>3
  <2> DEFINE i == At(k - 1) + 1
  <2>2. i \in 1..Len(src)
    BY <2>1
  <2> HIDE DEF i
  <2>3. src[i] \in S
    BY <2>2
  <2>4. b[k] = src[At(k - 1) + 1]
    <3> HIDE DEF m, At
    <3> QED
      BY <1>4
  <2> QED
    BY <2>3, <2>4 DEF i
<1>6. b \in Seq(S) /\ Len(b) = m
  <2> HIDE DEF m, At
  <2>1. b \in [1..m -> S]
    BY <1>4, <1>5
  <2> QED
    BY <1>1, <2>1
<1>7. Unshuffled(b, w) = [k \in 1..m |-> b[To(k - 1) + 1]]
  BY <1>2, <1>6 DEF Unshuffled
<1>8. \A k \in 1..m : b[To(k - 1) + 1] = src[k]
  <2> TAKE k \in 1..m
  <2> DEFINE j == To(k - 1) + 1
  <2>1. j \in 1..m /\ At(To(k - 1)) + 1 = k /\ j - 1 = To(k - 1)
    <3>1. To(k - 1) + 1 \in 1..m /\ At(To(k - 1)) + 1 = k
      BY <1>3
    <3> DEFINE y == To(k - 1)
    <3>2. y \in Int
      BY <1>1
    <3> HIDE DEF y
    <3>3. (y + 1) - 1 = y
      BY <3>2
    <3> QED
      BY <3>1, <3>3 DEF y
  <2>2. b[j] = src[At(j - 1) + 1]
    <3> HIDE DEF j, At, To, m
    <3> QED
      BY <1>5, <2>1
  <2> HIDE DEF j, At, To, m
  <2> QED
    BY <2>1, <2>2 DEF j
<1>9. src = [k \in 1..m |-> src[k]]
  OBVIOUS
<1>10. Unshuffled(b, w) = src
  <2> HIDE DEF b, To, m
  <2> QED
    BY <1>7, <1>8, <1>9
<1> QED
  BY <1>6, <1>10 DEF b

\* Inflating takes back what deflating did.
LEMMA Inflates ==
  ASSUME NEW S, NEW src \in Seq(S)
  PROVE  Inflated(Deflated(src)) = src
<1> DEFINE b == Deflated(src)
<1>1. CASE src = << >>
  <2>1. b = << >>
    BY <1>1 DEF Deflated
  <2> HIDE DEF b
  <2>2. Inflated(b) = << >>
    BY <2>1 DEF Inflated, Nothing
  <2> QED
    BY <1>1, <2>2 DEF b
<1>2. CASE src # << >>
  <2>1. Len(src) \in Nat /\ Len(src) > 0
    BY <1>2
  <2>2. b[1] = <<src, 1>>
    BY <2>1 DEF Deflated
  <2>3. b # << >>
    <3>1. b = [k \in 1..Len(src) |-> <<src, k>>]
      BY DEF Deflated
    <3>2. DOMAIN b = 1..Len(src) /\ 1 \in 1..Len(src)
      BY <2>1, <3>1
    <3>3. DOMAIN << >> = {}
      OBVIOUS
    <3> HIDE DEF b
    <3> QED
      BY <3>2, <3>3, Zenon
  <2>4. b[1][1] = src
    <3> HIDE DEF b
    <3> QED
      BY <2>2
  <2>5. b = Deflated(b[1][1])
    <3>1. b = Deflated(src)
      OBVIOUS
    <3> HIDE DEF b
    <3> QED
      BY <2>4, <3>1
  <2> HIDE DEF b
  <2>6. Inflated(b) = src
    BY <1>2, <2>3, <2>4, <2>5, Zenon DEF Inflated, Nothing
  <2> QED
    BY <2>6 DEF b
<1> QED
  BY <1>1, <1>2
\* Pipelines of two filters, of one after none, and of one before none.
LEMMA Joined ==
  ASSUME NEW x, NEW y
  PROVE  <<x>> \o <<y>> = <<x, y>> /\ << >> \o <<y>> = <<y>> /\ <<x>> \o << >> = <<x>>
<1> DEFINE S == {x, y}
           a == <<x>> \o <<y>>
           c == <<x, y>>
<1>1. <<x>> \in Seq(S) /\ <<y>> \in Seq(S) /\ c \in Seq(S)
  OBVIOUS
<1> HIDE DEF S
<1>2. a \in Seq(S) /\ Len(a) = 2 /\ a[1] = x /\ a[2] = y
  BY <1>1, ConcatProperties
<1>3. Len(c) = 2 /\ c[1] = x /\ c[2] = y
  OBVIOUS
<1> HIDE DEF a, c
<1>4. a = c
  BY <1>1, <1>2, <1>3, SeqEqual
<1>5. << >> \o <<y>> = <<y>> /\ <<x>> \o << >> = <<x>>
  BY <1>1, ConcatEmptySeq
<1> QED
  BY <1>4, <1>5 DEF a, c

\* The filters that two flags stand for.
FlagsFor(shuffled, gzipped, dsz) ==
  (IF shuffled /\ dsz > 1 THEN <<"shuffle">> ELSE << >>)
    \o (IF gzipped THEN <<"deflate">> ELSE << >>)

\* They are undone by decode_chunk, for every number and size of values.
LEMMA FlagsDecode ==
  ASSUME NEW n \in Nat, NEW dsz \in Nat, NEW gzipped \in BOOLEAN, NEW shuffled \in BOOLEAN,
         shuffled => dsz \in Sizes
  PROVE  DecodeChunk(Stored(FlagsFor(shuffled, gzipped, dsz), Written(n, dsz), dsz),
                     dsz, gzipped, shuffled) = Written(n, dsz)
<1> DEFINE S == {<< << >>, k>> : k \in Nat}
           bytes == Written(n, dsz)
           mixed == IF shuffled /\ dsz > 1 THEN Shuffled(bytes, dsz) ELSE bytes
           packed == IF gzipped THEN Deflated(mixed) ELSE mixed
           fs == FlagsFor(shuffled, gzipped, dsz)
<1>1. bytes \in Seq(S) /\ Len(bytes) = n * dsz
  <2> DEFINE m == n * dsz
  <2>1. m \in Nat
    OBVIOUS
  <2>2. bytes = [k \in 1..m |-> << << >>, k>>]
    BY DEF Written
  <2> HIDE DEF m, bytes
  <2>3. \A k \in 1..m : << << >>, k>> \in S
    OBVIOUS
  <2> HIDE DEF S
  <2>4. bytes \in [1..m -> S]
    BY <2>2, <2>3
  <2>5. bytes \in Seq(S) /\ Len(bytes) = m
    BY <2>1, <2>4
  <2> QED
    BY <2>5 DEF m
<1> HIDE DEF S, bytes
<1>2. /\ mixed \in Seq(S)
      /\ shuffled /\ dsz > 1 => /\ Unshuffled(mixed, dsz) = bytes
                                /\ Len(mixed) = Len(bytes)
      /\ ~(shuffled /\ dsz > 1) => mixed = bytes
  <2>1. CASE shuffled /\ dsz > 1
    <3>1. dsz \in Nat \ {0}
      BY <2>1
    <3>2. mixed = Shuffled(bytes, dsz)
      BY <2>1
    <3>3. /\ Shuffled(bytes, dsz) \in Seq(S) /\ Len(Shuffled(bytes, dsz)) = Len(bytes)
          /\ Unshuffled(Shuffled(bytes, dsz), dsz) = bytes
      BY <1>1, <3>1, Unshuffles
    <3> QED
      BY <2>1, <3>2, <3>3, Zenon
  <2>2. CASE ~(shuffled /\ dsz > 1)
    BY <1>1, <2>2, Zenon
  <2> QED
    BY <2>1, <2>2
<1>3. (IF gzipped THEN Inflated(packed) ELSE packed) = mixed
  <2> HIDE DEF mixed
  <2>1. Inflated(Deflated(mixed)) = mixed
    BY <1>2, Inflates
  <2> QED
    BY <2>1, Zenon
<1>4. Stored(fs, bytes, dsz) = packed
  <2>1. CASE shuffled /\ dsz > 1 /\ gzipped
    <3>1. fs = <<"shuffle">> \o <<"deflate">>
      BY <2>1, Zenon DEF FlagsFor
    <3>2. Stored(<<"shuffle", "deflate">>, bytes, dsz) = Deflated(Shuffled(bytes, dsz))
      BY StoredTwo DEF Filtered
    <3> QED
      BY <2>1, <3>1, <3>2, Joined, Zenon
  <2>2. CASE shuffled /\ dsz > 1 /\ ~gzipped
    <3>1. fs = <<"shuffle">> \o << >>
      BY <2>2, Zenon DEF FlagsFor
    <3>2. Stored(<<"shuffle">>, bytes, dsz) = Shuffled(bytes, dsz)
      BY StoredOne DEF Filtered
    <3> QED
      BY <2>2, <3>1, <3>2, Joined, Zenon
  <2>3. CASE ~(shuffled /\ dsz > 1) /\ gzipped
    <3>1. fs = << >> \o <<"deflate">>
      BY <2>3, Zenon DEF FlagsFor
    <3>2. Stored(<<"deflate">>, bytes, dsz) = Deflated(bytes)
      BY StoredOne DEF Filtered
    <3> QED
      BY <2>3, <3>1, <3>2, Joined, Zenon
  <2>4. CASE ~(shuffled /\ dsz > 1) /\ ~gzipped
    <3>1. fs = << >>
      BY <2>4 DEF FlagsFor
    <3> QED
      BY <2>4, <3>1, StoredNone
  <2> QED
    BY <2>1, <2>2, <2>3, <2>4
<1>5. DecodeChunk(packed, dsz, gzipped, shuffled) =
        IF shuffled /\ dsz > 1 THEN UnshuffledSized(mixed, dsz) ELSE mixed
  <2> HIDE DEF packed, mixed
  <2> QED
    BY <1>3, Zenon DEF DecodeChunk
<1>6. CASE shuffled /\ dsz > 1
  <2>1. dsz \in Sizes
    BY <1>6
  <2>2. DecodeChunk(packed, dsz, gzipped, shuffled) = UnshuffledSized(mixed, dsz)
    BY <1>5, <1>6, Zenon
  <2> HIDE DEF packed, mixed
  <2>3. CASE mixed = << >>
    <3>1. Len(bytes) = 0 /\ bytes = << >>
      <4>1. Len(mixed) = 0
        BY <2>3
      <4>2. Len(bytes) = 0
        BY <1>2, <1>6, <4>1
      <4> QED
        BY <1>1, <4>2
    <3>2. UnshuffledSized(mixed, dsz) = << >>
      BY <2>3, Zenon DEF UnshuffledSized, Nothing
    <3> QED
      BY <1>4, <2>2, <3>1, <3>2, Zenon DEF bytes, fs
  <2>4. CASE mixed # << >>
    <3>1. UnshuffledSized(mixed, dsz) = bytes
      BY <1>2, <1>6, <2>1, <2>4, Zenon DEF UnshuffledSized, Nothing
    <3> QED
      BY <1>4, <2>2, <3>1, Zenon DEF bytes, fs
  <2> QED
    BY <2>3, <2>4
<1>7. CASE ~(shuffled /\ dsz > 1)
  <2>1. DecodeChunk(packed, dsz, gzipped, shuffled) = mixed /\ mixed = bytes
    BY <1>2, <1>5, <1>7, Zenon
  <2> HIDE DEF packed, mixed
  <2> QED
    BY <1>4, <2>1, Zenon DEF bytes, fs
<1> QED
  BY <1>6, <1>7

\* A chunk to which just those filters were applied.
DecodesIfUndone ==
  pc = "indexed" =>
    \A n \in 1..Len(found) :
      LET bytes  == Written(Product(ChunkShape), file.dsize)
          stored == Stored(Applied(found[n].addr), bytes, file.dsize)
      IN Applied(found[n].addr) = Undone /\ (shuffle => file.dsize \in Sizes)
           => DecodeChunk(stored, file.dsize, gzip, shuffle) = bytes

\* The flags of the dataset are two like any others.
LEMMA UndoneDecodes ==
  ASSUME FileOk(file), shuffle \in BOOLEAN, gzip \in BOOLEAN
  PROVE  DecodesIfUndone
<1>1. Undone = FlagsFor(shuffle, gzip, file.dsize)
  BY Zenon DEF Undone, FlagsFor
<1>2. Product(ChunkShape) \in Nat
  <2>1. ChunkShape \in Seq(Nat)
    <3>1. file.shape \in Seq(Nat) /\ (IsChunked => file.chunk \in Seq(Nat \ {0}))
      BY DEF FileOk, IsChunked
    <3>2. \A c \in Seq(Nat \ {0}) : c \in Seq(Nat)
      BY SeqMonotonic
    <3> QED
      BY <3>1, <3>2, Zenon DEF ChunkShape
  <2> QED
    BY <2>1, ProductNat
<1>3. file.dsize \in Nat
  BY DEF FileOk
<1> DEFINE m == Product(ChunkShape)
           w == file.dsize
<1>4. (shuffle => w \in Sizes) =>
        DecodeChunk(Stored(FlagsFor(shuffle, gzip, w), Written(m, w), w), w, gzip, shuffle)
          = Written(m, w)
  <2> HIDE DEF m, w
  <2> QED
    BY <1>2, <1>3, FlagsDecode DEF m, w
<1> QED
  BY <1>1, <1>4, Zenon DEF DecodesIfUndone

\* For every file, shape of chunk and size of value: in an indexed dataset decode_chunk
\* gives back what was written of each chunk, if the filters that were applied to it are
\* those the two flags stand for, in that order, and the size is one that can be
\* unshuffled (reader/chunk.rs:48).
THEOREM UndoneIsDecoded == Spec => []DecodesIfUndone
<1>1. IndexInv /\ FlagsInv => DecodesIfUndone
  BY UndoneDecodes DEF IndexInv, DatasetInv, FlagsInv
<1> QED
  BY <1>1, IndexInit, IndexNext, MapsInit, FlagsNext, PTL DEF Spec
===============================================================================
