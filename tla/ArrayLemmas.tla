------------------------------- MODULE ArrayLemmas -------------------------------
(***************************************************************************)
(* Facts about the index arithmetic of Arrays that the proofs rest on:     *)
(* division with a remainder by a number that is not known, induction on   *)
(* the natural numbers, products, the places of the coordinates of a block *)
(* and, for Dataset, those of the chunks of a dataset in their grid.       *)
(***************************************************************************)
EXTENDS Dataset, WellFoundedInduction, TLAPS

\* A position is a quotient and a remainder.
LEMMA Parts ==
  ASSUME NEW q \in Int, NEW w \in Nat \ {0}, NEW b \in 0..(w - 1)
  PROVE  (q * w + b) \div w = q /\ (q * w + b) % w = b
OBVIOUS

\* And every position is of that form.
LEMMA PartsOf ==
  ASSUME NEW p \in Nat, NEW w \in Nat \ {0}
  PROVE  /\ p \div w \in Nat /\ p % w \in 0..(w - 1)
         /\ p = ((p \div w) * w) + (p % w)
OBVIOUS

\* A product of numbers of which none is zero is not.
LEMMA Positive ==
  ASSUME NEW a \in Nat \ {0}, NEW b \in Nat \ {0}
  PROVE  a * b \in Nat \ {0} /\ a * b = b * a
OBVIOUS

\* The position that a part is turned round to.
LEMMA Mirrored ==
  ASSUME NEW q \in Int, NEW w \in Nat \ {0}, NEW b \in 0..(w - 1)
  PROVE  ((q * w + b) \div w) * w + (w - 1 - ((q * w + b) % w)) = q * w + (w - 1 - b)
BY Parts

\* Of n parts of w positions each, the last is before n * w.
LEMMA PartBelow ==
  ASSUME NEW n \in Nat, NEW q \in 0..(n - 1), NEW w \in Nat \ {0}, NEW b \in 0..(w - 1)
  PROVE  q * w + b \in 0..(n * w - 1)
OBVIOUS

\* A place in n parts of w is in one of the n.
LEMMA PartOf ==
  ASSUME NEW n \in Nat, NEW w \in Nat \ {0}, NEW p \in 0..(n * w - 1)
  PROVE  p \div w \in 0..(n - 1)
OBVIOUS

\* Multiples are in the order of what is multiplied.
LEMMA TimesOrder ==
  ASSUME NEW a \in Nat, NEW b \in Nat, NEW w \in Nat
  PROVE  /\ a * w \in Nat
         /\ a < b => a * w + w <= b * w
         /\ a <= b => a * w <= b * w
<1>1. a * w \in Nat /\ b * w \in Nat
  OBVIOUS
<1>2. ASSUME a < b PROVE a * w + w <= b * w
  <2>1. b * w = (a * w + w) + (b - (a + 1)) * w
    OBVIOUS
  <2> DEFINE m == (b - (a + 1)) * w
  <2>2. m \in Nat
    BY <1>2
  <2> HIDE DEF m
  <2> QED
    BY <1>1, <2>1, <2>2 DEF m
<1>3. ASSUME a <= b PROVE a * w <= b * w
  BY <1>1, <1>2, <1>3
<1> QED
  BY <1>1, <1>2, <1>3

\* Multiplying by a number that is not zero keeps sums and order.
LEMMA ScaledBy ==
  ASSUME NEW w \in Nat \ {0}, NEW a \in Nat, NEW b \in Nat
  PROVE  /\ a * w \in Nat
         /\ (a + b) * w = a * w + b * w
         /\ a <= b => a * w <= b * w
         /\ a < b => a * w < b * w
<1>1. a * w \in Nat
  OBVIOUS
<1>2. (a + b) * w = a * w + b * w
  OBVIOUS
<1>3. a <= b => a * w <= b * w
  BY SMT
<1>4. a < b => a * w < b * w
  BY SMT
<1> QED
  BY <1>1, <1>2, <1>3, <1>4

-------------------------------------------------------------------------------
\* Induction on the natural numbers, of a set of them: what holds of which numbers
\* is a set that is defined where the lemma is used.
LEMMA SetInduction ==
  ASSUME NEW S \in SUBSET Nat, 0 \in S, \A n \in S : n + 1 \in S
  PROVE  S = Nat
<1> DEFINE T == Nat \ S
<1>1. SUFFICES ASSUME T # {} PROVE FALSE
  OBVIOUS
<1>2. PICK x \in T : \A y \in T : ~(<<y, x>> \in OpToRel(<, Nat))
  <2>1. T \subseteq Nat
    OBVIOUS
  <2> HIDE DEF T
  <2> QED
    BY WFMin, NatLessThanWellFounded, <1>1, <2>1, Zenon
<1>3. \A y \in T : ~ (y < x)
  BY <1>2 DEF OpToRel
<1>4. x \in Nat /\ x # 0 /\ x - 1 \in Nat
  OBVIOUS
<1>5. x - 1 \in S
  BY <1>3, <1>4
<1> QED
  BY <1>4, <1>5
\* A set of numbers that is not empty has a least one.
LEMMA Least ==
  ASSUME NEW S \in SUBSET Nat, S # {}
  PROVE  \E x \in S : \A y \in S : x <= y
<1>1. PICK x \in S : \A y \in S : ~(<<y, x>> \in OpToRel(<, Nat))
  BY WFMin, NatLessThanWellFounded, Zenon
<1>2. \A y \in S : ~(y < x)
  BY <1>1 DEF OpToRel
<1> QED
  BY <1>2

-------------------------------------------------------------------------------
(***************************************************************************)
(* Products of the elements of a sequence.                                 *)
(***************************************************************************)
\* There is a function that satisfies the recursion of SuffixProducts: from the
\* end, one element more at a time.
LEMMA SuffixProductsIs ==
  ASSUME NEW s \in Seq(Nat)
  PROVE  SuffixProducts(s) =
           [d \in 1..(Len(s) + 1) |-> IF d = Len(s) + 1 THEN 1 ELSE s[d] * SuffixProducts(s)[d + 1]]
<1> DEFINE n      == Len(s)
           N      == n + 1
           P(g,d) == g[d] = IF d = N THEN 1 ELSE s[d] * g[d + 1]
           Q(k)   == \E g : DOMAIN g = 1..N /\ \A d \in (N - k)..N : P(g, d)
           E      == {k \in Nat : k <= n => Q(k)}
<1>0. n \in Nat /\ N \in Nat /\ N = n + 1
  OBVIOUS
<1>1. 0 \in E
  <2> DEFINE g == [d \in 1..N |-> 1]
  <2>1. DOMAIN g = 1..N /\ \A d \in (N - 0)..N : P(g, d)
    BY <1>0
  <2> QED
    BY <2>1
<1>2. \A k \in E : k + 1 \in E
  <2> HIDE DEF Q
  <2> SUFFICES ASSUME NEW k \in E, k + 1 <= n PROVE Q(k + 1)
    OBVIOUS
  <2>0. k \in Nat /\ k <= n /\ Q(k)
    BY <1>0
  <2>1. PICK h : DOMAIN h = 1..N /\ \A d \in (N - k)..N : P(h, d)
    BY <2>0 DEF Q
  <2> DEFINE j == N - (k + 1)
             g == [d \in 1..N |-> IF d = j THEN s[j] * h[j + 1] ELSE h[d]]
  <2>2. /\ j \in 1..N /\ j # N /\ j + 1 \in 1..N /\ j + 1 # j /\ N # j
        /\ \A d \in j..N : d # j => d \in (N - k)..N /\ d \in 1..N
        /\ \A d \in (N - k)..N : d # N => d + 1 \in 1..N /\ d + 1 # j
    <3>1. j = N - (k + 1) /\ N \in Nat /\ k \in Nat /\ k + 2 <= N
      BY <1>0, <2>0
    <3> HIDE DEF N, j
    <3>2. j \in 1..N /\ j # N /\ j + 1 \in 1..N /\ j + 1 # j /\ N # j /\ N - k = j + 1
      BY <3>1
    <3>3. \A d \in j..N : d # j => d \in (N - k)..N /\ d \in 1..N
      BY <3>1, <3>2
    <3>4. \A d \in (N - k)..N : d # N => d + 1 \in 1..N /\ d + 1 # j
      BY <3>1, <3>2
    <3> QED
      BY <3>2, <3>3, <3>4
  <2>3. \A d \in 1..N : g[d] = IF d = j THEN s[j] * h[j + 1] ELSE h[d]
    OBVIOUS
  <2> HIDE DEF j, g, N
  <2>4. \A d \in j..N : P(g, d)
    <3> TAKE d \in j..N
    <3>1. CASE d = j
      <4>1. g[j] = s[j] * h[j + 1] /\ g[j + 1] = h[j + 1]
        BY <2>2, <2>3
      <4> QED
        BY <3>1, <4>1, <2>2
    <3>2. CASE d # j
      <4>1. d \in (N - k)..N /\ g[d] = h[d]
        BY <2>2, <2>3, <3>2
      <4>2. P(h, d)
        BY <2>1, <4>1
      <4>3. d # N => g[d + 1] = h[d + 1]
        BY <2>2, <2>3, <4>1
      <4> QED
        BY <4>1, <4>2, <4>3
    <3> QED
      BY <3>1, <3>2
  <2>5. DOMAIN g = 1..N
    BY DEF g
  <2> QED
    BY <2>4, <2>5 DEF j, Q
<1>3. E = Nat
  <2>1. E \in SUBSET Nat
    OBVIOUS
  <2> HIDE DEF E
  <2> QED
    BY <1>1, <1>2, <2>1, SetInduction
<1>4. \E g : g = [d \in 1..N |-> IF d = N THEN 1 ELSE s[d] * g[d + 1]]
  <2>1. n \in E
    BY <1>0, <1>3
  <2>2. PICK h : DOMAIN h = 1..N /\ \A d \in (N - n)..N : P(h, d)
    BY <1>0, <2>1
  <2>3. N - n = 1
    BY <1>0
  <2> DEFINE g == [d \in 1..N |-> h[d]]
  <2>4. \A d \in 1..N : P(h, d) /\ (d # N => d + 1 \in 1..N)
    <3>1. \A d \in 1..N : d # N => d + 1 \in 1..N
      BY <1>0
    <3> HIDE DEF N, P
    <3> QED
      BY <2>2, <2>3, <3>1
  <2>5. \A d \in 1..N : g[d] = IF d = N THEN 1 ELSE s[d] * g[d + 1]
    <3> TAKE d \in 1..N
    <3>1. g[d] = h[d] /\ (d # N => g[d + 1] = h[d + 1])
      BY <2>4
    <3> HIDE DEF g
    <3> QED
      BY <2>4, <3>1
  <2>6. g = [d \in 1..N |-> IF d = N THEN 1 ELSE s[d] * g[d + 1]]
    BY <2>5
  <2> QED
    BY <2>6
<1> QED
  BY <1>4 DEF SuffixProducts
\* All of them are numbers, the empty product is 1, and each is one factor more.
LEMMA ProductsAre ==
  ASSUME NEW s \in Seq(Nat)
  PROVE  /\ SuffixProducts(s) \in [1..(Len(s) + 1) -> Nat]
         /\ SuffixProducts(s)[Len(s) + 1] = 1
         /\ \A d \in 1..Len(s) : SuffixProducts(s)[d] = s[d] * SuffixProducts(s)[d + 1]
<1> DEFINE n == Len(s)
           N == n + 1
           p == SuffixProducts(s)
           E == {k \in Nat : k <= n => p[N - k] \in Nat}
<1>1. n \in Nat /\ N \in Nat /\ N \in 1..N
  OBVIOUS
<1>2. p = [d \in 1..N |-> IF d = N THEN 1 ELSE s[d] * p[d + 1]]
  BY SuffixProductsIs
<1> HIDE DEF p
<1>3. p[N] = 1
  BY <1>1, <1>2
<1>4. \A d \in 1..n : s[d] \in Nat /\ p[d] = s[d] * p[d + 1]
  <2> TAKE d \in 1..n
  <2>1. d \in 1..N /\ d # N /\ s[d] \in Nat
    BY <1>1
  <2> HIDE DEF N
  <2> QED
    BY <1>2, <2>1
<1>5. 0 \in E
  BY <1>1, <1>3
<1>6. \A k \in E : k + 1 \in E
  <2> SUFFICES ASSUME NEW k \in E, k + 1 <= n PROVE p[N - (k + 1)] \in Nat
    OBVIOUS
  <2>1. k \in Nat /\ p[N - k] \in Nat
    BY <1>1
  <2> DEFINE d == N - (k + 1)
  <2>2. d \in 1..n /\ d + 1 = N - k
    BY <1>1, <2>1
  <2> HIDE DEF d, N
  <2>3. s[d] \in Nat /\ p[d] = s[d] * p[d + 1] /\ p[d + 1] \in Nat
    BY <1>4, <2>1, <2>2
  <2>4. p[d] \in Nat
    BY <2>3
  <2> QED
    BY <2>4 DEF d
<1>7. E = Nat
  <2>1. E \in SUBSET Nat
    OBVIOUS
  <2> HIDE DEF E
  <2> QED
    BY <1>5, <1>6, <2>1, SetInduction
<1>8. \A d \in 1..N : p[d] \in Nat
  <2>1. \A k \in Nat : k <= n => p[N - k] \in Nat
    BY <1>7
  <2> TAKE d \in 1..N
  <2>2. N - d \in Nat /\ N - d <= n /\ N - (N - d) = d
    BY <1>1
  <2>3. p[N - (N - d)] \in Nat
    BY <2>1, <2>2
  <2> QED
    BY <2>2, <2>3
<1>9. p \in [1..N -> Nat]
  BY <1>2, <1>8
<1> QED
  BY <1>3, <1>4, <1>9 DEF p

\* The products of a vector: of none,
LEMMA EmptyProduct == Product(<< >>) = 1
<1>1. << >> \in Seq(Nat) /\ Len(<< >>) + 1 = 1
  OBVIOUS
<1> QED
  BY <1>1, ProductsAre DEF Product

\* and of one more.
LEMMA AppendProduct ==
  ASSUME NEW s \in Seq(Nat), NEW x \in Nat
  PROVE  Product(Append(s, x)) = Product(s) * x
<1> DEFINE n == Len(s)
           N == n + 1
           t == Append(s, x)
           p == SuffixProducts(s)
           q == SuffixProducts(t)
           E == {k \in Nat : k <= n => q[N - k] = p[N - k] * x}
<1>1. /\ n \in Nat /\ N = n + 1 /\ t \in Seq(Nat) /\ Len(t) = N /\ t[N] = x
      /\ \A d \in 1..n : t[d] = s[d] /\ s[d] \in Nat
  OBVIOUS
<1>2. /\ p \in [1..N -> Nat] /\ p[N] = 1
      /\ \A d \in 1..n : p[d] = s[d] * p[d + 1]
  BY ProductsAre
<1>3. /\ q \in [1..(N + 1) -> Nat] /\ q[N + 1] = 1
      /\ \A d \in 1..N : q[d] = t[d] * q[d + 1]
  BY <1>1, ProductsAre
<1> HIDE DEF n, t, p, q
<1>4. 0 \in E
  <2>1. N \in 1..N
    BY <1>1
  <2>2. q[N] = t[N] * q[N + 1]
    BY <1>3, <2>1
  <2>3. N - 0 = N /\ x * 1 = x /\ 1 * x = x
    BY <1>1
  <2> QED
    BY <1>1, <1>2, <1>3, <2>2, <2>3
<1>5. \A k \in E : k + 1 \in E
  <2> SUFFICES ASSUME NEW k \in E, k + 1 <= n
               PROVE  q[N - (k + 1)] = p[N - (k + 1)] * x
    OBVIOUS
  <2> DEFINE d == N - (k + 1)
  <2>1. k \in Nat /\ q[N - k] = p[N - k] * x
    BY <1>1
  <2>2. d \in 1..n /\ d \in 1..N /\ d + 1 = N - k /\ d + 1 \in 1..N
    BY <1>1, <2>1
  <2> HIDE DEF d
  <2>3. q[d] = s[d] * (p[d + 1] * x)
    BY <1>1, <1>3, <2>1, <2>2
  <2>4. p[d] = s[d] * p[d + 1] /\ s[d] \in Nat /\ p[d + 1] \in Nat
    BY <1>1, <1>2, <2>2
  <2> DEFINE a == s[d]
             b == p[d + 1]
  <2>5. a \in Nat /\ b \in Nat
    BY <2>4
  <2> HIDE DEF a, b
  <2>6. a * (b * x) = (a * b) * x
    BY <2>5
  <2>7. q[d] = p[d] * x
    BY <2>3, <2>4, <2>6 DEF a, b
  <2> QED
    BY <2>7 DEF d
<1>6. E = Nat
  <2>1. E \in SUBSET Nat
    OBVIOUS
  <2> HIDE DEF E
  <2> QED
    BY <1>4, <1>5, <2>1, SetInduction
<1>7. \A k \in Nat : k <= n => q[N - k] = p[N - k] * x
  BY <1>6
<1>8. q[1] = p[1] * x
  <2>1. n <= n /\ N - n = 1
    BY <1>1
  <2>2. q[N - n] = p[N - n] * x
    BY <1>1, <1>7, <2>1
  <2> QED
    BY <2>1, <2>2
<1> QED
  BY <1>8 DEF Product, p, q, t

\* A function on 0..n can be defined from its value at 0 and from how each of the
\* others comes of the one before.
Recurs(g, n, S, init, step) ==
  /\ g \in [0..n -> S]
  /\ g[0] = init
  /\ \A d \in 1..n : g[d] = step[<<d, g[d - 1]>>]

\* Such a sequence exists.
LEMMA Recursion ==
  ASSUME NEW n \in Nat, NEW S, NEW init \in S, NEW step \in [(1..n) \X S -> S]
  PROVE  \E g : Recurs(g, n, S, init, step)
<1> DEFINE Q(k) == \E g \in [0..n -> S] :
                     /\ g[0] = init
                     /\ \A d \in 1..k : g[d] = step[<<d, g[d - 1]>>]
           E    == {k \in Nat : k <= n => Q(k)}
<1>1. 0 \in E
  <2> DEFINE g == [d \in 0..n |-> init]
  <2>1. g \in [0..n -> S] /\ g[0] = init
    OBVIOUS
  <2>2. \A d \in 1..0 : g[d] = step[<<d, g[d - 1]>>]
    OBVIOUS
  <2> HIDE DEF g
  <2>3. Q(0)
    BY <2>1, <2>2
  <2> HIDE DEF Q
  <2> QED
    BY <2>3
<1>2. \A k \in E : k + 1 \in E
  <2> HIDE DEF Q
  <2> SUFFICES ASSUME NEW k \in E, k + 1 <= n PROVE Q(k + 1)
    OBVIOUS
  <2>1. k \in Nat /\ k <= n /\ Q(k) /\ k + 1 \in 1..n /\ k \in 0..n /\ (k + 1) - 1 = k
    OBVIOUS
  <2>2. PICK h \in [0..n -> S] : /\ h[0] = init
                                 /\ \A d \in 1..k : h[d] = step[<<d, h[d - 1]>>]
    BY <2>1 DEF Q
  <2> DEFINE new == step[<<k + 1, h[k]>>]
             g   == [d \in 0..n |-> IF d = k + 1 THEN new ELSE h[d]]
  <2>3. new \in S
    BY <2>1
  <2> HIDE DEF new
  <2>4. g \in [0..n -> S] /\ g[0] = init
    BY <2>1, <2>2, <2>3
  <2>5. \A d \in 1..(k + 1) : g[d] = step[<<d, g[d - 1]>>]
    <3> TAKE d \in 1..(k + 1)
    <3>1. d \in 0..n /\ d - 1 \in 0..n /\ d - 1 # k + 1
      BY <2>1
    <3>2. g[d - 1] = h[d - 1] /\ g[d] = IF d = k + 1 THEN new ELSE h[d]
      BY <3>1
    <3> HIDE DEF g
    <3>3. CASE d = k + 1
      BY <2>1, <3>2, <3>3 DEF new
    <3>4. CASE d # k + 1
      <4>1. d \in 1..k
        BY <2>1, <3>4
      <4> QED
        BY <2>2, <3>2, <3>4, <4>1
    <3> QED
      BY <3>3, <3>4
  <2> HIDE DEF g
  <2> QED
    BY <2>4, <2>5 DEF Q
<1>3. E = Nat
  <2>1. E \in SUBSET Nat
    OBVIOUS
  <2> HIDE DEF E
  <2> QED
    BY <1>1, <1>2, <2>1, SetInduction
<1>4. Q(n)
  <2> HIDE DEF Q
  <2>1. \A k \in Nat : k <= n => Q(k)
    BY <1>3
  <2> QED
    BY <2>1
<1> QED
  BY <1>4 DEF Recurs

-------------------------------------------------------------------------------
(***************************************************************************)
(* Places in a block: a coordinate, and the number of values before it.    *)
(***************************************************************************)
\* The sums that Dot is the last of.
IsSums(sum, u, v) ==
  /\ sum \in [0..Len(u) -> Nat]
  /\ sum[0] = 0
  /\ \A d \in 1..Len(u) : sum[d] = sum[d - 1] + u[d] * v[d]

\* A scalar product is the last of its sums.
LEMMA DotSums ==
  ASSUME NEW u \in Seq(Nat), NEW v \in Seq(Nat), Len(v) = Len(u)
  PROVE  \E sum : IsSums(sum, u, v) /\ Dot(u, v) = sum[Len(u)]
<1> DEFINE n    == Len(u)
           add  == [x \in (1..n) \X Nat |-> x[2] + u[x[1]] * v[x[1]]]
           P(g) == g = [d \in 0..n |-> IF d = 0 THEN 0 ELSE g[d - 1] + u[d] * v[d]]
           sum  == CHOOSE g : P(g)
<1>1. n \in Nat /\ 0 \in Nat
  OBVIOUS
<1>2. \A d \in 1..n : u[d] * v[d] \in Nat
  <2> TAKE d \in 1..n
  <2>1. u[d] \in Nat /\ v[d] \in Nat
    OBVIOUS
  <2> QED
    BY <2>1
<1>3. /\ add \in [(1..n) \X Nat -> Nat]
      /\ \A d \in 1..n : \A x \in Nat : add[<<d, x>>] = x + u[d] * v[d]
  <2>1. \A x \in (1..n) \X Nat : x[2] + u[x[1]] * v[x[1]] \in Nat
    <3> TAKE x \in (1..n) \X Nat
    <3>1. x[1] \in 1..n /\ x[2] \in Nat
      OBVIOUS
    <3> DEFINE b == u[x[1]] * v[x[1]]
    <3>2. b \in Nat
      BY <1>2, <3>1
    <3> HIDE DEF b
    <3>3. x[2] + b \in Nat
      BY <3>1, <3>2
    <3> QED
      BY <3>3 DEF b
  <2>2. add \in [(1..n) \X Nat -> Nat]
    BY <2>1
  <2>3. ASSUME NEW d \in 1..n, NEW x \in Nat
        PROVE  add[<<d, x>>] = x + u[d] * v[d]
    <3>1. <<d, x>> \in (1..n) \X Nat /\ <<d, x>>[1] = d /\ <<d, x>>[2] = x
      OBVIOUS
    <3>2. \A y \in (1..n) \X Nat : add[y] = y[2] + u[y[1]] * v[y[1]]
      OBVIOUS
    <3> HIDE DEF add
    <3> QED
      BY <3>1, <3>2
  <2> QED
    BY <2>2, <2>3
<1> HIDE DEF add
<1>4. PICK g : Recurs(g, n, Nat, 0, add)
  <2> HIDE DEF n
  <2> QED
    BY <1>1, <1>3, Recursion
<1>5. /\ g \in [0..n -> Nat] /\ g[0] = 0
      /\ \A d \in 1..n : g[d] = g[d - 1] + u[d] * v[d]
  <2>1. /\ g \in [0..n -> Nat] /\ g[0] = 0
        /\ \A d \in 1..n : g[d] = add[<<d, g[d - 1]>>]
    BY <1>4 DEF Recurs
  <2>2. \A d \in 1..n : d - 1 \in 0..n
    BY <1>1
  <2>3. \A d \in 1..n : g[d - 1] \in Nat
    BY <2>1, <2>2
  <2> HIDE DEF n
  <2> QED
    BY <1>3, <2>1, <2>3
<1>6. P(g)
  <2>1. \A d \in 0..n : d = 0 \/ d \in 1..n
    BY <1>1
  <2>2. \A d \in 0..n : g[d] = IF d = 0 THEN 0 ELSE g[d - 1] + u[d] * v[d]
    BY <1>5, <2>1
  <2> QED
    BY <1>5, <2>2
<1>7. P(sum)
  <2> HIDE DEF P
  <2> QED
    BY <1>6
<1>8. Dot(u, v) = sum[n]
  BY DEF Dot
<1> HIDE DEF sum
<1>9. sum[0] = 0 /\ \A d \in 1..n : sum[d] = sum[d - 1] + u[d] * v[d]
  <2>1. 0 \in 0..n /\ \A d \in 1..n : d \in 0..n /\ d # 0
    BY <1>1
  <2> HIDE DEF n
  <2> QED
    BY <1>7, <2>1
<1> DEFINE E == {d \in Nat : d <= n => sum[d] \in Nat}
<1>10. 0 \in E
  BY <1>9
<1>11. \A d \in E : d + 1 \in E
  <2> SUFFICES ASSUME NEW d \in E, d + 1 <= n PROVE sum[d + 1] \in Nat
    OBVIOUS
  <2>1. d \in Nat /\ d + 1 \in 1..n /\ (d + 1) - 1 = d /\ sum[d] \in Nat
    BY <1>1
  <2> HIDE DEF n
  <2> QED
    BY <1>2, <1>9, <2>1
<1>12. E = Nat
  <2>1. E \in SUBSET Nat
    OBVIOUS
  <2> HIDE DEF E
  <2> QED
    BY <1>10, <1>11, <2>1, SetInduction
<1>13. \A d \in Nat : d <= n => sum[d] \in Nat
  BY <1>12
<1>14. sum \in [0..n -> Nat]
  <2>1. \A d \in 0..n : sum[d] \in Nat
    BY <1>13
  <2> QED
    BY <1>7, <2>1
<1> QED
  BY <1>8, <1>9, <1>14 DEF IsSums

\* There is but one list of sums.
LEMMA SumsAre ==
  ASSUME NEW u \in Seq(Nat), NEW v \in Seq(Nat), Len(v) = Len(u),
         NEW g, IsSums(g, u, v)
  PROVE  Dot(u, v) = g[Len(u)]
<1> DEFINE n == Len(u)
<1>1. n \in Nat
  OBVIOUS
<1>2. PICK sum : IsSums(sum, u, v) /\ Dot(u, v) = sum[n]
  BY DotSums
<1> DEFINE E == {d \in Nat : d <= n => sum[d] = g[d]}
<1>3. 0 \in E
  BY <1>2 DEF IsSums
<1>4. \A d \in E : d + 1 \in E
  <2> SUFFICES ASSUME NEW d \in E, d + 1 <= n PROVE sum[d + 1] = g[d + 1]
    OBVIOUS
  <2>1. d \in Nat /\ d + 1 \in 1..n /\ (d + 1) - 1 = d /\ sum[d] = g[d]
    BY <1>1
  <2>2. /\ sum[d + 1] = sum[(d + 1) - 1] + u[d + 1] * v[d + 1]
        /\ g[d + 1] = g[(d + 1) - 1] + u[d + 1] * v[d + 1]
    BY <1>2, <2>1 DEF IsSums
  <2> QED
    BY <2>1, <2>2
<1>5. E = Nat
  <2>1. E \in SUBSET Nat
    OBVIOUS
  <2> HIDE DEF E
  <2> QED
    BY <1>3, <1>4, <2>1, SetInduction
<1>6. \A d \in Nat : d <= n => sum[d] = g[d]
  BY <1>5
<1> QED
  BY <1>1, <1>2, <1>6

\* A coordinate of a block, and its place in it.
Fits(a, c) == a \in Seq(Nat) /\ Len(a) = Len(c) /\ \A d \in 1..Len(c) : a[d] < c[d]

Place(a, c) == Dot(a, DimSizes(c))

\* The sums of a place: none of them leaves as much as one step of the dimension
\* before.
LEMMA PlaceSums ==
  ASSUME NEW c \in Seq(Nat), NEW a, Fits(a, c)
  PROVE  \E sum : /\ IsSums(sum, a, DimSizes(c))
                  /\ Place(a, c) = sum[Len(c)]
                  /\ \A d \in 0..Len(c) :
                       sum[Len(c)] - sum[d] \in 0..(SuffixProducts(c)[d + 1] - 1)
<1> DEFINE n == Len(c)
           p == SuffixProducts(c)
           v == DimSizes(c)
<1>1. n \in Nat /\ a \in Seq(Nat) /\ Len(a) = n /\ \A d \in 1..n : a[d] \in Nat /\ c[d] \in Nat /\ a[d] < c[d]
  BY DEF Fits
<1>2. /\ p \in [1..(n + 1) -> Nat] /\ p[n + 1] = 1
      /\ \A d \in 1..n : p[d] = c[d] * p[d + 1]
  BY ProductsAre
<1>3. v \in Seq(Nat) /\ Len(v) = n /\ \A d \in 1..n : v[d] = p[d + 1] /\ v[d] \in Nat
  <2>1. \A d \in 1..n : p[d + 1] \in Nat
    <3>1. \A d \in 1..n : d + 1 \in 1..(n + 1)
      BY <1>1
    <3> HIDE DEF p, n
    <3> QED
      BY <1>2, <3>1
  <2>2. v = [d \in 1..n |-> p[d + 1]]
    BY DEF DimSizes
  <2> HIDE DEF p, v
  <2> QED
    BY <1>1, <2>1, <2>2
<1> HIDE DEF p, v
<1>4. PICK sum : IsSums(sum, a, v) /\ Dot(a, v) = sum[n]
  BY <1>1, <1>3, DotSums
<1>5. /\ \A d \in 0..n : sum[d] \in Nat
      /\ \A d \in 1..n : sum[d] = sum[d - 1] + a[d] * p[d + 1]
  BY <1>1, <1>3, <1>4 DEF IsSums
<1> DEFINE Q(k) == sum[n] - sum[n - k] \in 0..(p[(n - k) + 1] - 1)
           E    == {k \in Nat : k <= n => Q(k)}
<1>6. 0 \in E
  <2>1. n - 0 = n /\ sum[n] \in Nat
    BY <1>1, <1>5
  <2> QED
    BY <1>2, <2>1
<1>7. \A k \in E : k + 1 \in E
  <2> HIDE DEF Q
  <2> SUFFICES ASSUME NEW k \in E, k + 1 <= n PROVE Q(k + 1)
    OBVIOUS
  <2>1. k \in Nat /\ k <= n /\ Q(k)
    BY <1>1
  <2> DEFINE d == n - k
  <2>2. d \in 1..n /\ d \in 0..n /\ d - 1 \in 0..n /\ n - (k + 1) = d - 1 /\ (d - 1) + 1 = d /\ d \in Int
    BY <1>1, <2>1
  <2>3. sum[n] - sum[d] \in 0..(p[d + 1] - 1)
    BY <2>1 DEF Q
  <2> HIDE DEF d
  <2>4. d + 1 \in 1..(n + 1)
    BY <1>1, <2>2
  <2> DEFINE x == a[d]
             y == c[d]
             w == p[d + 1]
             s == sum[n]
             t == sum[d]
             r == sum[d - 1]
  <2>5. x \in Nat /\ y \in Nat /\ x < y /\ w \in Nat /\ s \in Nat /\ t \in Nat /\ r \in Nat
    <3>1. n \in 0..n
      BY <1>1
    <3> HIDE DEF n
    <3>2. x \in Nat /\ y \in Nat /\ x < y
      BY <1>1, <2>2
    <3>3. w \in Nat
      BY <1>2, <2>4
    <3>4. s \in Nat /\ t \in Nat /\ r \in Nat
      BY <1>5, <2>2, <3>1
    <3> QED
      BY <3>2, <3>3, <3>4
  <2>6. t = r + x * w /\ p[d] = y * w /\ s - t \in 0..(w - 1)
    BY <1>2, <1>5, <2>2, <2>3
  <2> HIDE DEF x, y, w, s, t, r
  <2>7. x * w + w <= y * w /\ x * w \in Nat /\ y * w \in Nat
    BY <2>5, TimesOrder
  <2>8. s - r \in 0..(y * w - 1)
    BY <2>5, <2>6, <2>7
  <2> QED
    BY <2>2, <2>6, <2>8 DEF Q, s, r
<1>8. E = Nat
  <2>1. E \in SUBSET Nat
    OBVIOUS
  <2> HIDE DEF E
  <2> QED
    BY <1>6, <1>7, <2>1, SetInduction
<1>9. \A d \in 0..n : sum[n] - sum[d] \in 0..(p[d + 1] - 1)
  <2>1. \A k \in Nat : k <= n => Q(k)
    BY <1>8
  <2> TAKE d \in 0..n
  <2>2. n - d \in Nat /\ n - d <= n /\ n - (n - d) = d
    BY <1>1
  <2>3. Q(n - d)
    <3> HIDE DEF Q
    <3> QED
      BY <2>1, <2>2
  <2> QED
    BY <2>2, <2>3
<1> QED
  BY <1>4, <1>9 DEF Place, v, p

\* The places of a block are numbered from 0,
LEMMA PlaceBelow ==
  ASSUME NEW c \in Seq(Nat), NEW a, Fits(a, c)
  PROVE  Place(a, c) \in 0..(Product(c) - 1)
<1>1. PICK sum : /\ IsSums(sum, a, DimSizes(c))
                 /\ Place(a, c) = sum[Len(c)]
                 /\ \A d \in 0..Len(c) :
                      sum[Len(c)] - sum[d] \in 0..(SuffixProducts(c)[d + 1] - 1)
  BY PlaceSums
<1>2. 0 \in 0..Len(c) /\ Len(c) \in 0..Len(c) /\ Len(a) = Len(c)
  BY DEF Fits
<1>3. sum[Len(c)] - sum[0] \in 0..(SuffixProducts(c)[0 + 1] - 1)
  BY <1>1, <1>2
<1>4. sum[0] = 0 /\ sum[Len(c)] \in Nat
  BY <1>1, <1>2 DEF IsSums
<1> QED
  BY <1>1, <1>3, <1>4 DEF Product

\* in the order of the coordinates,
LEMMA PlaceOrder ==
  ASSUME NEW c \in Seq(Nat), NEW a, NEW b, Fits(a, c), Fits(b, c), Precedes(a, b)
  PROVE  Place(a, c) < Place(b, c)
<1> DEFINE n == Len(c)
           p == SuffixProducts(c)
           v == DimSizes(c)
<1>1. PICK s : /\ IsSums(s, a, v) /\ Place(a, c) = s[n]
               /\ \A d \in 0..n : s[n] - s[d] \in 0..(p[d + 1] - 1)
  BY PlaceSums
<1>2. PICK t : /\ IsSums(t, b, v) /\ Place(b, c) = t[n]
               /\ \A d \in 0..n : t[n] - t[d] \in 0..(p[d + 1] - 1)
  BY PlaceSums
<1>3. /\ n \in Nat /\ Len(a) = n /\ Len(b) = n
      /\ \A d \in 1..n : a[d] \in Nat /\ b[d] \in Nat
  BY DEF Fits
<1>4. PICK d \in 1..n : a[d] < b[d] /\ \A e \in 1..(d - 1) : a[e] = b[e]
  BY <1>3 DEF Precedes
<1>5. /\ s[0] = 0 /\ t[0] = 0
      /\ \A e \in 0..n : s[e] \in Nat /\ t[e] \in Nat
      /\ \A e \in 1..n : s[e] = s[e - 1] + a[e] * v[e]
      /\ \A e \in 1..n : t[e] = t[e - 1] + b[e] * v[e]
  BY <1>1, <1>2, <1>3 DEF IsSums
<1> DEFINE Q(k) == s[k] = t[k]
           E    == {k \in Nat : k <= d - 1 => Q(k)}
<1>6. 0 \in E
  BY <1>5
<1>7. \A k \in E : k + 1 \in E
  <2> HIDE DEF Q
  <2> SUFFICES ASSUME NEW k \in E, k + 1 <= d - 1 PROVE Q(k + 1)
    OBVIOUS
  <2>1. k \in Nat /\ k + 1 \in 1..(d - 1) /\ k + 1 \in 1..n /\ (k + 1) - 1 = k
    <3>1. d \in Int /\ d <= n /\ k \in Nat
      BY <1>3
    <3> QED
      BY <1>3, <3>1
  <2>2. s[k] = t[k]
    <3>1. k <= d - 1
      BY <2>1
    <3> QED
      BY <3>1 DEF Q
  <2> USE DEF Q
  <2> HIDE DEF n
  <2> QED
    BY <1>4, <1>5, <2>1, <2>2
<1>8. E = Nat
  <2>1. E \in SUBSET Nat
    OBVIOUS
  <2> HIDE DEF E
  <2> QED
    BY <1>6, <1>7, <2>1, SetInduction
<1>9. s[d - 1] = t[d - 1]
  <2>1. \A k \in Nat : k <= d - 1 => s[k] = t[k]
    BY <1>8
  <2>2. d - 1 \in Nat /\ d - 1 <= d - 1
    BY <1>3
  <2> QED
    BY <2>1, <2>2
<1>10. v[d] = p[d + 1] /\ p[d + 1] \in Nat
  <2>1. p \in [1..(n + 1) -> Nat]
    BY ProductsAre
  <2>2. d + 1 \in 1..(n + 1)
    BY <1>3
  <2> QED
    BY <2>1, <2>2 DEF DimSizes
<1> DEFINE x  == a[d]
           y  == b[d]
           w  == p[d + 1]
           sn == s[n]
           tn == t[n]
           sd == s[d]
           td == t[d]
           r  == s[d - 1]
<1>11. /\ x \in Nat /\ y \in Nat /\ x < y /\ w \in Nat /\ sn \in Nat /\ tn \in Nat
       /\ sd \in Nat /\ td \in Nat /\ r \in Nat
       /\ sd = r + x * w /\ td = r + y * w
       /\ sn - sd \in 0..(w - 1) /\ tn - td \in 0..(w - 1)
  <2>1. d \in 0..n /\ n \in 0..n /\ d - 1 \in 0..n
    BY <1>3
  <2> HIDE DEF n, p, v
  <2> QED
    BY <1>1, <1>2, <1>3, <1>4, <1>5, <1>9, <1>10, <2>1
<1> HIDE DEF x, y, w, sn, tn, sd, td, r
<1>12. x * w + w <= y * w /\ x * w \in Nat /\ y * w \in Nat
  BY <1>11, TimesOrder
<1>13. sn < tn
  BY <1>11, <1>12
<1> QED
  BY <1>1, <1>2, <1>13 DEF sn, tn

\* and no two are the same.
LEMMA PlaceSame ==
  ASSUME NEW c \in Seq(Nat), NEW a, NEW b, Fits(a, c), Fits(b, c), Place(a, c) = Place(b, c)
  PROVE  a = b
<1> DEFINE D == {d \in 1..Len(c) : a[d] # b[d]}
<1>1. /\ Len(c) \in Nat /\ a \in Seq(Nat) /\ b \in Seq(Nat)
      /\ Len(a) = Len(c) /\ Len(b) = Len(c)
      /\ \A d \in 1..Len(c) : a[d] \in Nat /\ b[d] \in Nat
  BY DEF Fits
<1>2. CASE D = {}
  <2>1. \A d \in 1..Len(c) : a[d] = b[d]
    BY <1>2
  <2>2. a \in [1..Len(c) -> Nat] /\ b \in [1..Len(c) -> Nat]
    BY <1>1
  <2> QED
    BY <2>1, <2>2
<1>3. CASE D # {}
  <2>1. D \in SUBSET Nat
    OBVIOUS
  <2>2. PICK d \in D : \A e \in D : d <= e
    <3> HIDE DEF D
    <3> QED
      BY <1>3, <2>1, Least
  <2>3. d \in 1..Len(c) /\ \A e \in 1..(d - 1) : e \in 1..Len(c) /\ e \notin D
    BY <1>1, <2>2
  <2>4. \A e \in 1..(d - 1) : a[e] = b[e]
    BY <2>3
  <2>5. a[d] < b[d] \/ b[d] < a[d]
    BY <1>1, <2>2
  <2>6. Precedes(a, b) \/ Precedes(b, a)
    BY <1>1, <2>3, <2>4, <2>5 DEF Precedes
  <2>7. Place(a, c) \in Int /\ Place(b, c) \in Int
    BY PlaceBelow
  <2>8. Place(a, c) < Place(b, c) \/ Place(b, c) < Place(a, c)
    BY <2>6, PlaceOrder
  <2> QED
    BY <2>7, <2>8
<1> QED
  BY <1>2, <1>3

\* Dividing twice is dividing by the product.
LEMMA DividedTwice ==
  ASSUME NEW k \in Nat, NEW y \in Nat \ {0}, NEW w \in Nat \ {0}
  PROVE  k \div (y * w) = (k \div w) \div y
<1> DEFINE q == k \div w
           r == k % w
           t == q \div y
           m == q % y
           z == y * w
<1>1. q \in Nat /\ r \in 0..(w - 1) /\ k = (q * w) + r
  BY PartsOf
<1> HIDE DEF q, r
<1>2. t \in Nat /\ m \in 0..(y - 1) /\ q = (t * y) + m
  BY <1>1, PartsOf
<1> HIDE DEF t, m
<1>3. m * w + r \in 0..(y * w - 1)
  BY <1>1, <1>2, PartBelow
<1>4. z \in Nat \ {0}
  BY DEF z
<1>5. k = t * z + (m * w + r)
  <2>1. ((t * y) + m) * w = t * (y * w) + m * w
    BY <1>2
  <2>2. t * (y * w) \in Nat /\ m * w \in Nat
    BY <1>2
  <2>3. k = (t * (y * w) + m * w) + r
    BY <1>1, <1>2, <2>1
  <2> DEFINE tz == t * (y * w)
             mw == m * w
  <2> HIDE DEF tz, mw
  <2>4. k = tz + (mw + r)
    BY <1>1, <2>2, <2>3 DEF tz, mw
  <2> QED
    BY <2>4 DEF tz, mw
<1> DEFINE b == m * w + r
<1>6. b \in 0..(z - 1)
  BY <1>3 DEF z
<1> HIDE DEF z, b
<1>7. (t * z + b) \div z = t
  BY <1>2, <1>4, <1>6, Parts
<1> QED
  BY <1>5, <1>7 DEF b, z, t, q

\* Each number below the product is the place of the coordinate it unravels to.
LEMMA UnravelPlace ==
  ASSUME NEW c \in Seq(Nat), NEW k \in 0..(Product(c) - 1)
  PROVE  Fits(Unravel(k, c), c) /\ Place(Unravel(k, c), c) = k
<1> DEFINE n == Len(c)
           p == SuffixProducts(c)
           v == DimSizes(c)
           a == Unravel(k, c)
<1>1. n \in Nat /\ \A d \in 1..n : c[d] \in Nat /\ d + 1 \in 1..(n + 1) /\ d \in 1..(n + 1)
  OBVIOUS
<1>2. /\ p \in [1..(n + 1) -> Nat] /\ p[n + 1] = 1
      /\ \A d \in 1..n : p[d] = c[d] * p[d + 1]
  BY ProductsAre
<1>3. p[1] = Product(c) /\ 1 \in 1..(n + 1) /\ p[1] \in Nat
  <2>1. 1 \in 1..(n + 1)
    BY <1>1
  <2> QED
    BY <1>2, <2>1 DEF Product
<1>4. k \in Nat /\ k < p[1] /\ p[1] # 0
  BY <1>3
<1>5. v = [d \in 1..n |-> p[d + 1]]
  BY DEF DimSizes
<1>6. a = [d \in 1..n |-> (k \div v[d]) % c[d]]
  BY DEF Unravel
<1> HIDE DEF p, v, a
<1>7. \A d \in 1..n : v[d] = p[d + 1] /\ p[d + 1] \in Nat
  <2> HIDE DEF n
  <2> QED
    BY <1>1, <1>2, <1>5
<1> DEFINE Q(j) == p[j + 1] # 0
           E    == {j \in Nat : j <= n => Q(j)}
<1>8. 0 \in E
  BY <1>4
<1>9. \A j \in E : j + 1 \in E
  <2> HIDE DEF Q
  <2> SUFFICES ASSUME NEW j \in E, j + 1 <= n PROVE Q(j + 1)
    OBVIOUS
  <2>1. j \in Nat /\ j + 1 \in 1..n /\ Q(j)
    BY <1>1
  <2>2. p[j + 1] = c[j + 1] * p[(j + 1) + 1] /\ c[j + 1] \in Nat
    BY <1>1, <1>2, <2>1
  <2>3. p[j + 1] # 0
    BY <2>1 DEF Q
  <2>4. p[(j + 1) + 1] # 0
    <3>1. ASSUME p[(j + 1) + 1] = 0 PROVE FALSE
      <4>1. c[j + 1] * 0 = 0
        BY <2>2
      <4> QED
        BY <2>2, <2>3, <3>1, <4>1
    <3> QED
      BY <3>1
  <2> QED
    BY <2>4 DEF Q
<1>10. E = Nat
  <2>1. E \in SUBSET Nat
    OBVIOUS
  <2> HIDE DEF E
  <2> QED
    BY <1>8, <1>9, <2>1, SetInduction
<1>11. \A d \in 1..n : p[d + 1] # 0 /\ c[d] # 0
  <2>1. \A j \in Nat : j <= n => Q(j)
    BY <1>10
  <2>2. \A j \in Nat : j <= n => p[j + 1] # 0
    BY <2>1
  <2> HIDE DEF Q, E
  <2> TAKE d \in 1..n
  <2>3. d - 1 \in Nat /\ d - 1 <= n /\ (d - 1) + 1 = d /\ d \in Nat /\ d <= n
    BY <1>1
  <2>4. p[d + 1] # 0 /\ p[d] # 0
    BY <2>2, <2>3
  <2>5. p[d] = c[d] * p[d + 1] /\ p[d + 1] \in Nat
    BY <1>2, <1>7
  <2>6. 0 * p[d + 1] = 0
    BY <2>5
  <2> QED
    BY <2>4, <2>5, <2>6
<1>12. \A d \in 1..n : a[d] = (k \div p[d + 1]) % c[d] /\ a[d] \in 0..(c[d] - 1)
  <2> TAKE d \in 1..n
  <2>1. a[d] = (k \div p[d + 1]) % c[d]
    <3> HIDE DEF n
    <3> QED
      BY <1>6, <1>7
  <2> DEFINE w == p[d + 1]
             y == c[d]
  <2>2. w \in Nat \ {0} /\ y \in Nat \ {0}
    BY <1>1, <1>7, <1>11
  <2> HIDE DEF w, y
  <2>3. k \div w \in Nat
    BY <1>4, <2>2, PartsOf
  <2>4. (k \div w) % y \in 0..(y - 1)
    BY <2>2, <2>3, PartsOf
  <2> QED
    BY <2>1, <2>4 DEF w, y
<1>13. Fits(a, c)
  <2>1. \A d \in 1..n : a[d] \in Nat /\ a[d] < c[d]
    BY <1>1, <1>12
  <2>2. a \in Seq(Nat) /\ Len(a) = n
    BY <1>1, <1>6, <2>1
  <2> QED
    BY <2>1, <2>2 DEF Fits
<1> DEFINE g == [d \in 0..n |-> (k \div p[d + 1]) * p[d + 1]]
<1>14. \A d \in 0..n : p[d + 1] \in Nat \ {0}
  <2> TAKE d \in 0..n
  <2>1. CASE d = 0
    BY <1>3, <1>4, <2>1
  <2>2. CASE d # 0
    <3>1. d \in 1..n
      BY <1>1, <2>2
    <3> QED
      BY <1>7, <1>11, <3>1
  <2> QED
    BY <2>1, <2>2
<1>15. g \in [0..n -> Nat]
  <2>1. ASSUME NEW d \in 0..n PROVE (k \div p[d + 1]) * p[d + 1] \in Nat
    <3> DEFINE w == p[d + 1]
    <3>1. w \in Nat \ {0}
      BY <1>14
    <3> HIDE DEF w
    <3>2. k \div w \in Nat
      BY <1>4, <3>1, PartsOf
    <3>3. (k \div w) * w \in Nat
      BY <3>1, <3>2
    <3> QED
      BY <3>3 DEF w
  <2> QED
    BY <2>1
<1>16. g[0] = 0
  <2>1. k \div p[1] = 0
    <3>1. (0 * p[1] + k) \div p[1] = 0
      BY <1>3, <1>4, Parts
    <3>2. 0 * p[1] + k = k
      BY <1>3, <1>4
    <3> QED
      BY <3>1, <3>2
  <2>2. 0 \in 0..n /\ 0 + 1 = 1
    BY <1>1
  <2>3. g[0] = (k \div p[0 + 1]) * p[0 + 1]
    BY <2>2
  <2>4. 0 * p[1] = 0
    BY <1>3
  <2> QED
    BY <2>1, <2>2, <2>3, <2>4
<1>17. \A d \in 1..n : g[d] = g[d - 1] + a[d] * v[d]
  <2> TAKE d \in 1..n
  <2> DEFINE w == p[d + 1]
             y == c[d]
             q == k \div w
  <2>1. d \in 0..n /\ d - 1 \in 0..n /\ (d - 1) + 1 = d
    BY <1>1
  <2>2. w \in Nat \ {0} /\ y \in Nat \ {0} /\ p[d] = y * w /\ v[d] = w
    BY <1>1, <1>2, <1>7, <1>11
  <2>3. g[d] = q * w /\ g[d - 1] = (k \div p[d]) * p[d]
    BY <2>1
  <2>4. a[d] = q % y
    BY <1>12
  <2> HIDE DEF w, y, g
  <2>5. q \in Nat
    BY <1>4, <2>2, PartsOf
  <2>6. k \div (y * w) = q \div y
    BY <1>4, <2>2, DividedTwice
  <2> HIDE DEF q
  <2> DEFINE t == q \div y
             m == q % y
  <2>7. t \in Nat /\ m \in 0..(y - 1) /\ q = (t * y) + m
    BY <2>2, <2>5, PartsOf
  <2>8. g[d] = q * w /\ g[d - 1] = t * (y * w) /\ a[d] * v[d] = m * w
    BY <2>2, <2>3, <2>4, <2>6
  <2> HIDE DEF t, m
  <2>9. ((t * y) + m) * w = t * (y * w) + m * w
    BY <2>2, <2>7
  <2> QED
    BY <2>7, <2>8, <2>9
<1>18. g[n] = k
  <2>1. n \in 0..n /\ p[n + 1] = 1
    BY <1>1, <1>2
  <2>2. g[n] = (k \div 1) * 1
    BY <2>1
  <2>3. (k \div 1) * 1 = k
    BY <1>4
  <2> QED
    BY <2>2, <2>3
<1> HIDE DEF g
<1>19. a \in Seq(Nat) /\ Len(a) = n /\ v \in Seq(Nat) /\ Len(v) = n
  BY <1>1, <1>5, <1>7, <1>13 DEF Fits
<1>20. Dot(a, v) = g[n]
  <2>1. IsSums(g, a, v)
    BY <1>15, <1>16, <1>17, <1>19 DEF IsSums
  <2> HIDE DEF n
  <2> QED
    BY <1>19, <2>1, SumsAre
<1> QED
  BY <1>13, <1>18, <1>20 DEF Place, a, v

\* The coordinates of a block are those that fit it.
LEMMA CoordinatesAre ==
  ASSUME NEW c \in Seq(Nat)
  PROVE  Coordinates(c) = {a \in Seq(Nat) : Fits(a, c)}
<1>1. ASSUME NEW a \in Coordinates(c) PROVE a \in Seq(Nat) /\ Fits(a, c)
  <2>1. PICK k \in 0..(Product(c) - 1) : a = Unravel(k, c)
    BY DEF Coordinates
  <2>2. Fits(a, c)
    BY <2>1, UnravelPlace
  <2> QED
    BY <2>2 DEF Fits
<1>2. ASSUME NEW a \in Seq(Nat), Fits(a, c) PROVE a \in Coordinates(c)
  <2> DEFINE k == Place(a, c)
  <2>1. k \in 0..(Product(c) - 1)
    BY <1>2, PlaceBelow
  <2>2. Fits(Unravel(k, c), c) /\ Place(Unravel(k, c), c) = k
    BY <2>1, UnravelPlace
  <2>3. a = Unravel(k, c)
    BY <1>2, <2>2, PlaceSame
  <2> QED
    BY <2>1, <2>3 DEF Coordinates
<1> QED
  BY <1>1, <1>2
-------------------------------------------------------------------------------
(***************************************************************************)
(* Chunks on a grid.                                                       *)
(***************************************************************************)
\* How many chunks there are in each dimension, and in which of them, counted in
\* each dimension, a value is.
Counts(s, cs) == [d \in 1..Len(s) |-> CeilDiv(s[d], cs[d])]
Cell(x, cs)   == [d \in 1..Len(x) |-> x[d] \div cs[d]]

\* Where chunks begin.
OnGrid(o, s, cs) ==
  /\ o \in Seq(Nat) /\ Len(o) = Len(s)
  /\ \A d \in 1..Len(s) : o[d] \in {k * cs[d] : k \in 0..(CeilDiv(s[d], cs[d]) - 1)}

\* The shapes of a dataset and of its chunks.
Shapely(s, cs) == s \in Seq(Nat) /\ cs \in Seq(Nat \ {0}) /\ Len(cs) = Len(s)

\* The number of chunks along a dimension: each index is in one of them, and each
\* of them begins inside.
LEMMA Ceiling ==
  ASSUME NEW s \in Nat, NEW w \in Nat \ {0}
  PROVE  /\ CeilDiv(s, w) \in Nat
         /\ \A x \in Nat : x < s => x \div w \in 0..(CeilDiv(s, w) - 1)
         /\ \A k \in 0..(CeilDiv(s, w) - 1) : k * w < s
<1> DEFINE t == CeilDiv(s, w)
           r == (s + w - 1) % w
<1>1. s + w - 1 \in Nat
  OBVIOUS
<1>2. t \in Nat /\ r \in 0..(w - 1) /\ s + w - 1 = (t * w) + r
  BY <1>1, PartsOf DEF CeilDiv
<1> HIDE DEF t, r
<1>3. t * w \in Nat /\ s <= t * w /\ t * w < s + w
  BY <1>2
<1>4. ASSUME NEW x \in Nat, x < s PROVE x \div w \in 0..(t - 1)
  <2> DEFINE q == x \div w
             b == x % w
  <2>1. q \in Nat /\ b \in 0..(w - 1) /\ x = (q * w) + b
    BY PartsOf
  <2> HIDE DEF q, b
  <2>2. q * w < t * w /\ q * w \in Nat
    BY <1>3, <1>4, <2>1
  <2>3. ASSUME t <= q PROVE FALSE
    <3>1. t * w <= q * w
      BY <1>2, <2>1, <2>3, TimesOrder
    <3> QED
      BY <1>3, <2>2, <3>1
  <2>4. q < t
    BY <1>2, <2>1, <2>3
  <2> QED
    BY <1>2, <2>1, <2>4 DEF q
<1>5. ASSUME NEW k \in 0..(t - 1) PROVE k * w < s
  <2>1. k * w + w <= t * w /\ k * w \in Nat
    BY <1>2, TimesOrder
  <2> QED
    BY <1>3, <2>1
<1> QED
  BY <1>2, <1>4, <1>5 DEF t

\* A number is in the part that begins before it and ends after it.
LEMMA InPart ==
  ASSUME NEW x \in Nat, NEW w \in Nat \ {0}, NEW k \in Nat
  PROVE  (k * w <= x /\ x < k * w + w) <=> x \div w = k
<1>1. ASSUME k * w <= x, x < k * w + w PROVE x \div w = k
  <2> DEFINE b == x - k * w
  <2>1. b \in 0..(w - 1) /\ x = k * w + b
    BY <1>1
  <2> HIDE DEF b
  <2> QED
    BY <2>1, Parts
<1>2. ASSUME x \div w = k PROVE k * w <= x /\ x < k * w + w
  <2>1. x % w \in 0..(w - 1) /\ x = (k * w) + (x % w)
    BY <1>2, PartsOf
  <2> DEFINE b == x % w
  <2> HIDE DEF b
  <2>2. b \in 0..(w - 1) /\ x = (k * w) + b
    BY <2>1 DEF b
  <2>3. k * w \in Nat
    OBVIOUS
  <2> QED
    BY <2>2, <2>3
<1> QED
  BY <1>1, <1>2

\* The chunks along each dimension.
LEMMA CountsAre ==
  ASSUME NEW s, NEW cs, Shapely(s, cs)
  PROVE  /\ Counts(s, cs) \in Seq(Nat) /\ Len(Counts(s, cs)) = Len(s)
         /\ \A d \in 1..Len(s) : Counts(s, cs)[d] = CeilDiv(s[d], cs[d])
<1>1. Len(s) \in Nat /\ \A d \in 1..Len(s) : s[d] \in Nat /\ cs[d] \in Nat \ {0}
  BY DEF Shapely
<1>2. \A d \in 1..Len(s) : CeilDiv(s[d], cs[d]) \in Nat
  BY <1>1, Ceiling
<1> QED
  BY <1>1, <1>2 DEF Counts

\* A chunk is the beginning of a cell of the grid,
LEMMA CellOfChunk ==
  ASSUME NEW s, NEW cs, Shapely(s, cs), NEW o, OnGrid(o, s, cs)
  PROVE  /\ Fits(Cell(o, cs), Counts(s, cs))
         /\ \A d \in 1..Len(s) : o[d] = Cell(o, cs)[d] * cs[d]
<1>1. /\ Len(s) \in Nat /\ Len(o) = Len(s)
      /\ \A d \in 1..Len(s) : s[d] \in Nat /\ cs[d] \in Nat \ {0} /\ o[d] \in Nat
  BY DEF Shapely, OnGrid
<1>2. ASSUME NEW d \in 1..Len(s)
      PROVE  /\ o[d] \div cs[d] \in 0..(CeilDiv(s[d], cs[d]) - 1)
             /\ o[d] = (o[d] \div cs[d]) * cs[d]
  <2>1. PICK k \in 0..(CeilDiv(s[d], cs[d]) - 1) : o[d] = k * cs[d]
    BY DEF OnGrid
  <2> DEFINE w == cs[d]
  <2>2. w \in Nat \ {0} /\ k \in Int /\ 0 \in 0..(w - 1)
    BY <1>1
  <2>3. (k * w + 0) \div w = k
    <3> HIDE DEF w
    <3> QED
      BY <2>2, Parts
  <2>4. k * w + 0 = k * w
    BY <2>2
  <2> QED
    BY <2>1, <2>3, <2>4
<1>3. Cell(o, cs) = [d \in 1..Len(s) |-> o[d] \div cs[d]]
  BY <1>1 DEF Cell
<1>4. \A d \in 1..Len(s) : CeilDiv(s[d], cs[d]) \in Nat
  BY <1>1, Ceiling
<1>5. \A d \in 1..Len(s) : Cell(o, cs)[d] \in Nat /\ Cell(o, cs)[d] < CeilDiv(s[d], cs[d])
  BY <1>2, <1>3, <1>4
<1>6. Cell(o, cs) \in Seq(Nat) /\ Len(Cell(o, cs)) = Len(s)
  BY <1>1, <1>3, <1>5
<1>7. Fits(Cell(o, cs), Counts(s, cs))
  BY <1>5, <1>6, CountsAre DEF Fits
<1>8. \A d \in 1..Len(s) : o[d] = Cell(o, cs)[d] * cs[d]
  BY <1>2, <1>3
<1> QED
  BY <1>7, <1>8

\* and a value is in one.
LEMMA CellOfValue ==
  ASSUME NEW s, NEW cs, Shapely(s, cs), NEW x, Fits(x, s)
  PROVE  Fits(Cell(x, cs), Counts(s, cs))
<1>1. /\ Len(s) \in Nat /\ Len(x) = Len(s)
      /\ \A d \in 1..Len(s) : s[d] \in Nat /\ cs[d] \in Nat \ {0} /\ x[d] \in Nat /\ x[d] < s[d]
  BY DEF Shapely, Fits
<1>2. \A d \in 1..Len(s) : x[d] \div cs[d] \in 0..(CeilDiv(s[d], cs[d]) - 1)
                            /\ CeilDiv(s[d], cs[d]) \in Nat
  BY <1>1, Ceiling
<1>3. Cell(x, cs) = [d \in 1..Len(s) |-> x[d] \div cs[d]]
  BY <1>1 DEF Cell
<1>4. \A d \in 1..Len(s) : Cell(x, cs)[d] \in Nat /\ Cell(x, cs)[d] < CeilDiv(s[d], cs[d])
  BY <1>2, <1>3
<1>5. Cell(x, cs) \in Seq(Nat) /\ Len(Cell(x, cs)) = Len(s)
  BY <1>1, <1>3, <1>4
<1> QED
  BY <1>4, <1>5, CountsAre DEF Fits

\* A chunk holds the values that are in its cell.
LEMMA CellHolds ==
  ASSUME NEW s, NEW cs, Shapely(s, cs), NEW x, Fits(x, s), NEW c, OnGrid(c.offset, s, cs)
  PROVE  Holds(c, x, cs) <=> Cell(c.offset, cs) = Cell(x, cs)
<1> DEFINE o == c.offset
<1>1. /\ Len(s) \in Nat /\ Len(x) = Len(s) /\ Len(o) = Len(s)
      /\ \A d \in 1..Len(s) : cs[d] \in Nat \ {0} /\ x[d] \in Nat
  <2>1. Len(s) \in Nat /\ Len(cs) = Len(s) /\ \A d \in 1..Len(s) : cs[d] \in Nat \ {0}
    BY DEF Shapely
  <2>2. Len(x) = Len(s) /\ \A d \in 1..Len(s) : x[d] \in Nat
    BY <2>1 DEF Fits
  <2>3. Len(o) = Len(s)
    BY DEF OnGrid
  <2> QED
    BY <2>1, <2>2, <2>3
<1>2. /\ Fits(Cell(o, cs), Counts(s, cs))
      /\ \A d \in 1..Len(s) : o[d] = Cell(o, cs)[d] * cs[d]
  BY CellOfChunk
<1>3. /\ Cell(o, cs) = [d \in 1..Len(s) |-> o[d] \div cs[d]]
      /\ Cell(x, cs) = [d \in 1..Len(s) |-> x[d] \div cs[d]]
  BY <1>1 DEF Cell
<1>4. \A d \in 1..Len(s) : Cell(o, cs)[d] \in Nat
  BY <1>2, CountsAre DEF Fits
<1> HIDE DEF o
<1>5. \A d \in 1..Len(s) : (o[d] <= x[d] /\ x[d] < o[d] + cs[d]) <=> Cell(x, cs)[d] = Cell(o, cs)[d]
  <2> TAKE d \in 1..Len(s)
  <2> DEFINE k == Cell(o, cs)[d]
             w == cs[d]
             y == x[d]
  <2>1. k \in Nat /\ w \in Nat \ {0} /\ y \in Nat /\ o[d] = k * w /\ Cell(x, cs)[d] = y \div w
    BY <1>1, <1>2, <1>3, <1>4
  <2> HIDE DEF k, w, y
  <2>2. (k * w <= y /\ y < k * w + w) <=> y \div w = k
    BY <2>1, InPart
  <2> QED
    BY <2>1, <2>2 DEF k, w, y
<1>6. Cell(o, cs) = Cell(x, cs) <=> \A d \in 1..Len(s) : Cell(x, cs)[d] = Cell(o, cs)[d]
  <2>1. DOMAIN Cell(o, cs) = 1..Len(s) /\ DOMAIN Cell(x, cs) = 1..Len(s)
    BY <1>3
  <2>2. ASSUME \A d \in 1..Len(s) : Cell(x, cs)[d] = Cell(o, cs)[d]
        PROVE  Cell(o, cs) = Cell(x, cs)
    <3>1. \A d \in 1..Len(s) : x[d] \div cs[d] = o[d] \div cs[d]
      BY <1>3, <2>2
    <3> QED
      BY <1>3, <3>1
  <2> QED
    BY <2>2
<1>7. Holds(c, x, cs) <=> \A d \in 1..Len(s) : o[d] <= x[d] /\ x[d] < o[d] + cs[d]
  BY <1>1 DEF Holds, o
<1> QED
  BY <1>5, <1>6, <1>7 DEF o

\* Chunks that begin in order are in cells in order.
LEMMA CellOrder ==
  ASSUME NEW s, NEW cs, Shapely(s, cs), NEW a, NEW b, OnGrid(a, s, cs), OnGrid(b, s, cs),
         Precedes(a, b)
  PROVE  Precedes(Cell(a, cs), Cell(b, cs))
<1>1. /\ Len(s) \in Nat /\ Len(a) = Len(s) /\ Len(b) = Len(s)
      /\ \A d \in 1..Len(s) : cs[d] \in Nat \ {0}
  BY DEF Shapely, OnGrid
<1>2. /\ Fits(Cell(a, cs), Counts(s, cs)) /\ Fits(Cell(b, cs), Counts(s, cs))
      /\ \A d \in 1..Len(s) : a[d] = Cell(a, cs)[d] * cs[d]
      /\ \A d \in 1..Len(s) : b[d] = Cell(b, cs)[d] * cs[d]
  BY CellOfChunk
<1>3. /\ \A d \in 1..Len(s) : Cell(a, cs)[d] \in Nat /\ Cell(b, cs)[d] \in Nat
      /\ Len(Cell(a, cs)) = Len(s)
  BY <1>2, CountsAre DEF Fits
<1>4. /\ Cell(a, cs) = [d \in 1..Len(s) |-> a[d] \div cs[d]]
      /\ Cell(b, cs) = [d \in 1..Len(s) |-> b[d] \div cs[d]]
  BY <1>1 DEF Cell
<1>5. PICK d \in 1..Len(s) : a[d] < b[d] /\ \A e \in 1..(d - 1) : a[e] = b[e]
  BY <1>1 DEF Precedes
<1>6. \A e \in 1..(d - 1) : Cell(a, cs)[e] = Cell(b, cs)[e]
  <2> TAKE e \in 1..(d - 1)
  <2>1. e \in 1..Len(s)
    BY <1>1
  <2> QED
    BY <1>4, <1>5, <2>1
<1> DEFINE i == Cell(a, cs)[d]
           j == Cell(b, cs)[d]
           w == cs[d]
<1>7. i \in Nat /\ j \in Nat /\ w \in Nat \ {0} /\ i * w < j * w
  BY <1>1, <1>2, <1>3, <1>5
<1> HIDE DEF i, j, w
<1>8. i < j
  <2>1. ASSUME j <= i PROVE FALSE
    <3>1. j * w <= i * w /\ i * w \in Nat /\ j * w \in Nat
      BY <1>7, <2>1, TimesOrder
    <3> QED
      BY <1>7, <3>1
  <2> QED
    BY <1>7, <2>1
<1> QED
  BY <1>3, <1>6, <1>8 DEF Precedes, i, j

\* A cell has one beginning.
LEMMA CellSame ==
  ASSUME NEW s, NEW cs, Shapely(s, cs), NEW a, NEW b, OnGrid(a, s, cs), OnGrid(b, s, cs),
         Cell(a, cs) = Cell(b, cs)
  PROVE  a = b
<1>1. /\ \A d \in 1..Len(s) : a[d] = Cell(a, cs)[d] * cs[d]
      /\ \A d \in 1..Len(s) : b[d] = Cell(b, cs)[d] * cs[d]
  BY CellOfChunk
<1>2. \A d \in 1..Len(s) : a[d] = b[d]
  BY <1>1
<1>3. Len(s) \in Nat /\ a \in [1..Len(s) -> Nat] /\ b \in [1..Len(s) -> Nat]
  <2>1. Len(s) \in Nat
    BY DEF Shapely
  <2>2. a \in Seq(Nat) /\ Len(a) = Len(s) /\ b \in Seq(Nat) /\ Len(b) = Len(s)
    BY DEF OnGrid
  <2> QED
    BY <2>1, <2>2
<1> QED
  BY <1>2, <1>3

\* As many numbers as there are, in order, are all of them; and all of them are as
\* many.
LEMMA Increasing ==
  ASSUME NEW n \in Nat, NEW m \in Nat, NEW r \in [1..n -> 0..(m - 1)],
         \A i, j \in 1..n : i < j => r[i] < r[j]
  PROVE  /\ n = m => \A i \in 1..n : r[i] = i - 1
         /\ (\A k \in 0..(m - 1) : \E i \in 1..n : r[i] = k) => n = m
<1>1. \A i \in 1..n : r[i] \in Int /\ 0 <= r[i] /\ r[i] < m
  OBVIOUS
<1> DEFINE Q(k) == k <= r[k + 1]
           E    == {k \in Nat : k + 1 <= n => Q(k)}
<1>2. \A i \in 1..n : i - 1 <= r[i]
  <2>1. 0 \in E
    BY <1>1
  <2>2. \A k \in E : k + 1 \in E
    <3> HIDE DEF Q
    <3> SUFFICES ASSUME NEW k \in E, (k + 1) + 1 <= n PROVE Q(k + 1)
      OBVIOUS
    <3>1. k \in Nat /\ k + 1 \in 1..n /\ (k + 1) + 1 \in 1..n /\ Q(k)
      OBVIOUS
    <3>2. r[k + 1] < r[(k + 1) + 1] /\ r[k + 1] \in Int /\ r[(k + 1) + 1] \in Int
      BY <1>1, <3>1
    <3> QED
      BY <3>1, <3>2 DEF Q
  <2>3. E = Nat
    <3>1. E \in SUBSET Nat
      OBVIOUS
    <3> HIDE DEF E
    <3> QED
      BY <2>1, <2>2, <3>1, SetInduction
  <2>4. \A k \in Nat : k + 1 <= n => k <= r[k + 1]
    BY <2>3
  <2> TAKE i \in 1..n
  <2>5. i - 1 \in Nat /\ (i - 1) + 1 = i
    OBVIOUS
  <2> QED
    BY <2>4, <2>5
<1> HIDE DEF E, Q
<1>3. ASSUME n = m PROVE \A i \in 1..n : r[i] = i - 1
  <2> DEFINE U(k) == r[n - k] <= (n - 1) - k
             F    == {k \in Nat : k + 1 <= n => U(k)}
  <2>1. 0 \in F
    <3> SUFFICES ASSUME 1 <= n PROVE r[n] <= n - 1
      OBVIOUS
    <3> QED
      BY <1>1, <1>3
  <2>2. \A k \in F : k + 1 \in F
    <3> HIDE DEF U
    <3> SUFFICES ASSUME NEW k \in F, (k + 1) + 1 <= n PROVE U(k + 1)
      OBVIOUS
    <3>1. k \in Nat /\ n - (k + 1) \in 1..n /\ n - k \in 1..n /\ n - (k + 1) < n - k /\ U(k)
      OBVIOUS
    <3>2. r[n - (k + 1)] < r[n - k] /\ r[n - (k + 1)] \in Int /\ r[n - k] \in Int
      BY <1>1, <3>1
    <3> QED
      BY <3>1, <3>2 DEF U
  <2>3. F = Nat
    <3>1. F \in SUBSET Nat
      OBVIOUS
    <3> HIDE DEF F
    <3> QED
      BY <2>1, <2>2, <3>1, SetInduction
  <2>4. \A k \in Nat : k + 1 <= n => r[n - k] <= (n - 1) - k
    BY <2>3
  <2> TAKE i \in 1..n
  <2>5. n - i \in Nat /\ (n - i) + 1 <= n /\ n - (n - i) = i /\ (n - 1) - (n - i) = i - 1
    OBVIOUS
  <2>6. r[i] <= i - 1
    BY <2>4, <2>5
  <2> QED
    BY <1>1, <1>2, <2>6
<1>4. ASSUME \A k \in 0..(m - 1) : \E i \in 1..n : r[i] = k PROVE n = m
  <2> DEFINE U(k) == k + 1 <= n /\ r[k + 1] = k
             F    == {k \in Nat : k < m => U(k)}
  <2>1. 0 \in F
    <3> SUFFICES ASSUME 0 < m PROVE 1 <= n /\ r[1] = 0
      OBVIOUS
    <3>1. PICK i \in 1..n : r[i] = 0
      BY <1>4
    <3>2. 1 \in 1..n /\ (i = 1 \/ 1 < i)
      OBVIOUS
    <3> QED
      BY <1>1, <3>1, <3>2
  <2>2. \A k \in F : k + 1 \in F
    <3> HIDE DEF U
    <3> SUFFICES ASSUME NEW k \in F, k + 1 < m PROVE U(k + 1)
      OBVIOUS
    <3>1. k \in Nat /\ k + 1 <= n /\ r[k + 1] = k /\ k + 1 \in 1..n
      BY DEF U
    <3>2. PICK i \in 1..n : r[i] = k + 1
      BY <1>4, <3>1
    <3>3. k + 1 < i
      <4>1. ASSUME i < k + 1 PROVE FALSE
        BY <3>1, <3>2, <4>1
      <4>2. i # k + 1
        BY <3>1, <3>2
      <4> QED
        BY <3>1, <4>1, <4>2
    <3>4. (k + 1) + 1 \in 1..n /\ ((k + 1) + 1 = i \/ (k + 1) + 1 < i)
      BY <3>1, <3>3
    <3>5. r[(k + 1) + 1] \in Int /\ ((k + 1) + 1) - 1 <= r[(k + 1) + 1] /\ r[(k + 1) + 1] <= k + 1
      BY <1>1, <1>2, <3>1, <3>2, <3>4
    <3> QED
      BY <3>1, <3>4, <3>5 DEF U
  <2>3. F = Nat
    <3>1. F \in SUBSET Nat
      OBVIOUS
    <3> HIDE DEF F
    <3> QED
      BY <2>1, <2>2, <3>1, SetInduction
  <2>4. \A k \in Nat : k < m => k + 1 <= n
    BY <2>3
  <2>5. m <= n
    <3>1. CASE m = 0
      BY <3>1
    <3>2. CASE m # 0
      <4>1. m - 1 \in Nat /\ m - 1 < m /\ (m - 1) + 1 = m
        BY <3>2
      <4> QED
        BY <2>4, <4>1
    <3> QED
      BY <3>1, <3>2
  <2>6. n <= m
    <3>1. CASE n = 0
      BY <3>1
    <3>2. CASE n # 0
      <4>1. n \in 1..n
        BY <3>2
      <4> QED
        BY <1>1, <1>2, <4>1
    <3> QED
      BY <3>1, <3>2
  <2> QED
    BY <2>5, <2>6
<1> QED
  BY <1>3, <1>4

\* Chunks of a dataset in the order of their first coordinates.
Sorted(chunks, s, cs) ==
  /\ Len(chunks) \in Nat
  /\ \A i \in 1..Len(chunks) : OnGrid(chunks[i].offset, s, cs)
  /\ \A i, j \in 1..Len(chunks) : i < j => Precedes(chunks[i].offset, chunks[j].offset)

\* The places of the chunks in the grid.
Spots(chunks, s, cs) ==
  [i \in 1..Len(chunks) |-> Place(Cell(chunks[i].offset, cs), Counts(s, cs))]

\* Sorted chunks are at increasing places of the grid.
LEMMA SpotsIncrease ==
  ASSUME NEW s, NEW cs, Shapely(s, cs), NEW chunks, Sorted(chunks, s, cs)
  PROVE  LET r == Spots(chunks, s, cs)
             N == Product(Counts(s, cs))
         IN /\ N \in Nat /\ r \in [1..Len(chunks) -> 0..(N - 1)]
            /\ \A i, j \in 1..Len(chunks) : i < j => r[i] < r[j]
<1> DEFINE r == Spots(chunks, s, cs)
           c == Counts(s, cs)
           N == Product(c)
<1>1. c \in Seq(Nat)
  BY CountsAre
<1>2. N \in Nat
  <2>1. SuffixProducts(c) \in [1..(Len(c) + 1) -> Nat] /\ 1 \in 1..(Len(c) + 1)
    <3>1. Len(c) \in Nat
      BY <1>1
    <3> QED
      BY <1>1, <3>1, ProductsAre
  <2> QED
    BY <2>1 DEF Product
<1>3. \A i \in 1..Len(chunks) :
        /\ Fits(Cell(chunks[i].offset, cs), c)
        /\ r[i] = Place(Cell(chunks[i].offset, cs), c)
  BY CellOfChunk DEF Sorted, Spots
<1>4. \A i \in 1..Len(chunks) : r[i] \in 0..(N - 1)
  BY <1>1, <1>3, PlaceBelow
<1>5. ASSUME NEW i \in 1..Len(chunks), NEW j \in 1..Len(chunks), i < j
      PROVE  r[i] < r[j]
  <2>1. Precedes(Cell(chunks[i].offset, cs), Cell(chunks[j].offset, cs))
    BY <1>5, CellOrder DEF Sorted
  <2> QED
    BY <1>1, <1>3, <2>1, PlaceOrder
<1>6. r \in [1..Len(chunks) -> 0..(N - 1)]
  BY <1>4 DEF Spots
<1> QED
  BY <1>2, <1>5, <1>6

\* As many chunks as cover the dataset are found by arithmetic,
LEMMA ChunkFound ==
  ASSUME NEW s, NEW cs, Shapely(s, cs), NEW chunks, Sorted(chunks, s, cs),
         Len(chunks) = Product(Counts(s, cs)), NEW x \in Coordinates(s)
  PROVE  LET ds == New(s, chunks, cs)
         IN /\ ChunkIndex(ds, x) \in 1..Len(chunks)
            /\ ChunkAtCoord(ds, x) = chunks[ChunkIndex(ds, x)]
            /\ Holds(ChunkAtCoord(ds, x), x, cs)
<1> DEFINE r  == Spots(chunks, s, cs)
           c  == Counts(s, cs)
           k  == Place(Cell(x, cs), c)
           ds == New(s, chunks, cs)
<1>1. Fits(x, s) /\ Len(x) = Len(s) /\ c \in Seq(Nat)
  BY CoordinatesAre, CountsAre DEF Fits, Shapely
<1>2. Fits(Cell(x, cs), c)
  BY <1>1, CellOfValue
<1>3. k \in 0..(Len(chunks) - 1)
  BY <1>1, <1>2, PlaceBelow
<1>4. ChunkIndex(ds, x) = 1 + k /\ ds.chunks = chunks
  <2>1. ds.chunk_shape = cs /\ ds.scaled_dim_sz = DimSizes(c) /\ ds.chunks = chunks
    BY DEF New, Counts
  <2>2. [d \in 1..Len(x) |-> x[d] \div ds.chunk_shape[d]] = Cell(x, cs)
    BY <2>1 DEF Cell
  <2> HIDE DEF ds
  <2> QED
    BY <2>1, <2>2 DEF ChunkIndex, Place
<1> HIDE DEF k, ds, r
<1>5. 1 + k \in 1..Len(chunks) /\ (1 + k) - 1 = k
  BY <1>3 DEF Sorted
<1>6. r[1 + k] = k
  <2>1. \A i \in 1..Len(chunks) : r[i] = i - 1
    <3>1. /\ r \in [1..Len(chunks) -> 0..(Len(chunks) - 1)]
          /\ \A i, j \in 1..Len(chunks) : i < j => r[i] < r[j]
      BY SpotsIncrease DEF r
    <3>2. Len(chunks) \in Nat
      BY DEF Sorted
    <3> DEFINE n == Len(chunks)
    <3> HIDE DEF n
    <3> QED
      BY <3>1, <3>2, Increasing DEF n
  <2> QED
    BY <1>5, <2>1
<1> DEFINE o == chunks[1 + k].offset
<1>7. Fits(Cell(o, cs), c) /\ Place(Cell(o, cs), c) = Place(Cell(x, cs), c) /\ OnGrid(o, s, cs)
  <2>1. OnGrid(o, s, cs)
    BY <1>5 DEF Sorted
  <2>2. r[1 + k] = Place(Cell(o, cs), c)
    BY <1>5 DEF r, Spots
  <2>3. Fits(Cell(o, cs), c)
    BY <2>1, CellOfChunk
  <2> QED
    BY <1>6, <2>1, <2>2, <2>3 DEF k
<1>8. Cell(o, cs) = Cell(x, cs)
  BY <1>1, <1>2, <1>7, PlaceSame
<1>9. Holds(chunks[1 + k], x, cs)
  BY <1>1, <1>7, <1>8, CellHolds
<1>10. ChunkAtCoord(ds, x) = chunks[1 + k]
  BY <1>4 DEF ChunkAtCoord
<1> QED
  BY <1>4, <1>5, <1>9, <1>10 DEF ds

\* and there are not as many when some value is in none.
LEMMA ChunksCover ==
  ASSUME NEW s, NEW cs, Shapely(s, cs), NEW chunks, Sorted(chunks, s, cs),
         \A x \in Coordinates(s) : \E i \in 1..Len(chunks) : Holds(chunks[i], x, cs)
  PROVE  Len(chunks) = Product(Counts(s, cs))
<1> DEFINE r == Spots(chunks, s, cs)
           c == Counts(s, cs)
           N == Product(c)
           n == Len(chunks)
<1>1. /\ n \in Nat /\ N \in Nat /\ r \in [1..n -> 0..(N - 1)]
      /\ \A i, j \in 1..n : i < j => r[i] < r[j]
  BY SpotsIncrease DEF Sorted
<1>2. /\ c \in Seq(Nat) /\ Len(c) = Len(s) /\ \A d \in 1..Len(s) : c[d] = CeilDiv(s[d], cs[d])
      /\ Len(s) \in Nat /\ \A d \in 1..Len(s) : s[d] \in Nat /\ cs[d] \in Nat \ {0}
  BY CountsAre DEF Shapely
<1>3. ASSUME NEW k \in 0..(N - 1) PROVE \E i \in 1..n : r[i] = k
  <2> DEFINE a == Unravel(k, c)
             x == [d \in 1..Len(s) |-> a[d] * cs[d]]
  <2>1. Fits(a, c) /\ Place(a, c) = k
    BY <1>2, UnravelPlace
  <2> HIDE DEF a
  <2>2. /\ a \in Seq(Nat) /\ Len(a) = Len(s)
        /\ \A d \in 1..Len(s) : a[d] \in Nat /\ a[d] \in 0..(CeilDiv(s[d], cs[d]) - 1)
    <3>1. a \in Seq(Nat) /\ Len(a) = Len(s) /\ \A d \in 1..Len(s) : a[d] < c[d]
      BY <1>2, <2>1 DEF Fits
    <3>2. \A d \in 1..Len(s) : CeilDiv(s[d], cs[d]) \in Nat
      BY <1>2, Ceiling
    <3> QED
      BY <1>2, <3>1, <3>2
  <2>3. \A d \in 1..Len(s) : a[d] * cs[d] \in Nat /\ a[d] * cs[d] < s[d]
    <3> TAKE d \in 1..Len(s)
    <3>1. a[d] * cs[d] < s[d]
      BY <1>2, <2>2, Ceiling
    <3>2. a[d] * cs[d] \in Nat
      BY <1>2, <2>2, TimesOrder
    <3> QED
      BY <3>1, <3>2
  <2>4. x \in Seq(Nat) /\ Len(x) = Len(s) /\ \A d \in 1..Len(s) : x[d] = a[d] * cs[d]
    BY <1>2, <2>3
  <2> HIDE DEF x
  <2>5. Fits(x, s)
    BY <2>3, <2>4 DEF Fits
  <2>6. x \in Coordinates(s)
    BY <2>5, CoordinatesAre DEF Fits, Shapely
  <2>7. PICK i \in 1..n : Holds(chunks[i], x, cs)
    BY <2>6
  <2>8. Cell(chunks[i].offset, cs) = Cell(x, cs)
    BY <2>5, <2>7, CellHolds DEF Sorted
  <2>9. Cell(x, cs) = a
    <3>1. \A d \in 1..Len(s) : x[d] \div cs[d] = a[d]
      <4> TAKE d \in 1..Len(s)
      <4> DEFINE y == a[d]
                 w == cs[d]
      <4>1. y \in Nat /\ w \in Nat \ {0} /\ x[d] = y * w
        <5>1. a[d] \in Nat
          BY <2>2
        <5>2. cs[d] \in Nat \ {0}
          BY <1>2
        <5>3. x[d] = a[d] * cs[d]
          BY <2>4
        <5> QED
          BY <5>1, <5>2, <5>3
      <4> HIDE DEF y, w
      <4>2. (y * w + 0) \div w = y /\ y * w + 0 = y * w
        <5>1. y \in Int /\ 0 \in 0..(w - 1) /\ y * w + 0 = y * w
          BY <4>1
        <5> QED
          BY <4>1, <5>1, Parts
      <4> QED
        BY <4>1, <4>2 DEF y, w
    <3>2. Cell(x, cs) = [d \in 1..Len(s) |-> a[d]]
      BY <2>4, <3>1 DEF Cell
    <3>3. a = [d \in 1..Len(s) |-> a[d]]
      BY <2>2
    <3> QED
      BY <3>2, <3>3
  <2>10. r[i] = k
    BY <2>1, <2>8, <2>9 DEF Spots
  <2> QED
    BY <2>10
<1> HIDE DEF r, N, n
<1>4. n = N
  BY <1>1, <1>3, Increasing
<1> QED
  BY <1>4 DEF n, N

-------------------------------------------------------------------------------
(*****************************************************************************)
(* Scalar products term by term, and the coordinates of a block as an odometer. *)
(***************************************************************************)
\* The sums of a scalar product: one term after the other.
LEMMA SumsExist ==
  ASSUME NEW u \in Seq(Nat), NEW v \in Seq(Nat), Len(v) = Len(u)
  PROVE  \E g : /\ g \in [0..Len(u) -> Nat] /\ Dot(u, v) = g[Len(u)] /\ g[0] = 0
                /\ \A d \in 1..Len(u) : g[d] = g[d - 1] + u[d] * v[d]
<1>1. PICK g : IsSums(g, u, v) /\ Dot(u, v) = g[Len(u)]
  BY DotSums
<1> QED
  BY <1>1 DEF IsSums

\* A sequence of natural numbers has one in every place.
LEMMA ElementIn ==
  ASSUME NEW u \in Seq(Nat), NEW i \in 1..Len(u)
  PROVE  u[i] \in Nat
<1> QED
  OBVIOUS

\* Vectors can be added term by term,
LEMMA DotAdds ==
  ASSUME NEW u \in Seq(Nat), NEW v \in Seq(Nat), NEW w \in Seq(Nat), NEW t \in Seq(Nat),
         Len(v) = Len(u), Len(w) = Len(u), Len(t) = Len(u),
         \A d \in 1..Len(u) : t[d] = u[d] + v[d]
  PROVE  Dot(t, w) = Dot(u, w) + Dot(v, w) /\ Dot(u, w) \in Nat /\ Dot(v, w) \in Nat
<1> DEFINE n == Len(u)
<1>1. n \in Nat /\ Len(t) = n /\ Len(v) = n /\ Len(w) = n
  OBVIOUS
<1>2. PICK g : /\ g \in [0..n -> Nat] /\ Dot(u, w) = g[n] /\ g[0] = 0
               /\ \A d \in 1..n : g[d] = g[d - 1] + u[d] * w[d]
  BY SumsExist
<1>3. PICK h : /\ h \in [0..n -> Nat] /\ Dot(v, w) = h[n] /\ h[0] = 0
               /\ \A d \in 1..n : h[d] = h[d - 1] + v[d] * w[d]
  BY <1>1, SumsExist
<1>4. PICK k : /\ k \in [0..n -> Nat] /\ Dot(t, w) = k[n] /\ k[0] = 0
               /\ \A d \in 1..n : k[d] = k[d - 1] + t[d] * w[d]
  BY <1>1, SumsExist
<1> DEFINE E == {d \in Nat : d <= n => k[d] = g[d] + h[d]}
<1>5. 0 \in E
  BY <1>2, <1>3, <1>4
<1>6. \A d \in E : d + 1 \in E
  <2> SUFFICES ASSUME NEW d \in E, d + 1 <= n PROVE k[d + 1] = g[d + 1] + h[d + 1]
    OBVIOUS
  <2>1. d \in Nat /\ d + 1 \in 1..n /\ (d + 1) - 1 = d /\ d \in 0..n /\ d + 1 \in 0..n
    BY <1>1
  <2>2. k[d] = g[d] + h[d]
    BY <1>1, <2>1
  <2>3. /\ k[d + 1] = k[d] + t[d + 1] * w[d + 1]
        /\ g[d + 1] = g[d] + u[d + 1] * w[d + 1]
        /\ h[d + 1] = h[d] + v[d + 1] * w[d + 1]
    <3> HIDE DEF n, E
    <3> QED
      BY <1>2, <1>3, <1>4, <2>1
  <2> DEFINE a == u[d + 1]
             b == v[d + 1]
             c == w[d + 1]
  <2>4. a \in Nat /\ b \in Nat /\ c \in Nat /\ t[d + 1] = a + b
    <3> DEFINE i == d + 1
    <3>1. i \in 1..Len(u) /\ i \in 1..Len(v) /\ i \in 1..Len(w)
      BY <1>1, <2>1
    <3> HIDE DEF i, n
    <3>2. u[i] \in Nat /\ v[i] \in Nat
      BY <3>1, ElementIn, Zenon
    <3>3. w[i] \in Nat
      BY <3>1, ElementIn, Zenon
    <3>4. t[i] = u[i] + v[i]
      BY <3>1
    <3> QED
      BY <3>2, <3>3, <3>4 DEF i
  <2>5. k[d] \in Nat /\ g[d] \in Nat /\ h[d] \in Nat
    BY <1>2, <1>3, <1>4, <2>1
  <2>6. (a + b) * c = a * c + b * c /\ a * c \in Nat /\ b * c \in Nat
    <3> HIDE DEF a, b, c
    <3> QED
      BY <2>4
  <2>7. k[d + 1] = k[d] + (a + b) * c
    BY <2>3, <2>4
  <2> HIDE DEF a, b, c, n, E
  <2>8. g[d + 1] = g[d] + a * c /\ h[d + 1] = h[d] + b * c
    BY <2>3 DEF a, b, c
  <2> DEFINE x == a * c
             y == b * c
  <2>9. k[d + 1] = (g[d] + h[d]) + (x + y) /\ g[d + 1] = g[d] + x /\ h[d + 1] = h[d] + y
        /\ x \in Nat /\ y \in Nat
    BY <2>2, <2>6, <2>7, <2>8
  <2> HIDE DEF x, y
  <2> QED
    BY <2>5, <2>9
<1>7. E = Nat
  <2>1. E \in SUBSET Nat
    OBVIOUS
  <2> HIDE DEF E
  <2> QED
    BY <1>5, <1>6, <2>1, SetInduction
<1>8. k[n] = g[n] + h[n]
  BY <1>1, <1>7
<1>9. n \in 0..n
  BY <1>1
<1> QED
  BY <1>2, <1>3, <1>4, <1>8, <1>9

\* the terms alone decide,
LEMMA DotSame ==
  ASSUME NEW u \in Seq(Nat), NEW v \in Seq(Nat), NEW w \in Seq(Nat),
         Len(v) = Len(u), Len(w) = Len(u),
         \A d \in 1..Len(u) : u[d] * v[d] = u[d] * w[d]
  PROVE  Dot(u, v) = Dot(u, w)
<1> DEFINE n == Len(u)
<1>1. PICK g : IsSums(g, u, v) /\ Dot(u, v) = g[n]
  BY DotSums
<1>2. IsSums(g, u, w)
  BY <1>1 DEF IsSums
<1> QED
  BY <1>1, <1>2, SumsAre

\* and none of them is more than the whole.
LEMMA TermBelow ==
  ASSUME NEW u \in Seq(Nat), NEW v \in Seq(Nat), Len(v) = Len(u), NEW d \in 1..Len(u)
  PROVE  u[d] * v[d] <= Dot(u, v) /\ u[d] * v[d] \in Nat /\ Dot(u, v) \in Nat
<1> DEFINE n == Len(u)
           m == u[d] * v[d]
<1>1. n \in Nat /\ \A e \in 1..n : u[e] \in Nat /\ v[e] \in Nat
  OBVIOUS
<1>2. PICK g : /\ g \in [0..n -> Nat] /\ Dot(u, v) = g[n] /\ g[0] = 0
               /\ \A e \in 1..n : g[e] = g[e - 1] + u[e] * v[e]
  BY SumsExist
<1>3. \A e \in 1..n : u[e] * v[e] \in Nat
  BY <1>1
<1>4. m \in Nat /\ m <= g[d]
  <2>1. d - 1 \in 0..n /\ d \in 0..n
    BY <1>1
  <2>2. g[d] = g[d - 1] + m /\ g[d - 1] \in Nat /\ m \in Nat
    BY <1>2, <1>3, <2>1
  <2> QED
    BY <2>2
<1> HIDE DEF m
<1> DEFINE E == {k \in Nat : d + k <= n => m <= g[d + k]}
<1>5. 0 \in E
  BY <1>1, <1>4
<1>6. \A k \in E : k + 1 \in E
  <2> SUFFICES ASSUME NEW k \in E, d + (k + 1) <= n PROVE m <= g[d + (k + 1)]
    OBVIOUS
  <2> DEFINE e == d + (k + 1)
  <2>1. k \in Nat /\ e \in 1..n /\ e - 1 = d + k /\ d + k <= n /\ d + k \in 0..n /\ e \in 0..n
    BY <1>1
  <2>2. m <= g[d + k]
    BY <2>1
  <2> HIDE DEF e, n
  <2>3. g[e] = g[e - 1] + u[e] * v[e] /\ u[e] * v[e] \in Nat /\ g[e - 1] \in Nat
    BY <1>2, <1>3, <2>1
  <2> DEFINE z == u[e] * v[e]
  <2> HIDE DEF z
  <2>4. m <= g[e]
    BY <1>4, <2>1, <2>2, <2>3 DEF z
  <2> QED
    BY <2>4 DEF e
<1>7. E = Nat
  <2>1. E \in SUBSET Nat
    OBVIOUS
  <2> HIDE DEF E
  <2> QED
    BY <1>5, <1>6, <2>1, SetInduction
<1>8. n - d \in Nat /\ d + (n - d) = n
  BY <1>1
<1>9. m <= g[n]
  <2>1. \A k \in Nat : d + k <= n => m <= g[d + k]
    BY <1>7
  <2>2. d + (n - d) <= n
    BY <1>1, <1>8
  <2>3. m <= g[d + (n - d)]
    BY <1>8, <2>1, <2>2
  <2> QED
    BY <1>8, <2>3
<1>10. g[n] \in Nat
  <2>1. n \in 0..n
    BY <1>1
  <2> QED
    BY <1>2, <2>1
<1> QED
  BY <1>2, <1>4, <1>9, <1>10 DEF m

\* If there is only one, it is the whole.
LEMMA OneTerm ==
  ASSUME NEW n \in Nat, NEW w \in Seq(Nat), Len(w) = n, NEW d \in 1..n, NEW x \in Nat
  PROVE  Dot([e \in 1..n |-> IF e = d THEN x ELSE 0], w) = x * w[d]
<1> DEFINE u == [e \in 1..n |-> IF e = d THEN x ELSE 0]
           g == [e \in 0..n |-> IF e < d THEN 0 ELSE x * w[d]]
<1>1. u \in Seq(Nat) /\ Len(u) = n /\ \A e \in 1..n : u[e] = IF e = d THEN x ELSE 0
  OBVIOUS
<1>2. \A e \in 1..n : w[e] \in Nat
  OBVIOUS
<1>3. x * w[d] \in Nat
  <2> DEFINE z == w[d]
  <2>1. z \in Nat
    BY <1>2
  <2> HIDE DEF z
  <2>2. x * z \in Nat
    BY <2>1
  <2> QED
    BY <2>2 DEF z
<1> HIDE DEF u
<1>4. g \in [0..n -> Nat] /\ g[0] = 0 /\ g[n] = x * w[d]
  <2> DEFINE m == x * w[d]
  <2> HIDE DEF m
  <2>1. m \in Nat
    BY <1>3 DEF m
  <2>2. g = [e \in 0..n |-> IF e < d THEN 0 ELSE m]
    BY DEF m
  <2> HIDE DEF g
  <2> QED
    BY <2>1, <2>2 DEF m
<1>5. \A e \in 1..n : g[e] = g[e - 1] + u[e] * w[e]
  <2> TAKE e \in 1..n
  <2>1. w[e] \in Nat /\ e - 1 \in 0..n /\ e \in 0..n /\ u[e] = IF e = d THEN x ELSE 0
    BY <1>1, <1>2
  <2>2. CASE e = d
    <3>1. g[e] = x * w[d] /\ g[e - 1] = 0 /\ u[e] * w[e] = x * w[d]
      BY <2>1, <2>2
    <3> QED
      BY <1>3, <3>1
  <2>3. CASE e # d
    <3>1. u[e] * w[e] = 0
      BY <2>1, <2>3
    <3>2. g[e] = g[e - 1] /\ g[e] \in Nat
      BY <1>3, <2>1, <2>3
    <3> HIDE DEF g
    <3> QED
      BY <3>1, <3>2
  <2> QED
    BY <2>2, <2>3
<1> HIDE DEF g
<1>6. IsSums(g, u, w)
  BY <1>1, <1>4, <1>5 DEF IsSums
<1>7. Dot(u, w) = g[n]
  BY <1>1, <1>6, SumsAre
<1> QED
  BY <1>4, <1>7 DEF u

\* A term can be taken out of the sum.
LEMMA TermApart ==
  ASSUME NEW n \in Nat, NEW u \in Seq(Nat), Len(u) = n, NEW w \in Seq(Nat), Len(w) = n,
         NEW d \in 1..n
  PROVE  LET o == [e \in 1..n |-> IF e = d THEN 0 ELSE u[e]]
         IN /\ Dot(u, w) = u[d] * w[d] + Dot(o, w)
            /\ Dot(u, w) \in Nat /\ Dot(o, w) \in Nat /\ u[d] * w[d] \in Nat
<1> DEFINE a == [e \in 1..n |-> IF e = d THEN u[d] ELSE 0]
           o == [e \in 1..n |-> IF e = d THEN 0 ELSE u[e]]
<1>1. \A e \in 1..n : u[e] \in Nat
  OBVIOUS
<1>2. /\ a \in Seq(Nat) /\ Len(a) = n
      /\ o \in Seq(Nat) /\ Len(o) = n
  BY <1>1
<1>3. \A e \in 1..n : u[e] = a[e] + o[e]
  BY <1>1
<1>4. Dot(a, w) = u[d] * w[d]
  BY <1>1, OneTerm
<1> HIDE DEF a, o
<1>5. Dot(u, w) = Dot(a, w) + Dot(o, w) /\ Dot(a, w) \in Nat /\ Dot(o, w) \in Nat
  <2>1. Len(w) = Len(a) /\ Len(o) = Len(a) /\ Len(u) = Len(a)
    BY <1>2
  <2>2. \A e \in 1..Len(a) : u[e] = a[e] + o[e]
    BY <1>2, <1>3
  <2> QED
    BY <1>2, <2>1, <2>2, DotAdds
<1>6. Dot(u, w) = u[d] * w[d] + Dot(o, w)
  BY <1>4, <1>5
<1> QED
  BY <1>4, <1>5, <1>6 DEF o

\* When one term is changed, so is the sum.
LEMMA DotChanged ==
  ASSUME NEW u \in Seq(Nat), NEW w \in Seq(Nat), Len(w) = Len(u), NEW d \in 1..Len(u),
         NEW t \in Seq(Nat), Len(t) = Len(u), \A e \in 1..Len(u) : e # d => t[e] = u[e]
  PROVE  /\ Dot(t, w) + u[d] * w[d] = Dot(u, w) + t[d] * w[d]
         /\ Dot(t, w) \in Nat /\ Dot(u, w) \in Nat
         /\ t[d] * w[d] \in Nat /\ u[d] * w[d] \in Nat
<1> DEFINE n == Len(u)
           o == [e \in 1..n |-> IF e = d THEN 0 ELSE u[e]]
           q == [e \in 1..n |-> IF e = d THEN 0 ELSE t[e]]
<1>1. n \in Nat
  OBVIOUS
<1>2. o = q
  OBVIOUS
<1>3. /\ Dot(u, w) = u[d] * w[d] + Dot(o, w)
      /\ Dot(u, w) \in Nat /\ Dot(o, w) \in Nat /\ u[d] * w[d] \in Nat
  BY <1>1, TermApart
<1>4. /\ Dot(t, w) = t[d] * w[d] + Dot(o, w)
      /\ Dot(t, w) \in Nat /\ t[d] * w[d] \in Nat
  <2>1. Dot(t, w) = t[d] * w[d] + Dot(q, w) /\ Dot(t, w) \in Nat /\ t[d] * w[d] \in Nat
    BY <1>1, TermApart
  <2> HIDE DEF o, q
  <2> QED
    BY <1>2, <2>1
<1> DEFINE x == t[d] * w[d]
           y == u[d] * w[d]
<1> HIDE DEF x, y, o
<1>5. Dot(t, w) + y = Dot(u, w) + x
  BY <1>3, <1>4 DEF x, y
<1> QED
  BY <1>3, <1>4, <1>5 DEF x, y

\* A product is a natural number.
LEMMA ProductNat ==
  ASSUME NEW c \in Seq(Nat)
  PROVE  Product(c) \in Nat
<1>1. SuffixProducts(c) \in [1..(Len(c) + 1) -> Nat] /\ 1 \in 1..(Len(c) + 1)
  BY ProductsAre
<1> QED
  BY <1>1 DEF Product

\* Of numbers that are not zero, the product of more of them is at least that of fewer.
LEMMA ProductsGrow ==
  ASSUME NEW c \in Seq(Nat \ {0})
  PROVE  /\ SuffixProducts(c) \in [1..(Len(c) + 1) -> Nat \ {0}]
         /\ \A d, e \in 1..(Len(c) + 1) : d <= e => SuffixProducts(c)[e] <= SuffixProducts(c)[d]
<1> DEFINE n == Len(c)
           N == n + 1
           p == SuffixProducts(c)
           E == {k \in Nat : k <= n => p[N - k] > 0}
<1>1. n \in Nat /\ c \in Seq(Nat)
  OBVIOUS
<1>2. \A d \in 1..n : c[d] \in Nat /\ c[d] > 0
  OBVIOUS
<1>3. /\ p \in [1..N -> Nat] /\ p[N] = 1
      /\ \A d \in 1..n : p[d] = c[d] * p[d + 1]
  BY <1>1, ProductsAre
<1> HIDE DEF p
<1>4. ASSUME NEW d \in 1..n
      PROVE  p[d + 1] <= p[d] /\ (p[d + 1] > 0 => p[d] > 0)
  <2> DEFINE a == c[d]
             b == p[d + 1]
  <2>0. d + 1 \in 1..N
    BY <1>1
  <2>1. a \in Nat /\ a > 0 /\ b \in Nat /\ p[d] = a * b
    <3> HIDE DEF N, n
    <3> QED
      BY <1>2, <1>3, <2>0
  <2> HIDE DEF a, b
  <2>2. b <= a * b /\ (b > 0 => a * b > 0)
    BY <2>1
  <2> QED
    BY <2>1, <2>2 DEF b
<1>5. 0 \in E
  BY <1>1, <1>3
<1>6. \A k \in E : k + 1 \in E
  <2> SUFFICES ASSUME NEW k \in E, k + 1 <= n PROVE p[N - (k + 1)] > 0
    OBVIOUS
  <2>1. N - (k + 1) \in 1..n /\ (N - (k + 1)) + 1 = N - k /\ k <= n /\ k \in Nat
    BY <1>1
  <2> QED
    BY <1>4, <2>1
<1>7. E = Nat
  <2>1. E \in SUBSET Nat
    OBVIOUS
  <2> HIDE DEF E
  <2> QED
    BY <1>5, <1>6, <2>1, SetInduction
<1>8. ASSUME NEW d \in 1..N PROVE p[d] > 0
  <2>1. N - d \in Nat /\ N - d <= n /\ N - (N - d) = d
    BY <1>1
  <2>2. \A k \in Nat : k <= n => p[N - k] > 0
    BY <1>7
  <2>3. p[N - (N - d)] > 0
    BY <2>1, <2>2
  <2> QED
    BY <2>1, <2>3
<1>9. ASSUME NEW d \in 1..N, NEW e \in 1..N, d <= e PROVE p[e] <= p[d]
  <2> DEFINE F == {k \in Nat : d + k <= N => p[d + k] <= p[d]}
  <2>1. 0 \in F
    <3>1. d + 0 = d /\ p[d] \in Nat
      BY <1>3
    <3> QED
      BY <3>1
  <2>2. \A k \in F : k + 1 \in F
    <3> SUFFICES ASSUME NEW k \in F, d + (k + 1) <= N PROVE p[d + (k + 1)] <= p[d]
      OBVIOUS
    <3>1. k \in Nat /\ d + k \in 1..n /\ (d + k) + 1 = d + (k + 1) /\ d + k <= N
      BY <1>1
    <3>2. p[d + k] <= p[d] /\ p[(d + k) + 1] <= p[d + k]
      BY <1>4, <3>1
    <3>3. p[d] \in Nat /\ p[d + k] \in Nat /\ p[(d + k) + 1] \in Nat
      <4>1. d \in 1..N /\ d + k \in 1..N /\ (d + k) + 1 \in 1..N
        BY <1>1, <3>1
      <4> HIDE DEF N, n
      <4> QED
        BY <1>3, <4>1
    <3> QED
      BY <3>1, <3>2, <3>3
  <2>3. F = Nat
    <3>1. F \in SUBSET Nat
      OBVIOUS
    <3> HIDE DEF F
    <3> QED
      BY <2>1, <2>2, <3>1, SetInduction
  <2>4. e - d \in Nat /\ d + (e - d) = e /\ d + (e - d) <= N
    BY <1>1, <1>9
  <2>5. p[d + (e - d)] <= p[d]
    BY <2>3, <2>4
  <2> QED
    BY <2>4, <2>5
<1>10. p \in [1..N -> Nat \ {0}]
  BY <1>3, <1>8
<1> QED
  BY <1>9, <1>10 DEF p

\* The products are alike as far as the numbers are.
LEMMA SameProducts ==
  ASSUME NEW b \in Seq(Nat), NEW c \in Seq(Nat), Len(b) = Len(c), NEW d \in 1..(Len(c) + 1),
         \A e \in d..Len(c) : b[e] = c[e]
  PROVE  \A e \in d..(Len(c) + 1) : SuffixProducts(b)[e] = SuffixProducts(c)[e]
<1> DEFINE n == Len(c)
           N == n + 1
           p == SuffixProducts(b)
           q == SuffixProducts(c)
           E == {k \in Nat : d <= N - k => p[N - k] = q[N - k]}
<1>1. n \in Nat /\ d \in 1..N
  OBVIOUS
<1>2. /\ p[N] = 1 /\ \A e \in 1..n : p[e] = b[e] * p[e + 1]
      /\ q[N] = 1 /\ \A e \in 1..n : q[e] = c[e] * q[e + 1]
  <2>1. p[Len(b) + 1] = 1 /\ \A e \in 1..Len(b) : p[e] = b[e] * p[e + 1]
    BY ProductsAre
  <2>2. q[Len(c) + 1] = 1 /\ \A e \in 1..Len(c) : q[e] = c[e] * q[e + 1]
    BY ProductsAre
  <2>3. Len(b) = n /\ Len(c) = n
    OBVIOUS
  <2> HIDE DEF p, q
  <2> QED
    BY <2>1, <2>2, <2>3
<1> HIDE DEF p, q
<1>3. 0 \in E
  BY <1>1, <1>2
<1>4. \A k \in E : k + 1 \in E
  <2> SUFFICES ASSUME NEW k \in E, d <= N - (k + 1) PROVE p[N - (k + 1)] = q[N - (k + 1)]
    OBVIOUS
  <2> DEFINE e == N - (k + 1)
  <2>1. e \in 1..n /\ e \in d..n /\ e + 1 = N - k /\ d <= N - k
    BY <1>1
  <2>2. p[N - k] = q[N - k]
    BY <2>1
  <2> HIDE DEF e, n
  <2>3. p[e] = b[e] * p[e + 1] /\ q[e] = c[e] * q[e + 1]
    BY <1>2, <2>1
  <2>4. b[e] = c[e]
    BY <2>1 DEF n
  <2>5. p[e] = q[e]
    BY <2>1, <2>2, <2>3, <2>4
  <2> QED
    BY <2>5 DEF e
<1>5. E = Nat
  <2>1. E \in SUBSET Nat
    OBVIOUS
  <2> HIDE DEF E
  <2> QED
    BY <1>3, <1>4, <2>1, SetInduction
<1>6. ASSUME NEW e \in d..N PROVE p[e] = q[e]
  <2>1. N - e \in Nat /\ N - (N - e) = e /\ d <= N - (N - e)
    BY <1>1
  <2>2. p[N - (N - e)] = q[N - (N - e)]
    BY <1>5, <2>1
  <2> QED
    BY <2>1, <2>2
<1> QED
  BY <1>6 DEF p, q

\* The step of a counter with a digit per dimension: of what is in a dimension, what is
\* too much is carried over into the one above.
\* In a block of shape c, y is x with dimension d set to a, and what is more than the
\* dimension holds is carried over.
IsTurned(y, x, d, a, c) ==
  /\ Fits(y, c)
  /\ a \div c[d] \in Nat
  /\ Place(y, c) + (a \div c[d]) * SuffixProducts(c)[d] + x[d] * SuffixProducts(c)[d + 1]
       = Place(x, c) + a * SuffixProducts(c)[d + 1]

\* Carrying over into the next dimension leaves the place the same.
LEMMA CarriedOver ==
  ASSUME NEW c \in Seq(Nat \ {0}), NEW x, Fits(x, c), NEW d \in 1..Len(c), NEW a \in Nat,
         NEW y \in Seq(Nat), Len(y) = Len(c),
         y[d] = a % c[d], \A e \in 1..Len(c) : e # d => y[e] = x[e]
  PROVE  IsTurned(y, x, d, a, c)
<1> DEFINE n == Len(c)
           v == DimSizes(c)
           w == SuffixProducts(c)[d + 1]
           u == SuffixProducts(c)[d]
           z == c[d]
           q == a \div z
           r == a % z
<1>1. n \in Nat /\ d \in 1..n /\ c \in Seq(Nat) /\ \A e \in 1..n : c[e] \in Nat \ {0}
  OBVIOUS
<1>2. z \in Nat \ {0}
  BY <1>1
<1>3. q \in Nat /\ r \in 0..(z - 1) /\ a = q * z + r
  <2> HIDE DEF z
  <2> QED
    BY <1>2, PartsOf
<1>4. u = z * w /\ w \in Nat /\ u \in Nat
  <2>1. d + 1 \in 1..(n + 1) /\ d \in 1..(n + 1)
    BY <1>1
  <2> QED
    BY <1>1, <2>1, ProductsAre
<1>5. v \in Seq(Nat) /\ Len(v) = n /\ v[d] = w
  <2>1. v = [e \in 1..n |-> SuffixProducts(c)[e + 1]]
    BY DEF DimSizes
  <2>2. \A e \in 1..n : SuffixProducts(c)[e + 1] \in Nat
    <3>1. \A e \in 1..n : e + 1 \in 1..(n + 1)
      BY <1>1
    <3> QED
      BY <1>1, <3>1, ProductsAre
  <2> HIDE DEF v, n
  <2> QED
    BY <1>1, <2>1, <2>2
<1>6. /\ x \in Seq(Nat) /\ Len(x) = n /\ x \in [1..n -> Nat] /\ \A e \in 1..n : x[e] < c[e]
  BY DEF Fits
<1>7. y[d] = r /\ \A e \in 1..n : e # d => y[e] = x[e]
  OBVIOUS
<1>8. y \in Seq(Nat) /\ Len(y) = n
  OBVIOUS
<1>9. Fits(y, c)
  <2>1. \A e \in 1..n : y[e] < c[e]
    <3> SUFFICES ASSUME NEW e \in 1..n PROVE y[e] < c[e]
      OBVIOUS
    <3>1. CASE e = d
      <4> HIDE DEF r
      <4> QED
        BY <1>2, <1>3, <1>7, <3>1
    <3>2. CASE e # d
      BY <1>6, <1>7, <3>2
    <3> QED
      BY <3>1, <3>2
  <2> QED
    BY <1>8, <2>1 DEF Fits
<1>10. Place(y, c) + x[d] * w = Place(x, c) + r * w /\ Place(y, c) \in Nat /\ Place(x, c) \in Nat
  <2>1. Len(v) = Len(x) /\ Len(y) = Len(x) /\ d \in 1..Len(x)
        /\ \A e \in 1..Len(x) : e # d => y[e] = x[e]
    BY <1>1, <1>5, <1>6, <1>7, <1>8
  <2> HIDE DEF v, w, r, n
  <2>2. Dot(y, v) + x[d] * v[d] = Dot(x, v) + y[d] * v[d] /\ Dot(y, v) \in Nat /\ Dot(x, v) \in Nat
    BY <1>5, <1>6, <1>8, <2>1, DotChanged
  <2> QED
    BY <1>5, <1>7, <2>2 DEF Place, v
<1>11. a * w = q * u + r * w /\ a * w \in Nat /\ q * u \in Nat /\ r * w \in Nat
  <2> HIDE DEF q, r, z, w, u
  <2>1. r \in Nat /\ z \in Nat
    BY <1>2, <1>3
  <2>2. (q * z + r) * w = (q * z) * w + r * w
    BY <1>3, <1>4, <2>1
  <2>3. (q * z) * w = q * (z * w)
    BY <1>3, <1>4, <2>1
  <2>4. a * w \in Nat /\ q * u \in Nat /\ r * w \in Nat
    BY <1>3, <1>4, <2>1
  <2> QED
    BY <1>3, <1>4, <2>2, <2>3, <2>4
<1>12. x[d] * w \in Nat
  <2> DEFINE g == x[d]
  <2>1. g \in Nat
    BY <1>1, <1>6
  <2> HIDE DEF g, w
  <2>2. g * w \in Nat
    BY <1>4, <2>1
  <2> QED
    BY <2>2 DEF g
<1>13. Place(y, c) + q * u + x[d] * w = Place(x, c) + a * w
  <2> DEFINE xw == x[d] * w
             rw == r * w
             qu == q * u
             aw == a * w
  <2> HIDE DEF xw, rw, qu, aw
  <2>1. /\ Place(y, c) + xw = Place(x, c) + rw /\ aw = qu + rw
        /\ aw \in Nat /\ qu \in Nat /\ rw \in Nat /\ xw \in Nat
    BY <1>10, <1>11, <1>12 DEF xw, rw, qu, aw
  <2> DEFINE py == Place(y, c)
             px == Place(x, c)
  <2>3. py \in Nat /\ px \in Nat /\ py + xw = px + rw
    BY <1>10, <2>1
  <2> HIDE DEF py, px
  <2>4. py + qu + xw = px + aw
    BY <2>1, <2>3
  <2>2. Place(y, c) + qu + xw = Place(x, c) + aw
    BY <2>4 DEF py, px
  <2> QED
    BY <2>2 DEF xw, qu, aw
<1> QED
  BY <1>3, <1>7, <1>9, <1>13 DEF IsTurned

\* The digits themselves.
LEMMA Digit ==
  ASSUME NEW n \in Nat, NEW x \in Seq(Nat), Len(x) = n, NEW d \in 1..n, NEW r \in Nat
  PROVE  LET y == [x EXCEPT ![d] = r]
         IN /\ y \in Seq(Nat) /\ Len(y) = n /\ y[d] = r
            /\ \A e \in 1..n : e # d => y[e] = x[e]
OBVIOUS
===============================================================================
