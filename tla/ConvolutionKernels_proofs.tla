------------------------ MODULE ConvolutionKernels_proofs ------------------------
(***************************************************************************)
(* The kernels of convolutions.  First the three of a training graph,      *)
(* which run over the same products: the loops are compared by what meets, *)
(* an element of X, one of W and one of Y when the contraction multiplies  *)
(* them, and each kernel loads, for an element of its output, the other    *)
(* two of every triple it is in.  Then the scheduled kernel of a serialized*)
(* graph: its loops visit every filter element once, each visit loads what *)
(* the definition multiplies there, and the blocks of outputs follow each  *)
(* other without a gap.                                                    *)
(***************************************************************************)
EXTENDS TrainingConvolution, DirectConvolution, SequenceTheorems, FiniteSetTheorems,
        WellFoundedInduction, NaturalsInduction, TLAPS

(***************************************************************************)
(* Induction over axes, as the absence of a least counterexample.          *)
(***************************************************************************)
LEMMA LeastNumber ==
  ASSUME NEW T \in SUBSET Nat, T # {}
  PROVE  \E n \in T : n = 0 \/ n - 1 \in Nat \ T
<1>1. IsWellFoundedOn(OpToRel(<, Nat), Nat)
  BY NatLessThanWellFounded, Zenon
<1>2. PICK n \in T : \A m \in T : ~ (<<m, n>> \in OpToRel(<, Nat))
  BY <1>1, WFMin, Zenon
<1>3. \A m \in T : ~ (m < n)
  BY <1>2 DEF OpToRel
<1> QED
  BY <1>3

(* What holds at 0 and at every number after one it holds at, up to n.     *)
Inductive(G, n) == 0 \in G /\ \A k \in 1..n : k - 1 \in G => k \in G

LEMMA AxisInduction ==
  ASSUME NEW n \in Nat, NEW G, Inductive(G, n)
  PROVE  0..n \subseteq G
<1> DEFINE Bad == (0..n) \ G
<1>1. ASSUME Bad # {} PROVE FALSE
  <2>1. Bad \in SUBSET Nat
    OBVIOUS
  <2>2. PICK k \in Bad : k = 0 \/ k - 1 \in Nat \ Bad
    BY <1>1, <2>1, LeastNumber
  <2>3. k # 0 => k \in 1..n /\ k - 1 \in 0..n
    BY <2>2
  <2> QED
    BY <2>2, <2>3 DEF Inductive
<1> QED
  BY <1>1

(***************************************************************************)
(* Shapes and their elements.                                              *)
(***************************************************************************)
Positive == Nat \ {0}

(* Element i of a tensor of these extents.                                 *)
Within(i, dims) ==
  /\ i \in Seq(Int) /\ Len(i) = Len(dims)
  /\ \A a \in 1..Len(dims) : i[a] \in 0..(dims[a] - 1)

Grown(S, T) == {Append(i, x) : i \in S, x \in T}

BoxUpTo(sets) ==
  CHOOSE f : f = [n \in 0..Len(sets) |->
                    IF n = 0 THEN {<<>>} ELSE Grown(f[n - 1], sets[n])]

(* The elements of a box are the lists with one entry from each set.       *)
Entries(sets, n) == {i \in [1..n -> Int] : \A k \in 1..n : i[k] \in sets[k]}

LEMMA EntriesGrow ==
  ASSUME NEW n \in Nat, n # 0, NEW sets, \A k \in 1..n : sets[k] \subseteq Int
  PROVE  Entries(sets, n) = Grown(Entries(sets, n - 1), sets[n])
<1>1. ASSUME NEW i \in Entries(sets, n - 1), NEW x \in sets[n]
      PROVE  Append(i, x) \in Entries(sets, n)
  <2>1. i \in Seq(Int) /\ Len(i) = n - 1 /\ x \in Int
    BY <1>1 DEF Entries
  <2>2. Append(i, x) \in [1..n -> Int]
    <3>1. PICK t : t = Append(i, x)
      OBVIOUS
    <3>2. t \in Seq(Int) /\ Len(t) = n
      BY <2>1, <3>1
    <3> QED
      BY <3>1, <3>2, LenProperties
  <2>3. ASSUME NEW k \in 1..n PROVE Append(i, x)[k] \in sets[k]
    BY <1>1, <2>1 DEF Entries
  <2> QED
    BY <2>2, <2>3 DEF Entries
<1>2. ASSUME NEW j \in Entries(sets, n)
      PROVE  j \in Grown(Entries(sets, n - 1), sets[n])
  <2> DEFINE i == [k \in 1..(n - 1) |-> j[k]]
  <2>1. j \in [1..n -> Int] /\ \A k \in 1..n : j[k] \in sets[k]
    BY DEF Entries
  <2>2. i \in Entries(sets, n - 1)
    BY <2>1 DEF Entries
  <2>3. j[n] \in sets[n]
    BY <2>1
  <2>4. j = Append(i, j[n])
    <3>1. /\ i \in Seq(Int) /\ Len(i) = n - 1 /\ j \in Seq(Int) /\ Len(j) = n /\ j[n] \in Int
          /\ \A k \in 1..(n - 1) : i[k] = j[k]
      BY <2>1
    <3> HIDE DEF i
    <3>2. PICK t : t = Append(i, j[n])
      OBVIOUS
    <3>3. t \in Seq(Int) /\ Len(t) = n /\ \A k \in 1..n : t[k] = j[k]
      BY <3>1, <3>2
    <3> QED
      BY <3>1, <3>2, <3>3, SeqEqual
  <2> HIDE DEF i
  <2> QED
    BY <2>2, <2>3, <2>4 DEF Grown
<1>3. ASSUME NEW t \in Grown(Entries(sets, n - 1), sets[n]) PROVE t \in Entries(sets, n)
  <2>1. PICK i \in Entries(sets, n - 1), x \in sets[n] : t = Append(i, x)
    BY DEF Grown
  <2> QED
    BY <1>1, <2>1
<1> QED
  BY <1>2, <1>3

LEMMA BoxMembers ==
  ASSUME NEW sets, NEW n \in Nat, sets \in [1..n -> SUBSET Int]
  PROVE  Box(sets) = Entries(sets, n)
<1> DEFINE Is(f) == f = [m \in 0..n |->
                          IF m = 0 THEN {<<>>}
                          ELSE Grown(f[m - 1], sets[m])]
           g == [m \in 0..n |-> Entries(sets, m)]
<1>1. Len(sets) = n
  OBVIOUS
<1>2. ASSUME NEW m \in 0..n
      PROVE  g[m] = IF m = 0 THEN {<<>>}
                    ELSE Grown(g[m - 1], sets[m])
  <2>1. CASE m = 0
    <3>1. Entries(sets, 0) = {<<>>}
      <4>1. ASSUME NEW i \in Entries(sets, 0) PROVE i = <<>>
        <5>1. i \in Seq(Int) /\ Len(i) = 0
          BY DEF Entries
        <5> QED
          BY <5>1, EmptySeq
      <4>2. <<>> \in Entries(sets, 0)
        <5>1. <<>> \in [1..0 -> Int]
          BY EmptySeq, LenProperties
        <5> QED
          BY <5>1 DEF Entries
      <4> QED
        BY <4>1, <4>2
    <3> QED
      BY <2>1, <3>1
  <2>2. CASE m # 0
    <3>1. m \in Nat /\ m - 1 \in 0..n /\ m \in 0..n /\ \A k \in 1..m : sets[k] \subseteq Int
      BY <2>2
    <3>2. Entries(sets, m) = Grown(Entries(sets, m - 1), sets[m])
      BY <2>2, <3>1, EntriesGrow
    <3>3. g[m] = Entries(sets, m) /\ g[m - 1] = Entries(sets, m - 1)
      BY <3>1
    <3> HIDE DEF g
    <3> QED
      BY <2>2, <3>2, <3>3
  <2> QED
    BY <2>1, <2>2
<1>3. Is(g)
  <2>1. g = [m \in 0..n |-> g[m]]
    OBVIOUS
  <2> HIDE DEF g
  <2> QED
    BY <1>2, <2>1, Zenon
<1>4. Is(BoxUpTo(sets))
  <2> HIDE DEF g
  <2> QED
    BY <1>1, <1>3, Zenon DEF BoxUpTo
<1>5. PICK f : f = BoxUpTo(sets)
  OBVIOUS
<1>6. \A m \in 0..n : f[m] = IF m = 0 THEN {<<>>}
                             ELSE Grown(f[m - 1], sets[m])
  <2> HIDE DEF g
  <2> QED
    BY <1>4, <1>5, Zenon
<1>7. Box(sets) = f[n]
  BY <1>1, <1>5 DEF Box, BoxUpTo, Grown
<1> HIDE DEF Is, g
<1> DEFINE G == {m \in 0..n : f[m] = g[m]}
<1>8. Inductive(G, n)
  <2>1. 0 \in G
    <3>1. 0 \in 0..n
      OBVIOUS
    <3>2. f[0] = {<<>>} /\ g[0] = {<<>>}
      BY <1>2, <1>6, <3>1
    <3> QED
      BY <3>1, <3>2
  <2>2. ASSUME NEW k \in 1..n, k - 1 \in G PROVE k \in G
    <3>1. k \in 0..n /\ k # 0 /\ f[k - 1] = g[k - 1]
      BY <2>2
    <3> QED
      BY <1>2, <1>6, <3>1
  <2> HIDE DEF G
  <2> QED
    BY <2>1, <2>2 DEF Inductive
<1>9. n \in G
  <2> HIDE DEF G
  <2> QED
    BY <1>8, AxisInduction
<1> QED
  BY <1>7, <1>9 DEF g

LEMMA IndicesAre ==
  ASSUME NEW dims \in Seq(Int)
  PROVE  \A i : i \in Indices(dims) <=> Within(i, dims)
<1> DEFINE n == Len(dims)
           sets == [a \in Axes(dims) |-> 0..(dims[a] - 1)]
<1>1. n \in Nat /\ Axes(dims) = 1..n /\ \A a \in 1..n : dims[a] \in Int
  BY DEF Axes
<1>2. sets \in [1..n -> SUBSET Int] /\ \A a \in 1..n : sets[a] = 0..(dims[a] - 1)
  BY <1>1
<1>3. Indices(dims) = Entries(sets, n)
  <2>1. Indices(dims) = Box(sets)
    BY DEF Indices
  <2> HIDE DEF sets, n
  <2> QED
    BY <1>1, <1>2, <2>1, BoxMembers
<1>4. ASSUME NEW i PROVE i \in Entries(sets, n) <=> Within(i, dims)
  <2> HIDE DEF sets
  <2>1. i \in [1..n -> Int] <=> i \in Seq(Int) /\ Len(i) = n
    <3>1. i \in Seq(Int) /\ Len(i) = n => i \in [1..n -> Int]
      BY LenProperties
    <3>2. i \in [1..n -> Int] => i \in Seq(Int) /\ Len(i) = n
      BY <1>1
    <3> QED
      BY <3>1, <3>2
  <2> QED
    BY <1>1, <1>2, <2>1 DEF Entries, Within
<1> QED
  BY <1>3, <1>4

(* The products of the extents from some axis to the last.                 *)
ProductsFrom(dims, a, g) ==
  /\ g \in [a..Len(dims) -> Positive]
  /\ g[Len(dims)] = 1
  /\ \A n \in a..(Len(dims) - 1) : g[n] = dims[n + 1] * g[n + 1]

ProductUpTo(dims, a) ==
  CHOOSE f : f = [n \in a..Len(dims) |->
                    IF n = Len(dims) THEN 1 ELSE dims[n + 1] * f[n + 1]]

LEMMA ProductsExist ==
  ASSUME NEW dims \in Seq(Positive)
  PROVE  \E g : ProductsFrom(dims, 0, g)
<1> DEFINE L == Len(dims)
           G == {k \in 0..L : \E g : ProductsFrom(dims, L - k, g)}
<1>1. L \in Nat /\ \A a \in 1..L : dims[a] \in Positive
  BY DEF Positive
<1>2. 0 \in G
  <2> DEFINE g == [n \in L..L |-> 1]
  <2>1. ProductsFrom(dims, L, g)
    BY <1>1 DEF ProductsFrom, Positive
  <2>2. L - 0 = L
    BY <1>1
  <2> QED
    BY <1>1, <2>1, <2>2
<1>3. ASSUME NEW k \in 1..L, k - 1 \in G PROVE k \in G
  <2>1. PICK h : ProductsFrom(dims, L - (k - 1), h)
    BY <1>3
  <2> DEFINE b == L - k
             g == [n \in b..L |-> IF n = b THEN dims[b + 1] * h[b + 1] ELSE h[n]]
  <2>2. /\ b \in Nat /\ b + 1 = L - (k - 1) /\ b + 1 \in 1..L
        /\ \A n \in b..L : n = b \/ n \in (b + 1)..L
    BY <1>1
  <2>3. /\ h \in [(b + 1)..L -> Positive] /\ h[L] = 1
        /\ \A n \in (b + 1)..(L - 1) : h[n] = dims[n + 1] * h[n + 1]
    BY <2>1, <2>2 DEF ProductsFrom
  <2> HIDE DEF b
  <2>4. b < L /\ L \in b..L /\ b \in b..L /\ b + 1 \in (b + 1)..L
    BY <1>1, <2>2
  <2>5. dims[b + 1] * h[b + 1] \in Positive
    <3>1. dims[b + 1] \in Positive /\ h[b + 1] \in Positive
      BY <1>1, <2>2, <2>3, <2>4
    <3>2. PICK l \in Positive, m \in Positive : l = dims[b + 1] /\ m = h[b + 1]
      BY <3>1
    <3>3. l * m \in Positive
      BY DEF Positive
    <3> QED
      BY <3>2, <3>3
  <2>6. g \in [b..L -> Positive]
    BY <2>2, <2>3, <2>5
  <2>7. g[L] = 1
    BY <1>1, <2>3, <2>4
  <2>8. ASSUME NEW n \in b..(L - 1) PROVE g[n] = dims[n + 1] * g[n + 1]
    <3>1. n \in b..L /\ n + 1 \in b..L /\ n + 1 # b
      BY <1>1, <2>2
    <3>2. g[n + 1] = h[n + 1]
      BY <3>1
    <3>3. CASE n = b
      BY <3>1, <3>2, <3>3
    <3>4. CASE n # b
      <4>1. n \in (b + 1)..(L - 1) /\ g[n] = h[n]
        BY <1>1, <2>2, <3>1, <3>4
      <4> QED
        BY <2>3, <3>2, <4>1
    <3> QED
      BY <3>3, <3>4
  <2>9. ProductsFrom(dims, b, g)
    BY <2>6, <2>7, <2>8 DEF ProductsFrom
  <2> QED
    BY <1>1, <2>9 DEF b
<1>4. L \in G
  <2>1. Inductive(G, L)
    <3> HIDE DEF G
    <3> QED
      BY <1>2, <1>3 DEF Inductive
  <2> HIDE DEF G
  <2> QED
    BY <1>1, <2>1, AxisInduction
<1>5. L - L = 0
  BY <1>1
<1> QED
  BY <1>4, <1>5

LEMMA BehindIs ==
  ASSUME NEW dims \in Seq(Positive), NEW g, ProductsFrom(dims, 0, g), NEW a \in 0..Len(dims)
  PROVE  ElementsBehind(dims, a) = g[a]
<1> DEFINE L == Len(dims)
           Is(f) == f = [n \in a..L |-> IF n = L THEN 1 ELSE dims[n + 1] * f[n + 1]]
           h == [n \in a..L |-> g[n]]
<1>1. L \in Nat /\ a \in Nat /\ a <= L
  OBVIOUS
<1>2. /\ g[L] = 1
      /\ \A n \in 0..(L - 1) : g[n] = dims[n + 1] * g[n + 1]
  BY DEF ProductsFrom
<1>3. ASSUME NEW n \in a..L PROVE h[n] = IF n = L THEN 1 ELSE dims[n + 1] * h[n + 1]
  <2>1. n # L => n \in 0..(L - 1) /\ n + 1 \in a..L
    BY <1>1
  <2> QED
    BY <1>2, <2>1
<1>4. Is(h)
  <2>1. h = [n \in a..L |-> h[n]]
    OBVIOUS
  <2> HIDE DEF h
  <2> QED
    BY <1>3, <2>1, Zenon
<1>5. Is(ProductUpTo(dims, a))
  <2> HIDE DEF h
  <2> QED
    BY <1>4, Zenon DEF ProductUpTo
<1>6. PICK f : f = ProductUpTo(dims, a)
  OBVIOUS
<1>7. \A n \in a..L : f[n] = IF n = L THEN 1 ELSE dims[n + 1] * f[n + 1]
  <2> HIDE DEF h
  <2> QED
    BY <1>5, <1>6, Zenon
<1>8. ElementsBehind(dims, a) = f[a]
  BY <1>6 DEF ElementsBehind, ProductUpTo
<1> HIDE DEF Is, h
<1> DEFINE G == {k \in 0..(L - a) : f[L - k] = h[L - k]}
<1>9. Inductive(G, L - a)
  <2>1. 0 \in G
    <3>1. 0 \in 0..(L - a) /\ L - 0 = L /\ L \in a..L
      BY <1>1
    <3>2. f[L] = 1 /\ h[L] = 1
      BY <1>3, <1>7, <3>1
    <3> QED
      BY <3>1, <3>2
  <2>2. ASSUME NEW k \in 1..(L - a), k - 1 \in G PROVE k \in G
    <3>1. PICK n : n = L - k
      OBVIOUS
    <3>2. n \in a..L /\ n # L /\ n + 1 = L - (k - 1) /\ k \in 0..(L - a)
      BY <1>1, <3>1
    <3>3. f[n + 1] = h[n + 1]
      BY <2>2, <3>2
    <3>4. f[n] = h[n]
      BY <1>3, <1>7, <3>2, <3>3
    <3> QED
      BY <3>1, <3>2, <3>4
  <2> HIDE DEF G
  <2> QED
    BY <2>1, <2>2 DEF Inductive
<1>10. L - a \in G
  <2>1. L - a \in Nat
    BY <1>1
  <2> HIDE DEF G
  <2> QED
    BY <1>9, <2>1, AxisInduction
<1>11. f[a] = h[a]
  <2>1. L - (L - a) = a
    BY <1>1
  <2> QED
    BY <1>10, <2>1
<1> QED
  BY <1>1, <1>8, <1>11 DEF h

LEMMA BehindSteps ==
  ASSUME NEW dims \in Seq(Positive)
  PROVE  /\ \A a \in 0..Len(dims) : ElementsBehind(dims, a) \in Positive
         /\ ElementsBehind(dims, Len(dims)) = 1
         /\ \A a \in 1..Len(dims) :
              ElementsBehind(dims, a - 1) = dims[a] * ElementsBehind(dims, a)
<1>1. PICK g : ProductsFrom(dims, 0, g)
  BY ProductsExist
<1>2. Len(dims) \in Nat
  OBVIOUS
<1>3. \A a \in 0..Len(dims) : ElementsBehind(dims, a) = g[a] /\ g[a] \in Positive
  <2>1. ASSUME NEW a \in 0..Len(dims) PROVE ElementsBehind(dims, a) = g[a] /\ g[a] \in Positive
    BY <1>1, BehindIs DEF ProductsFrom
  <2> QED
    BY <2>1
<1>4. ASSUME NEW a \in 1..Len(dims)
      PROVE  ElementsBehind(dims, a - 1) = dims[a] * ElementsBehind(dims, a)
  <2>1. a - 1 \in 0..(Len(dims) - 1) /\ a - 1 \in 0..Len(dims) /\ a \in 0..Len(dims)
        /\ (a - 1) + 1 = a
    BY <1>2
  <2>2. g[a - 1] = dims[(a - 1) + 1] * g[(a - 1) + 1]
    BY <1>1, <2>1 DEF ProductsFrom
  <2> QED
    BY <1>3, <2>1, <2>2
<1>5. Len(dims) \in 0..Len(dims) /\ g[Len(dims)] = 1
  BY <1>1, <1>2 DEF ProductsFrom
<1> QED
  BY <1>3, <1>4, <1>5

LEMMA Divided ==
  ASSUME NEW t \in Nat, NEW d \in Positive
  PROVE  \E q \in Nat, r \in 0..(d - 1) : q = t \div d /\ r = t % d /\ t = q * d + r
<1>1. PICK q \in Nat, r \in 0..(d - 1) : q = t \div d /\ r = t % d
  <2>1. t \div d \in Nat
    BY DEF Positive
  <2>2. t % d \in 0..(d - 1)
    BY DEF Positive
  <2> QED
    BY <2>1, <2>2
<1>2. t = q * d + r
  BY <1>1 DEF Positive
<1> QED
  BY <1>1, <1>2

LEMMA Apart ==
  ASSUME NEW k \in Int, NEW q \in Int, NEW d \in Positive, NEW r \in 0..(d - 1),
         NEW s \in 0..(d - 1), k * d + s = q * d + r
  PROVE  ~ (k > q)
<1> SUFFICES ASSUME k > q PROVE FALSE
  OBVIOUS
<1>1. PICK j \in Nat : k = q + 1 + j
  <2>1. k - q - 1 \in Nat /\ k = q + 1 + (k - q - 1)
    OBVIOUS
  <2> QED
    BY <2>1
<1>2. k * d = q * d + d + j * d
  BY <1>1 DEF Positive
<1>3. PICK u \in Int, v \in Nat : u = q * d /\ v = j * d
  <2>1. q * d \in Int /\ j * d \in Nat
    BY DEF Positive
  <2> QED
    BY <2>1
<1> QED
  BY <1>2, <1>3 DEF Positive

LEMMA Division ==
  ASSUME NEW q \in Nat, NEW d \in Positive, NEW r \in 0..(d - 1)
  PROVE  (q * d + r) \div d = q /\ (q * d + r) % d = r
<1>1. PICK t \in Nat : t = q * d + r
  <2>1. q * d \in Nat /\ r \in Nat
    BY DEF Positive
  <2> QED
    BY <2>1
<1>2. PICK k \in Nat, s \in 0..(d - 1) : k = t \div d /\ s = t % d /\ t = k * d + s
  BY Divided
<1>3. k * d + s = q * d + r
  BY <1>1, <1>2
<1>4. ~ (k > q) /\ ~ (q > k)
  BY <1>3, Apart
<1>5. k = q
  BY <1>4
<1>6. s = r
  <2>1. PICK u \in Int : u = k * d
    BY DEF Positive
  <2> QED
    BY <1>3, <1>5, <2>1 DEF Positive
<1> QED
  BY <1>1, <1>2, <1>5, <1>6

LEMMA Shifted ==
  ASSUME NEW m \in Nat, NEW d \in Positive, NEW q \in Nat
  PROVE  (m * d + q) % d = q % d
<1>1. PICK k \in Nat, r \in 0..(d - 1) : q = k * d + r /\ r = q % d
  BY Divided
<1>2. m * d + q = (m + k) * d + r
  BY <1>1 DEF Positive
<1>3. m + k \in Nat
  BY <1>1
<1> QED
  BY <1>1, <1>2, <1>3, Division

(* The extents after an axis divide those after an earlier one.            *)
LEMMA BehindDivides ==
  ASSUME NEW dims \in Seq(Positive), NEW b \in 0..Len(dims), NEW a \in 0..b
  PROVE  \E m \in Positive : ElementsBehind(dims, a) = m * ElementsBehind(dims, b)
<1> DEFINE E(x) == ElementsBehind(dims, x)
           G == {k \in 0..b : \E m \in Positive : E(b - k) = m * E(b)}
<1>1. /\ Len(dims) \in Nat /\ b \in Nat /\ b <= Len(dims)
      /\ \A x \in 1..Len(dims) : dims[x] \in Positive
      /\ \A x \in 0..Len(dims) : E(x) \in Positive
      /\ \A x \in 1..Len(dims) : E(x - 1) = dims[x] * E(x)
  BY BehindSteps
<1> HIDE DEF E
<1>2. 0 \in G
  <2>1. b - 0 = b /\ E(b) = 1 * E(b) /\ 1 \in Positive
    BY <1>1 DEF Positive
  <2> QED
    BY <1>1, <2>1
<1>3. ASSUME NEW k \in 1..b, k - 1 \in G PROVE k \in G
  <2>1. PICK m \in Positive : E(b - (k - 1)) = m * E(b)
    BY <1>3
  <2>2. PICK x : x = b - (k - 1)
    OBVIOUS
  <2>3. x \in 1..Len(dims) /\ x - 1 = b - k /\ k \in 0..b
    BY <1>1, <2>2
  <2>4. E(x - 1) = dims[x] * (m * E(b)) /\ dims[x] \in Positive /\ E(b) \in Positive
    BY <1>1, <2>1, <2>2, <2>3
  <2>5. dims[x] * (m * E(b)) = (dims[x] * m) * E(b) /\ dims[x] * m \in Positive
    BY <2>4 DEF Positive
  <2>6. E(b - k) = (dims[x] * m) * E(b)
    BY <2>3, <2>4, <2>5
  <2> QED
    BY <2>3, <2>5, <2>6
<1>4. b - a \in G
  <2>1. Inductive(G, b)
    <3> HIDE DEF G
    <3> QED
      BY <1>2, <1>3 DEF Inductive
  <2>2. b - a \in 0..b
    BY <1>1
  <2> HIDE DEF G
  <2> QED
    BY <1>1, <2>1, <2>2, AxisInduction
<1>5. b - (b - a) = a
  BY <1>1
<1> QED
  BY <1>4, <1>5 DEF E

(* The digits of a position are those of its low part, after the high one. *)
Covers(high, m, d, e) == high = m * (d * e)
SameDigit(x, high, t, d, e) == ((x * high + t) \div e) % d = (t \div e) % d

LEMMA LowDigits ==
  ASSUME NEW x \in Nat, NEW t \in Nat, NEW high \in Positive, NEW m \in Positive,
         NEW d \in Positive, NEW e \in Positive, Covers(high, m, d, e)
  PROVE  SameDigit(x, high, t, d, e)
<1>1. PICK q \in Nat, r \in 0..(e - 1) : t = q * e + r /\ q = t \div e
  BY Divided
<1>2. PICK u : u = (x * m) * d + q
  OBVIOUS
<1>3. u \in Nat /\ x * m \in Nat
  BY <1>1, <1>2 DEF Positive
<1>4. x * high + t = u * e + r
  <2>1. x * high = ((x * m) * d) * e
    BY DEF Positive, Covers
  <2>2. PICK v : v = (x * m) * d
    OBVIOUS
  <2>3. v \in Int
    BY <2>2 DEF Positive
  <2>4. v * e + (q * e + r) = (v + q) * e + r
    <3>1. (v + q) * e = v * e + q * e
      BY <1>1, <2>3 DEF Positive
    <3>2. PICK k \in Int, l \in Int : k = v * e /\ l = q * e
      BY <1>1, <2>3 DEF Positive
    <3> QED
      BY <1>1, <3>1, <3>2
  <2> QED
    BY <1>1, <1>2, <2>1, <2>2, <2>4
<1>5. (u * e + r) \div e = u
  BY <1>1, <1>3, Division
<1>6. u % d = q % d
  BY <1>1, <1>2, <1>3, Shifted
<1> QED
  BY <1>1, <1>4, <1>5, <1>6 DEF SameDigit

LEMMA SameLists ==
  ASSUME NEW s \in Seq(Int), NEW t \in Seq(Int), Len(s) = Len(t),
         \A k \in 1..Len(s) : s[k] = t[k]
  PROVE  s = t
BY SeqEqual

LEMMA DelinearIs ==
  ASSUME NEW dims \in Seq(Positive), NEW l \in Nat
  PROVE  /\ Delinear(l, dims) \in Seq(Int)
         /\ Len(Delinear(l, dims)) = Len(dims)
         /\ \A a \in 1..Len(dims) :
              /\ Delinear(l, dims)[a] = (l \div ElementsBehind(dims, a)) % dims[a]
              /\ Delinear(l, dims)[a] \in 0..(dims[a] - 1)
<1> DEFINE digit(a) == (l \div ElementsBehind(dims, a)) % dims[a]
<1>1. Len(dims) \in Nat /\ \A a \in 1..Len(dims) : dims[a] \in Positive
  OBVIOUS
<1>2. ASSUME NEW a \in 1..Len(dims) PROVE digit(a) \in 0..(dims[a] - 1)
  <2>1. ElementsBehind(dims, a) \in Positive
    BY <1>1, BehindSteps
  <2>2. PICK q \in Nat : q = l \div ElementsBehind(dims, a)
    BY <2>1, Divided
  <2>3. q % dims[a] \in 0..(dims[a] - 1)
    BY <1>1, Divided
  <2> QED
    BY <2>2, <2>3
<1>3. \A a \in 1..Len(dims) : digit(a) \in Int
  BY <1>1, <1>2 DEF Positive
<1> HIDE DEF digit
<1> DEFINE list == [a \in 1..Len(dims) |-> digit(a)]
<1>4. list \in Seq(Int) /\ Len(list) = Len(dims) /\ \A a \in 1..Len(dims) : list[a] = digit(a)
  BY <1>1, <1>3
<1>5. Delinear(l, dims) = list
  BY DEF Delinear, Axes, digit
<1> HIDE DEF list
<1> QED
  BY <1>2, <1>4, <1>5 DEF digit

LEMMA DelinearStays ==
  ASSUME NEW dims \in Seq(Positive), NEW l \in Nat
  PROVE  Within(Delinear(l, dims), dims)
BY DelinearIs DEF Within

(* Every element has a position.                                           *)
LEMMA DelinearReaches ==
  ASSUME NEW dims \in Seq(Positive), NEW at, Within(at, dims)
  PROVE  \E l \in 0..(ElementCount(dims) - 1) : Delinear(l, dims) = at
<1> DEFINE L == Len(dims)
           E(x) == ElementsBehind(dims, x)
           Has(t, a) == /\ t \in 0..(E(a) - 1)
                        /\ \A b \in (a + 1)..L : (t \div E(b)) % dims[b] = at[b]
           G == {k \in 0..L : \E t : Has(t, L - k)}
<1>1. /\ L \in Nat
      /\ \A x \in 1..L : dims[x] \in Positive /\ at[x] \in 0..(dims[x] - 1)
      /\ \A x \in 0..L : E(x) \in Positive
      /\ E(L) = 1
      /\ \A x \in 1..L : E(x - 1) = dims[x] * E(x)
  BY BehindSteps DEF Within
<1>2. \A b \in 0..L : \A a \in 0..b : \E m \in Positive : E(a) = m * E(b)
  <2>1. ASSUME NEW b \in 0..L, NEW a \in 0..b PROVE \E m \in Positive : E(a) = m * E(b)
    BY BehindDivides
  <2> QED
    BY <2>1
<1> HIDE DEF E
<1>3. 0 \in G
  <2>1. L - 0 = L /\ 0 \in 0..(E(L) - 1) /\ (L + 1)..L = {}
    BY <1>1
  <2>2. Has(0, L - 0)
    BY <2>1
  <2> HIDE DEF Has
  <2> QED
    BY <1>1, <2>2
<1>4. ASSUME NEW k \in 1..L, k - 1 \in G PROVE k \in G
  <2>1. PICK a : a = L - (k - 1)
    OBVIOUS
  <2>2. a \in 1..L /\ a \in 0..L /\ a - 1 = L - k /\ k \in 0..L
    BY <1>1, <2>1
  <2>3. PICK t : Has(t, a)
    BY <1>4, <2>1
  <2>4. /\ at[a] \in Nat /\ at[a] <= dims[a] - 1 /\ t \in Nat /\ t < E(a)
        /\ dims[a] \in Positive /\ E(a) \in Positive /\ E(a - 1) = dims[a] * E(a)
    BY <1>1, <2>2, <2>3 DEF Positive
  <2>5. PICK u : u = at[a] * E(a) + t
    OBVIOUS
  <2>6. u \in 0..(E(a - 1) - 1)
    <3>1. PICK x, d, e : x = at[a] /\ d = dims[a] /\ e = E(a)
      OBVIOUS
    <3>2. x \in Nat /\ d \in Positive /\ e \in Positive /\ x + 1 <= d
      BY <2>4, <3>1 DEF Positive
    <3>3. PICK j \in Nat : d = x + 1 + j
      <4>1. d - x - 1 \in Nat /\ d = x + 1 + (d - x - 1)
        BY <3>2 DEF Positive
      <4> QED
        BY <4>1
    <3>4. d * e = x * e + e + j * e
      BY <3>2, <3>3 DEF Positive
    <3>5. PICK v \in Nat, w \in Nat : v = x * e /\ w = j * e
      BY <3>2, <3>3 DEF Positive
    <3>6. PICK f : f = E(a - 1)
      OBVIOUS
    <3>7. u = v + t /\ f = v + e + w /\ t \in Nat /\ t < e /\ e \in Nat
      BY <2>4, <2>5, <3>1, <3>2, <3>4, <3>5, <3>6 DEF Positive
    <3>8. u \in 0..(f - 1)
      BY <3>5, <3>7
    <3> QED
      BY <3>6, <3>8
  <2>7. ASSUME NEW b \in a..L PROVE (u \div E(b)) % dims[b] = at[b]
    <3>1. b \in 1..L
      BY <2>2
    <3>2. CASE b = a
      <4>1. u \div E(a) = at[a]
        <5>1. t \in 0..(E(a) - 1)
          BY <2>3
        <5> QED
          BY <2>4, <2>5, <5>1, Division
      <4>2. at[a] % dims[a] = at[a]
        <5>1. (0 * dims[a] + at[a]) % dims[a] = at[a]
          BY <1>1, <2>2, Division
        <5>2. 0 * dims[a] + at[a] = at[a]
          BY <2>4 DEF Positive
        <5> QED
          BY <5>1, <5>2
      <4> QED
        BY <3>2, <4>1, <4>2
    <3>3. CASE b # a
      <4>1. b \in (a + 1)..L /\ b - 1 \in 0..L /\ a \in 0..(b - 1) /\ b \in 0..L
        BY <2>2, <3>1, <3>3
      <4>2. PICK m \in Positive : E(a) = m * E(b - 1)
        BY <1>2, <4>1
      <4>3. E(b - 1) = dims[b] * E(b) /\ dims[b] \in Positive /\ E(b) \in Positive
        BY <1>1, <3>1, <4>1
      <4>4. E(a) = m * (dims[b] * E(b))
        BY <4>2, <4>3
      <4>5. ((at[a] * E(a) + t) \div E(b)) % dims[b] = (t \div E(b)) % dims[b]
        <5>1. PICK x, high, d, e : x = at[a] /\ high = E(a) /\ d = dims[b] /\ e = E(b)
          OBVIOUS
        <5>2. /\ x \in Nat /\ t \in Nat /\ high \in Positive /\ d \in Positive /\ e \in Positive
              /\ Covers(high, m, d, e)
          BY <2>4, <4>3, <4>4, <5>1 DEF Covers
        <5>3. SameDigit(x, high, t, d, e)
          BY <5>2, LowDigits
        <5> QED
          BY <5>1, <5>3 DEF SameDigit
      <4> QED
        BY <2>3, <2>5, <4>1, <4>5
    <3> QED
      BY <3>2, <3>3
  <2>8. (a - 1) + 1 = a
    BY <2>2
  <2>9. Has(u, a - 1)
    BY <2>6, <2>7, <2>8
  <2> HIDE DEF Has
  <2> QED
    BY <2>2, <2>9
<1>5. L \in G
  <2>1. Inductive(G, L)
    <3> HIDE DEF G
    <3> QED
      BY <1>3, <1>4 DEF Inductive
  <2> HIDE DEF G
  <2> QED
    BY <1>1, <2>1, AxisInduction
<1>6. L - L = 0
  BY <1>1
<1>7. PICK l : Has(l, 0)
  BY <1>5, <1>6
<1>8. l \in 0..(ElementCount(dims) - 1) /\ l \in Nat /\ 0 + 1 = 1
  BY <1>1, <1>7 DEF ElementCount, E
<1>9. \A b \in 1..L : (l \div ElementsBehind(dims, b)) % dims[b] = at[b]
  BY <1>7, <1>8 DEF E
<1>10. PICK j : j = Delinear(l, dims)
  OBVIOUS
<1>11. j \in Seq(Int) /\ Len(j) = L /\ \A b \in 1..L : j[b] = at[b]
  BY <1>8, <1>9, <1>10, DelinearIs
<1>12. j = at
  BY <1>11, SameLists DEF Within
<1> QED
  BY <1>8, <1>10, <1>12

(***************************************************************************)
(* Nodes that are accepted.                                                *)
(***************************************************************************)
Rank(c) == Len(X(c)) - 2

ShapesFit(c) ==
  /\ X(c) \in Seq(Positive) /\ W(c) \in Seq(Positive) /\ Y(c) \in Seq(Positive)
  /\ Rank(c) \in 1..3
  /\ Len(X(c)) = Rank(c) + 2 /\ Len(W(c)) = Rank(c) + 2 /\ Len(Y(c)) = Rank(c) + 2

ChannelsFit(c) ==
  /\ Groups(c) \in Positive /\ OutputChannelsPerGroup(c) \in Positive
  /\ X(c)[1] = Y(c)[1] /\ W(c)[1] = Y(c)[2]
  /\ X(c)[2] = Groups(c) * W(c)[2]
  /\ Y(c)[2] = Groups(c) * OutputChannelsPerGroup(c)

AttributesFit(c) ==
  /\ c.tag \in Tags
  /\ \A s \in 1..Rank(c) : /\ c.pre[s] \in Nat /\ c.post[s] \in Nat
                           /\ c.stride[s] \in Positive /\ c.dilation[s] \in Positive
                           /\ HasExtent(c, s)

LEMMA ShapesOfAccepted ==
  ASSUME NodesWellFormed, NEW c \in TrainingNodes, DecodeConvolution(c)
  PROVE  ShapesFit(c)
<1>1. HasPorts(c) /\ Resolves(c) /\ HasRanks(c)
  BY DEF DecodeConvolution
<1> DEFINE p == PortsOf(c.tag)
<1>2. DOMAIN c.outputs = {p.out} /\ DOMAIN c.inputs = {p.x, p.w, p.y} \ {p.out}
  BY <1>1 DEF HasPorts
<1>3. \A port \in {p.x, p.w, p.y} : Uid(c, port) \in DOMAIN c.tensors
  <2> HIDE DEF p
  <2> QED
    BY <1>1, <1>2 DEF Resolves
<1>4. \A u \in DOMAIN c.tensors : c.tensors[u] \in Seq(Positive)
  BY DEF NodesWellFormed, Positive
<1>5. X(c) \in Seq(Positive) /\ W(c) \in Seq(Positive) /\ Y(c) \in Seq(Positive)
  BY <1>3, <1>4 DEF X, W, Y
<1>6. /\ Len(X(c)) \in 3..5 /\ Len(W(c)) = Len(X(c)) /\ Len(Y(c)) = Len(X(c))
  BY <1>1 DEF HasRanks
<1> QED
  BY <1>5, <1>6 DEF ShapesFit, Rank

LEMMA ExtentOf ==
  ASSUME NEW dims \in Seq(Positive), NEW a \in 1..Len(dims)
  PROVE  dims[a] \in Positive
OBVIOUS

LEMMA Divides ==
  ASSUME NEW t \in Positive, NEW d \in Positive, t % d = 0
  PROVE  t \div d \in Positive /\ t = d * (t \div d)
<1>1. PICK q \in Nat, r \in 0..(d - 1) : q = t \div d /\ r = t % d /\ t = q * d + r
  BY Divided DEF Positive
<1>2. PICK v \in Nat : v = q * d
  BY <1>1 DEF Positive
<1>3. t = v
  BY <1>1, <1>2 DEF Positive
<1>4. t = d * q
  BY <1>2, <1>3 DEF Positive
<1>5. q # 0
  BY <1>4 DEF Positive
<1> QED
  BY <1>1, <1>4, <1>5 DEF Positive

LEMMA ChannelsOfAccepted ==
  ASSUME NEW c, ShapesFit(c), DecodeConvolution(c)
  PROVE  ChannelsFit(c)
<1>1. PICK x1, x2, w1, w2, y1, y2 :
        x1 = X(c)[1] /\ x2 = X(c)[2] /\ w1 = W(c)[1] /\ w2 = W(c)[2] /\ y1 = Y(c)[1] /\ y2 = Y(c)[2]
  OBVIOUS
<1>2. x2 \in Positive /\ w2 \in Positive /\ y2 \in Positive
  <2>1. 2 \in 1..Len(X(c)) /\ 2 \in 1..Len(W(c)) /\ 2 \in 1..Len(Y(c))
    BY DEF ShapesFit
  <2> QED
    BY <1>1, <2>1, ExtentOf DEF ShapesFit
<1>3. /\ x1 = y1 /\ w1 = y2 /\ x2 % w2 = 0 /\ y2 % Groups(c) = 0
      /\ Groups(c) = x2 \div w2 /\ OutputChannelsPerGroup(c) = y2 \div Groups(c)
  BY <1>1 DEF DecodeConvolution, HasChannels, Groups, OutputChannelsPerGroup
<1>4. Groups(c) \in Positive /\ x2 = w2 * Groups(c)
  BY <1>2, <1>3, Divides
<1>5. OutputChannelsPerGroup(c) \in Positive /\ y2 = Groups(c) * OutputChannelsPerGroup(c)
  <2>1. PICK g : g = Groups(c)
    OBVIOUS
  <2>2. g \in Positive /\ y2 % g = 0 /\ OutputChannelsPerGroup(c) = y2 \div g
    BY <1>3, <1>4, <2>1
  <2>3. y2 \div g \in Positive /\ y2 = g * (y2 \div g)
    BY <1>2, <2>2, Divides
  <2> QED
    BY <2>1, <2>2, <2>3
<1>6. x2 = Groups(c) * w2
  BY <1>2, <1>4 DEF Positive
<1> QED
  BY <1>1, <1>3, <1>4, <1>5, <1>6 DEF ChannelsFit

LEMMA AttributesOfAccepted ==
  ASSUME NodesWellFormed, NEW c \in TrainingNodes, ShapesFit(c), DecodeConvolution(c)
  PROVE  AttributesFit(c)
<1>1. /\ c.pre \in Seq(Int) /\ c.post \in Seq(Int)
      /\ c.stride \in Seq(Int) /\ c.dilation \in Seq(Int)
  BY DEF NodesWellFormed
<1>2. /\ Len(c.pre) = Rank(c) /\ Len(c.post) = Rank(c)
      /\ Len(c.stride) = Rank(c) /\ Len(c.dilation) = Rank(c)
  BY DEF DecodeConvolution, HasRanks, Rank
<1>3. c.tag \in Tags /\ \A s \in 1..Rank(c) : HasExtent(c, s)
  BY DEF DecodeConvolution, SpatialAxes, Rank
<1>4. ASSUME NEW s \in 1..Rank(c)
      PROVE  /\ c.pre[s] \in Nat /\ c.post[s] \in Nat
             /\ c.stride[s] \in Positive /\ c.dilation[s] \in Positive
  <2>1. c.pre[s] \in Int /\ c.post[s] \in Int /\ c.stride[s] \in Int /\ c.dilation[s] \in Int
    <3>1. PICK n : n = Rank(c)
      OBVIOUS
    <3>2. s \in 1..n
      BY <3>1
    <3>3. \A l \in Seq(Int) : Len(l) = n => l[s] \in Int
      BY <3>2
    <3> QED
      BY <1>1, <1>2, <3>1, <3>3
  <2>2. c.pre[s] >= 0 /\ c.post[s] >= 0 /\ c.stride[s] > 0 /\ c.dilation[s] > 0
    BY <1>3 DEF HasExtent
  <2> QED
    BY <2>1, <2>2 DEF Positive
<1> QED
  BY <1>3, <1>4 DEF AttributesFit

(***************************************************************************)
(* The extents of the output.                                              *)
(***************************************************************************)
(* Positions a window of m elements, dilated, fits at, in p elements.      *)
Positions(p, m, stride, dilation) ==
  {y \in 0..p : \A w \in 0..(m - 1) : y * stride + w * dilation \in 0..(p - 1)}

LEMMA PositionsAre ==
  ASSUME NEW p \in Nat, NEW m \in Positive, NEW stride \in Positive, NEW dilation \in Positive,
         NEW f \in Nat, f = dilation * (m - 1) + 1, p >= f
  PROVE  Positions(p, m, stride, dilation) = 0..((p - f) \div stride)
<1>1. PICK q \in Nat, r \in 0..(stride - 1) :
        q = (p - f) \div stride /\ p - f = q * stride + r
  <2>1. p - f \in Nat
    OBVIOUS
  <2> QED
    BY <2>1, Divided
<1>2. ASSUME NEW y \in Positions(p, m, stride, dilation) PROVE y \in 0..q
  <2>1. y \in 0..p /\ m - 1 \in 0..(m - 1)
    BY DEF Positions, Positive
  <2>2. y * stride + (m - 1) * dilation \in 0..(p - 1)
    BY <2>1 DEF Positions
  <2>3. PICK u \in Nat, v \in Nat : u = y * stride /\ v = q * stride
    BY <1>1, <2>1 DEF Positive
  <2>4. (m - 1) * dilation = f - 1
    BY DEF Positive
  <2>5. u <= v + r
    BY <1>1, <2>2, <2>3, <2>4
  <2>6. ~ (y > q)
    <3> SUFFICES ASSUME y > q PROVE FALSE
      OBVIOUS
    <3>1. PICK j \in Nat : y = q + 1 + j
      <4>1. y - q - 1 \in Nat /\ y = q + 1 + (y - q - 1)
        BY <1>1, <2>1
      <4> QED
        BY <4>1
    <3>2. y * stride = q * stride + stride + j * stride
      BY <1>1, <3>1 DEF Positive
    <3>3. PICK k \in Nat : k = j * stride
      BY <3>1 DEF Positive
    <3> QED
      BY <1>1, <2>3, <2>5, <3>2, <3>3 DEF Positive
  <2> QED
    BY <1>1, <2>1, <2>6
<1>3. ASSUME NEW y \in 0..q PROVE y \in Positions(p, m, stride, dilation)
  <2>1. PICK j \in Nat : q = y + j
    <3>1. q - y \in Nat /\ q = y + (q - y)
      BY <1>1
    <3> QED
      BY <3>1
  <2>2. q * stride = y * stride + j * stride
    BY <1>1, <2>1 DEF Positive
  <2>3. PICK u \in Nat, v \in Nat : u = y * stride /\ v = j * stride
    BY <2>1 DEF Positive
  <2>4. u <= p - f /\ y <= u
    <3>1. y <= y * stride
      <4>1. PICK k \in Nat : stride = k + 1
        <5>1. stride - 1 \in Nat /\ stride = (stride - 1) + 1
          BY DEF Positive
        <5> QED
          BY <5>1
      <4>2. y * stride = y * k + y
        BY <4>1 DEF Positive
      <4>3. PICK l \in Nat : l = y * k
        BY <4>1
      <4> QED
        BY <4>2, <4>3
    <3> QED
      BY <1>1, <2>2, <2>3, <3>1
  <2>5. ASSUME NEW w \in 0..(m - 1) PROVE y * stride + w * dilation \in 0..(p - 1)
    <3>1. PICK k \in Nat : m - 1 = w + k
      <4>1. m - 1 - w \in Nat /\ m - 1 = w + (m - 1 - w)
        BY DEF Positive
      <4> QED
        BY <4>1
    <3>2. dilation * (m - 1) = w * dilation + k * dilation
      BY <3>1 DEF Positive
    <3>3. PICK a \in Nat, b \in Nat : a = w * dilation /\ b = k * dilation
      BY <3>1 DEF Positive
    <3> QED
      BY <2>3, <2>4, <3>2, <3>3
  <2>6. y \in 0..p
    BY <1>1, <2>4
  <2> QED
    BY <2>5, <2>6 DEF Positions
<1> QED
  BY <1>1, <1>2, <1>3

LEMMA ExtentsFit ==
  ASSUME NEW c, ShapesFit(c), AttributesFit(c), NEW s \in SpatialAxes(c)
  PROVE  Y(c)[s + 2] =
           Cardinality({y \in 0..PaddedInput(c, s) :
                          \A w \in 0..(W(c)[s + 2] - 1) :
                            y * c.stride[s] + w * c.dilation[s] \in 0..(PaddedInput(c, s) - 1)})
<1>1. s \in 1..Rank(c) /\ s + 2 \in 1..Len(X(c)) /\ s + 2 \in 1..Len(W(c)) /\ s + 2 \in 1..Len(Y(c))
  BY DEF ShapesFit, SpatialAxes, Rank
<1>2. PICK m, x, pre, post, stride, dilation, p, f :
        /\ m = W(c)[s + 2] /\ x = X(c)[s + 2] /\ pre = c.pre[s] /\ post = c.post[s]
        /\ stride = c.stride[s] /\ dilation = c.dilation[s]
        /\ p = PaddedInput(c, s) /\ f = DilatedFilter(c, s)
  OBVIOUS
<1>3. m \in Positive /\ x \in Positive
  BY <1>1, <1>2, ExtentOf DEF ShapesFit
<1>4. pre \in Nat /\ post \in Nat /\ stride \in Positive /\ dilation \in Positive
  BY <1>1, <1>2 DEF AttributesFit
<1>5. p = x + pre + post /\ f = dilation * (m - 1) + 1
  BY <1>2 DEF PaddedInput, DilatedFilter
<1>6. p >= f /\ Y(c)[s + 2] = 1 + ((p - f) \div stride)
  BY <1>1, <1>2 DEF AttributesFit, HasExtent
<1>7. p \in Nat /\ f \in Nat
  <2>1. dilation * (m - 1) \in Nat
    BY <1>3, <1>4 DEF Positive
  <2> QED
    BY <1>3, <1>4, <1>5, <2>1 DEF Positive
<1>8. Positions(p, m, stride, dilation) = 0..((p - f) \div stride)
  BY <1>3, <1>4, <1>5, <1>6, <1>7, PositionsAre
<1>9. PICK q \in Nat : q = (p - f) \div stride
  <2>1. p - f \in Nat
    BY <1>6, <1>7
  <2> QED
    BY <1>4, <2>1, Divided
<1>10. Cardinality(Positions(p, m, stride, dilation)) = q + 1
  BY <1>8, <1>9, FS_Interval
<1> QED
  BY <1>2, <1>6, <1>9, <1>10 DEF Positions

(***************************************************************************)
(* Lists of a head and the spatial entries.                                *)
(***************************************************************************)
Headed(p, q, x) == <<p, q>> \o x
Led(p, x) == <<p>> \o x
Heads(t, p, q, x) ==
  /\ t \in Seq(Int) /\ Len(t) = Len(x) + 2 /\ t[1] = p /\ t[2] = q
  /\ \A s \in 1..Len(x) : t[s + 2] = x[s]
Leads(t, p, x) ==
  /\ t \in Seq(Int) /\ Len(t) = Len(x) + 1 /\ t[1] = p
  /\ \A s \in 1..Len(x) : t[s + 1] = x[s]
Rest(l, k) == SubSeq(l, k, Len(l))

LEMMA HeadedIs ==
  ASSUME NEW p \in Int, NEW q \in Int, NEW x \in Seq(Int)
  PROVE  Heads(Headed(p, q, x), p, q, x)
<1>1. <<p, q>> \in Seq(Int) /\ Len(<<p, q>>) = 2 /\ <<p, q>>[1] = p /\ <<p, q>>[2] = q
  OBVIOUS
<1>2. Len(x) \in Nat
  OBVIOUS
<1>3. PICK h : h = <<p, q>>
  OBVIOUS
<1>4. /\ h \o x \in Seq(Int) /\ Len(h \o x) = 2 + Len(x)
      /\ \A i \in 1..(2 + Len(x)) : (h \o x)[i] = IF i <= 2 THEN h[i] ELSE x[i - 2]
  BY <1>1, <1>3, ConcatProperties
<1>5. PICK t : t = h \o x
  OBVIOUS
<1>6. t[1] = p /\ t[2] = q
  <2>1. 1 \in 1..(2 + Len(x)) /\ 2 \in 1..(2 + Len(x))
    BY <1>2
  <2> QED
    BY <1>1, <1>3, <1>4, <1>5, <2>1
<1>7. ASSUME NEW s \in 1..Len(x) PROVE t[s + 2] = x[s]
  <2>1. s + 2 \in 1..(2 + Len(x)) /\ ~ (s + 2 <= 2) /\ (s + 2) - 2 = s
    BY <1>2
  <2> QED
    BY <1>4, <1>5, <2>1
<1> QED
  BY <1>2, <1>3, <1>4, <1>5, <1>6, <1>7 DEF Headed, Heads

LEMMA LedIs ==
  ASSUME NEW p \in Int, NEW x \in Seq(Int)
  PROVE  Leads(Led(p, x), p, x)
<1>1. <<p>> \in Seq(Int) /\ Len(<<p>>) = 1 /\ <<p>>[1] = p
  OBVIOUS
<1>2. Len(x) \in Nat
  OBVIOUS
<1>3. PICK h : h = <<p>>
  OBVIOUS
<1>4. /\ h \o x \in Seq(Int) /\ Len(h \o x) = 1 + Len(x)
      /\ \A i \in 1..(1 + Len(x)) : (h \o x)[i] = IF i <= 1 THEN h[i] ELSE x[i - 1]
  BY <1>1, <1>3, ConcatProperties
<1>5. PICK t : t = h \o x
  OBVIOUS
<1>6. t[1] = p
  <2>1. 1 \in 1..(1 + Len(x))
    BY <1>2
  <2> QED
    BY <1>1, <1>3, <1>4, <1>5, <2>1
<1>7. ASSUME NEW s \in 1..Len(x) PROVE t[s + 1] = x[s]
  <2>1. s + 1 \in 1..(1 + Len(x)) /\ ~ (s + 1 <= 1) /\ (s + 1) - 1 = s
    BY <1>2
  <2> QED
    BY <1>4, <1>5, <2>1
<1> QED
  BY <1>2, <1>3, <1>4, <1>5, <1>6, <1>7 DEF Led, Leads

LEMMA RestIs ==
  ASSUME NEW S, NEW l \in Seq(S), NEW k \in 1..3, k <= Len(l)
  PROVE  /\ Rest(l, k) \in Seq(S) /\ Len(Rest(l, k)) = Len(l) - k + 1
         /\ \A s \in 1..(Len(l) - k + 1) : Rest(l, k)[s] = l[s + k - 1]
<1>1. Len(l) \in Nat /\ \A i \in k..Len(l) : l[i] \in S
  OBVIOUS
<1>2. PICK n : n = Len(l)
  OBVIOUS
<1>3. PICK t : t = SubSeq(l, k, n)
  OBVIOUS
<1>4. /\ t \in Seq(S) /\ Len(t) = n - k + 1
      /\ \A i \in 1..(n - k + 1) : t[i] = l[k + i - 1]
  BY <1>1, <1>2, <1>3, SubSeqProperties
<1>5. ASSUME NEW s \in 1..(n - k + 1) PROVE t[s] = l[s + k - 1]
  <2>1. k + s - 1 = s + k - 1
    BY <1>1, <1>2
  <2> QED
    BY <1>4, <2>1
<1> QED
  BY <1>2, <1>3, <1>4, <1>5 DEF Rest

(***************************************************************************)
(* Channels and groups.                                                    *)
(***************************************************************************)
InGroup(g, d, w) == g * d + w

LEMMA ChannelFits ==
  ASSUME NEW n \in Positive, NEW d \in Positive, NEW g \in 0..(n - 1), NEW w \in 0..(d - 1)
  PROVE  InGroup(g, d, w) \in 0..(n * d - 1)
<1>1. PICK j \in Nat : n = g + 1 + j
  <2>1. n - g - 1 \in Nat /\ n = g + 1 + (n - g - 1)
    BY DEF Positive
  <2> QED
    BY <2>1
<1>2. n * d = g * d + d + j * d
  BY <1>1 DEF Positive
<1>3. PICK u \in Nat, v \in Nat : u = g * d /\ v = j * d
  BY <1>1 DEF Positive
<1> QED
  BY <1>2, <1>3 DEF Positive, InGroup

LEMMA GroupFits ==
  ASSUME NEW n \in Positive, NEW d \in Positive, NEW w \in 0..(n * d - 1)
  PROVE  /\ w \div d \in 0..(n - 1) /\ w % d \in 0..(d - 1)
         /\ InGroup(w \div d, d, w % d) = w
<1>1. n * d \in Nat
  BY DEF Positive
<1>2. PICK q \in Nat, r \in 0..(d - 1) : q = w \div d /\ r = w % d /\ w = q * d + r
  BY <1>1, Divided
<1>3. ~ (q >= n)
  <2> SUFFICES ASSUME q >= n PROVE FALSE
    OBVIOUS
  <2>1. PICK j \in Nat : q = n + j
    <3>1. q - n \in Nat /\ q = n + (q - n)
      BY <1>2 DEF Positive
    <3> QED
      BY <3>1
  <2>2. q * d = n * d + j * d
    BY <2>1 DEF Positive
  <2>3. PICK u \in Nat, v \in Nat : u = n * d /\ v = j * d
    BY <2>1 DEF Positive
  <2> QED
    BY <1>2, <2>2, <2>3
<1> QED
  BY <1>2, <1>3 DEF Positive, InGroup

LEMMA GroupOf ==
  ASSUME NEW d \in Positive, NEW g \in Nat, NEW w \in 0..(d - 1)
  PROVE  InGroup(g, d, w) \div d = g /\ InGroup(g, d, w) % d = w
BY Division DEF InGroup

(* The channels of a group are those the group owns.                       *)
LEMMA GroupOwns ==
  ASSUME NEW d \in Positive, NEW g \in Nat, NEW w \in Nat
  PROVE  w \in (g * d)..((g + 1) * d - 1) <=> w \div d = g
<1>1. PICK q \in Nat, r \in 0..(d - 1) : q = w \div d /\ r = w % d /\ w = q * d + r
  BY Divided
<1>2. (g + 1) * d = g * d + d
  BY DEF Positive
<1>3. PICK u \in Nat : u = g * d
  BY DEF Positive
<1>4. ASSUME w \in u..(u + d - 1) PROVE q = g
  <2>1. PICK v \in Nat : v = w - u
    BY <1>3, <1>4 DEF Positive
  <2>2. v \in 0..(d - 1) /\ w = g * d + v
    BY <1>3, <1>4, <2>1 DEF Positive
  <2> QED
    BY <1>1, <2>2, Division
<1>5. ASSUME q = g PROVE w \in u..(u + d - 1)
  BY <1>1, <1>3, <1>5 DEF Positive
<1>6. (g * d)..((g + 1) * d - 1) = u..(u + d - 1)
  <2>1. PICK v \in Nat : v = (g + 1) * d
    BY DEF Positive
  <2>2. v - 1 = u + d - 1
    BY <1>2, <1>3, <2>1 DEF Positive
  <2> QED
    BY <1>3, <2>1, <2>2
<1> QED
  BY <1>1, <1>4, <1>5, <1>6

(***************************************************************************)
(* The products of the convolution.                                        *)
(***************************************************************************)
FilterOf(c, s, k) == IF c.mode = "CONVOLUTION" THEN W(c)[s + 2] - k ELSE k + 1

Spatial(dims) == Indices(SubSeq(dims, 3, Len(dims)))

Reached(c) ==
  {t \in Indices(W(c)) \X Spatial(X(c)) \X Spatial(Y(c)) :
     \A s \in SpatialAxes(c) :
       t[2][s] + c.pre[s]
         = t[3][s] * c.stride[s] + (FilterOf(c, s, t[1][s + 2]) - 1) * c.dilation[s]}

Grouped(c) ==
  {p \in (0..(Groups(c) - 1)) \X Reached(c) :
     p[2][1][1] \in (p[1] * OutputChannelsPerGroup(c))
                      ..((p[1] + 1) * OutputChannelsPerGroup(c) - 1)}

ProductOf(c, n, g, w, x, y) == <<<<n, g * W(c)[2] + w[2]>> \o x, w, <<n, w[1]>> \o y>>

LEMMA ContractionByName ==
  ASSUME NEW c
  PROVE  Contraction(c) =
           {ProductOf(c, n, p[1], p[2][1], p[2][2], p[2][3]) :
              n \in 0..(X(c)[1] - 1), p \in Grouped(c)}
BY DEF Contraction, Grouped, Reached, Spatial, FilterOf, ProductOf

(* Elements of the input, of the filter and of the output that meet.       *)
Reaches(c, s, x, y, w) ==
  x + c.pre[s] = y * c.stride[s] + FilterCoordinate(c, s, w) * c.dilation[s]

Meeting(c, x, w, y) ==
  /\ Within(x, X(c)) /\ Within(w, W(c)) /\ Within(y, Y(c))
  /\ x[1] = y[1] /\ w[1] = y[2]
  /\ x[2] = InGroup(w[1] \div OutputChannelsPerGroup(c), W(c)[2], w[2])
  /\ \A s \in 1..Rank(c) : Reaches(c, s, x[s + 2], y[s + 2], w[s + 2])

LEMMA FiltersAgree ==
  ASSUME NEW c, NEW s, NEW k \in Int, W(c)[s + 2] \in Int
  PROVE  FilterOf(c, s, k) - 1 = FilterCoordinate(c, s, k)
BY DEF FilterOf, FilterCoordinate

(* A spatial index of a tensor with n spatial axes.                        *)
Inside(i, dims, n) ==
  /\ i \in Seq(Int) /\ Len(i) = n
  /\ \A s \in 1..n : i[s] \in 0..(dims[s + 2] - 1)

ElementOf(t, p, q, x, dims, n) ==
  Within(t, dims) /\ t[1] = p /\ t[2] = q /\ \A s \in 1..n : t[s + 2] = x[s]

LEMMA SpatialIs ==
  ASSUME NEW n \in 1..3, NEW dims \in Seq(Positive), Len(dims) = n + 2
  PROVE  \A i : i \in Spatial(dims) <=> Inside(i, dims, n)
<1>1. 3 \in 1..3 /\ 3 <= Len(dims) /\ Len(dims) - 3 + 1 = n
  OBVIOUS
<1>2. PICK t : t = Rest(dims, 3)
  OBVIOUS
<1>3. t \in Seq(Positive) /\ Len(t) = n /\ \A s \in 1..n : t[s] = dims[s + 3 - 1]
  BY <1>1, <1>2, RestIs
<1>4. \A s \in 1..n : s + 3 - 1 = s + 2
  OBVIOUS
<1>5. t \in Seq(Int)
  BY <1>3, SeqMonotonic DEF Positive
<1>6. Spatial(dims) = Indices(t)
  BY <1>2 DEF Spatial, Rest
<1>7. \A i : i \in Indices(t) <=> Within(i, t)
  BY <1>5, IndicesAre
<1> QED
  BY <1>3, <1>4, <1>6, <1>7 DEF Within, Inside

(* An element is its image and channel, and its spatial index.             *)
LEMMA ElementIs ==
  ASSUME NEW n \in 1..3, NEW dims \in Seq(Positive), Len(dims) = n + 2,
         NEW p \in 0..(dims[1] - 1), NEW q \in 0..(dims[2] - 1), NEW x, Inside(x, dims, n)
  PROVE  ElementOf(Headed(p, q, x), p, q, x, dims, n)
<1>0. /\ x \in Seq(Int) /\ Len(x) = n
      /\ \A s \in 1..n : x[s] \in 0..(dims[s + 2] - 1)
  BY DEF Inside
<1>1. p \in Int /\ q \in Int
  OBVIOUS
<1>2. PICK t : t = Headed(p, q, x)
  OBVIOUS
<1>3. /\ t \in Seq(Int) /\ Len(t) = n + 2 /\ t[1] = p /\ t[2] = q
      /\ \A s \in 1..n : t[s + 2] = x[s]
  <2>1. Heads(t, p, q, x)
    BY <1>0, <1>1, <1>2, HeadedIs
  <2> QED
    BY <1>0, <2>1 DEF Heads
<1>4. ASSUME NEW a \in 1..(n + 2) PROVE t[a] \in 0..(dims[a] - 1)
  <2>1. CASE a = 1
    BY <1>3, <2>1
  <2>2. CASE a = 2
    BY <1>3, <2>2
  <2>3. CASE a \in 3..(n + 2)
    <3>1. PICK s : s = a - 2
      OBVIOUS
    <3>2. s \in 1..n /\ s + 2 = a
      BY <2>3, <3>1
    <3> QED
      BY <1>0, <1>3, <3>2
  <2> QED
    BY <2>1, <2>2, <2>3
<1> QED
  BY <1>2, <1>3, <1>4 DEF Within, ElementOf

(* Two elements are the same when they agree on image, channel and axes.   *)
LEMMA SameElement ==
  ASSUME NEW n \in 1..3, NEW dims \in Seq(Positive), Len(dims) = n + 2,
         NEW i, NEW j, Within(i, dims), Within(j, dims),
         i[1] = j[1], i[2] = j[2], \A s \in 1..n : i[s + 2] = j[s + 2]
  PROVE  i = j
<1>1. i \in Seq(Int) /\ j \in Seq(Int) /\ Len(i) = n + 2 /\ Len(j) = n + 2
  BY DEF Within
<1>2. ASSUME NEW a \in 1..(n + 2) PROVE i[a] = j[a]
  <2>1. CASE a \in {1, 2}
    BY <2>1
  <2>2. CASE a \in 3..(n + 2)
    <3>1. PICK s : s = a - 2
      OBVIOUS
    <3>2. s \in 1..n /\ s + 2 = a
      BY <2>2, <3>1
    <3> QED
      BY <3>2
  <2> QED
    BY <2>1, <2>2
<1> QED
  BY <1>1, <1>2, SameLists

LEMMA WithinParts ==
  ASSUME NEW n \in 1..3, NEW dims \in Seq(Positive), Len(dims) = n + 2,
         NEW i, Within(i, dims)
  PROVE  /\ i \in Seq(Int) /\ Len(i) = n + 2
         /\ i[1] \in 0..(dims[1] - 1) /\ i[2] \in 0..(dims[2] - 1)
         /\ \A s \in 1..n : i[s + 2] \in 0..(dims[s + 2] - 1)
<1>1. i \in Seq(Int) /\ Len(i) = n + 2 /\ \A a \in 1..(n + 2) : i[a] \in 0..(dims[a] - 1)
  BY DEF Within
<1>2. 1 \in 1..(n + 2) /\ 2 \in 1..(n + 2) /\ \A s \in 1..n : s + 2 \in 1..(n + 2)
  OBVIOUS
<1> QED
  BY <1>1, <1>2

LEMMA RestIsSpatial ==
  ASSUME NEW n \in 1..3, NEW i \in Seq(Int), Len(i) = n + 2
  PROVE  /\ Rest(i, 3) \in Seq(Int) /\ Len(Rest(i, 3)) = n
         /\ \A s \in 1..n : Rest(i, 3)[s] = i[s + 2]
<1>1. 3 \in 1..3 /\ 3 <= Len(i) /\ Len(i) - 3 + 1 = n
  OBVIOUS
<1>2. PICK t : t = Rest(i, 3)
  OBVIOUS
<1>3. t \in Seq(Int) /\ Len(t) = n /\ \A s \in 1..n : t[s] = i[s + 3 - 1]
  BY <1>1, <1>2, RestIs
<1>4. \A s \in 1..n : s + 3 - 1 = s + 2
  OBVIOUS
<1> QED
  BY <1>2, <1>3, <1>4

Fits(c) == ShapesFit(c) /\ ChannelsFit(c) /\ AttributesFit(c)

LEMMA HeadExtents ==
  ASSUME NEW c, Fits(c)
  PROVE  /\ X(c)[1] \in Positive /\ X(c)[2] \in Positive /\ W(c)[1] \in Positive
         /\ W(c)[2] \in Positive /\ Y(c)[1] \in Positive /\ Y(c)[2] \in Positive
         /\ \A s \in 1..Rank(c) :
              /\ X(c)[s + 2] \in Positive /\ W(c)[s + 2] \in Positive /\ Y(c)[s + 2] \in Positive
         /\ SpatialAxes(c) = 1..Rank(c)
         /\ \A a \in 1..Len(X(c)) : X(c)[a] \in Int
<1>1. /\ 1 \in 1..(Rank(c) + 2) /\ 2 \in 1..(Rank(c) + 2)
      /\ \A s \in 1..Rank(c) : s + 2 \in 1..(Rank(c) + 2)
  BY DEF Fits, ShapesFit
<1>2. \A a \in 1..(Rank(c) + 2) : /\ X(c)[a] \in Positive /\ W(c)[a] \in Positive
                                  /\ Y(c)[a] \in Positive
  BY ExtentOf DEF Fits, ShapesFit
<1>3. SpatialAxes(c) = 1..Rank(c)
  BY DEF SpatialAxes, Rank
<1>4. Len(X(c)) = Rank(c) + 2
  BY DEF Fits, ShapesFit
<1>5. \A a \in 1..Len(X(c)) : X(c)[a] \in Int
  BY <1>2, <1>4 DEF Positive
<1> QED
  BY <1>1, <1>2, <1>3, <1>5

LEMMA ContractionMeets ==
  ASSUME NEW c, Fits(c), NEW t \in Contraction(c)
  PROVE  \E x, w, y : t = <<x, w, y>> /\ Meeting(c, x, w, y)
<1> DEFINE n == Rank(c)
           K == OutputChannelsPerGroup(c)
           C == W(c)[2]
<1>1. PICK m \in 0..(X(c)[1] - 1), p \in Grouped(c) :
        t = ProductOf(c, m, p[1], p[2][1], p[2][2], p[2][3])
  BY ContractionByName
<1>2. PICK g, r : p = <<g, r>> /\ g \in 0..(Groups(c) - 1) /\ r \in Reached(c)
                  /\ r[1][1] \in (g * K)..((g + 1) * K - 1)
  BY DEF Grouped
<1>3. PICK w, u, v :
        /\ r = <<w, u, v>> /\ w \in Indices(W(c)) /\ u \in Spatial(X(c)) /\ v \in Spatial(Y(c))
        /\ \A s \in SpatialAxes(c) :
             u[s] + c.pre[s] = v[s] * c.stride[s] + (FilterOf(c, s, w[s + 2]) - 1) * c.dilation[s]
  BY <1>2 DEF Reached
<1>4. t = <<Headed(m, InGroup(g, C, w[2]), u), w, Headed(m, w[1], v)>>
  BY <1>1, <1>2, <1>3 DEF ProductOf, Headed, InGroup
<1>5. /\ n \in 1..3 /\ X(c) \in Seq(Positive) /\ W(c) \in Seq(Positive) /\ Y(c) \in Seq(Positive)
      /\ Len(X(c)) = n + 2 /\ Len(W(c)) = n + 2 /\ Len(Y(c)) = n + 2
  BY DEF Fits, ShapesFit
<1>6. /\ Groups(c) \in Positive /\ K \in Positive /\ X(c)[1] = Y(c)[1] /\ W(c)[1] = Y(c)[2]
      /\ X(c)[2] = Groups(c) * C /\ Y(c)[2] = Groups(c) * K
  BY DEF Fits, ChannelsFit
<1>7. C \in Positive /\ SpatialAxes(c) = 1..n
  BY HeadExtents
<1>8. Within(w, W(c))
  <2>1. W(c) \in Seq(Int)
    BY <1>5, SeqMonotonic DEF Positive
  <2> QED
    BY <1>3, <2>1, IndicesAre
<1>9. /\ w[1] \in 0..(W(c)[1] - 1) /\ w[2] \in 0..(C - 1)
      /\ \A s \in 1..n : w[s + 2] \in 0..(W(c)[s + 2] - 1)
  BY <1>5, <1>8, WithinParts
<1>10. Inside(u, X(c), n)
  BY <1>3, <1>5, SpatialIs
<1>11. Inside(v, Y(c), n)
  BY <1>3, <1>5, SpatialIs
<1>12. PICK q : q = InGroup(g, C, w[2])
  OBVIOUS
<1>13. q \in 0..(X(c)[2] - 1)
  BY <1>2, <1>6, <1>7, <1>9, <1>12, ChannelFits
<1>14. PICK x, y : x = Headed(m, q, u) /\ y = Headed(m, w[1], v)
  OBVIOUS
<1>15. /\ Within(x, X(c)) /\ x[1] = m /\ x[2] = q /\ \A s \in 1..n : x[s + 2] = u[s]
  <2>1. ElementOf(x, m, q, u, X(c), n)
    BY <1>1, <1>5, <1>10, <1>13, <1>14, ElementIs
  <2> QED
    BY <2>1 DEF ElementOf
<1>16. /\ Within(y, Y(c)) /\ y[1] = m /\ y[2] = w[1] /\ \A s \in 1..n : y[s + 2] = v[s]
  <2>1. m \in 0..(Y(c)[1] - 1) /\ w[1] \in 0..(Y(c)[2] - 1)
    BY <1>6, <1>9
  <2>2. ElementOf(y, m, w[1], v, Y(c), n)
    BY <1>5, <1>11, <1>14, <2>1, ElementIs
  <2> QED
    BY <2>2 DEF ElementOf
<1>17. w[1] \div K = g
  <2>1. w[1] \in (g * K)..((g + 1) * K - 1) /\ w[1] \in Nat /\ g \in Nat
    BY <1>2, <1>3, <1>9
  <2> HIDE DEF K
  <2> QED
    BY <1>6, <2>1, GroupOwns
<1>18. ASSUME NEW s \in 1..n PROVE Reaches(c, s, x[s + 2], y[s + 2], w[s + 2])
  <2>1. w[s + 2] \in Int /\ W(c)[s + 2] \in Int
    BY <1>9, HeadExtents DEF Positive
  <2>2. FilterOf(c, s, w[s + 2]) - 1 = FilterCoordinate(c, s, w[s + 2])
    BY <2>1, FiltersAgree
  <2>3. u[s] + c.pre[s] = v[s] * c.stride[s] + (FilterOf(c, s, w[s + 2]) - 1) * c.dilation[s]
    BY <1>3, <1>7
  <2> QED
    BY <1>15, <1>16, <2>2, <2>3 DEF Reaches
<1>19. Meeting(c, x, w, y)
  BY <1>8, <1>12, <1>15, <1>16, <1>17, <1>18 DEF Meeting
<1> QED
  BY <1>4, <1>12, <1>14, <1>19

LEMMA MeetingContracts ==
  ASSUME NEW c, Fits(c), NEW x, NEW w, NEW y, Meeting(c, x, w, y)
  PROVE  <<x, w, y>> \in Contraction(c)
<1> DEFINE n == Rank(c)
           K == OutputChannelsPerGroup(c)
           C == W(c)[2]
<1>1. /\ n \in 1..3 /\ X(c) \in Seq(Positive) /\ W(c) \in Seq(Positive) /\ Y(c) \in Seq(Positive)
      /\ Len(X(c)) = n + 2 /\ Len(W(c)) = n + 2 /\ Len(Y(c)) = n + 2
  BY DEF Fits, ShapesFit
<1>2. /\ Groups(c) \in Positive /\ K \in Positive /\ W(c)[1] = Y(c)[2]
      /\ X(c)[1] = Y(c)[1] /\ Y(c)[2] = Groups(c) * K /\ X(c)[2] = Groups(c) * C
  BY DEF Fits, ChannelsFit
<1>3. C \in Positive /\ SpatialAxes(c) = 1..n
  BY HeadExtents
<1>4. /\ Within(x, X(c)) /\ Within(w, W(c)) /\ Within(y, Y(c))
      /\ x[1] = y[1] /\ w[1] = y[2] /\ x[2] = InGroup(w[1] \div K, C, w[2])
      /\ \A s \in 1..n : Reaches(c, s, x[s + 2], y[s + 2], w[s + 2])
  BY DEF Meeting
<1>5. /\ x \in Seq(Int) /\ Len(x) = n + 2 /\ x[1] \in 0..(X(c)[1] - 1) /\ x[2] \in 0..(X(c)[2] - 1)
      /\ \A s \in 1..n : x[s + 2] \in 0..(X(c)[s + 2] - 1)
  BY <1>1, <1>4, WithinParts
<1>6. /\ y \in Seq(Int) /\ Len(y) = n + 2 /\ y[1] \in 0..(Y(c)[1] - 1) /\ y[2] \in 0..(Y(c)[2] - 1)
      /\ \A s \in 1..n : y[s + 2] \in 0..(Y(c)[s + 2] - 1)
  BY <1>1, <1>4, WithinParts
<1>7. /\ w[1] \in 0..(W(c)[1] - 1) /\ w[2] \in 0..(C - 1)
      /\ \A s \in 1..n : w[s + 2] \in 0..(W(c)[s + 2] - 1)
  BY <1>1, <1>4, WithinParts
<1>8. PICK u, v : u = Rest(x, 3) /\ v = Rest(y, 3)
  OBVIOUS
<1>9. /\ u \in Seq(Int) /\ Len(u) = n /\ \A s \in 1..n : u[s] = x[s + 2]
  BY <1>1, <1>5, <1>8, RestIsSpatial
<1>10. /\ v \in Seq(Int) /\ Len(v) = n /\ \A s \in 1..n : v[s] = y[s + 2]
  BY <1>1, <1>6, <1>8, RestIsSpatial
<1>11. /\ Inside(u, X(c), n) /\ Inside(v, Y(c), n)
       /\ u \in Spatial(X(c)) /\ v \in Spatial(Y(c))
  <2>1. Inside(u, X(c), n) /\ Inside(v, Y(c), n)
    BY <1>5, <1>6, <1>9, <1>10 DEF Inside
  <2> QED
    BY <1>1, <2>1, SpatialIs
<1>12. w \in Indices(W(c))
  <2>1. W(c) \in Seq(Int)
    BY <1>1, SeqMonotonic DEF Positive
  <2> QED
    BY <1>4, <2>1, IndicesAre
<1>13. PICK g : g = w[1] \div K
  OBVIOUS
<1>14. g \in 0..(Groups(c) - 1) /\ g \in Nat /\ w[1] \in Nat
  <2>1. w[1] \in 0..(Groups(c) * K - 1)
    BY <1>2, <1>7
  <2> HIDE DEF K
  <2>2. g \in 0..(Groups(c) - 1)
    BY <1>2, <1>13, <2>1, GroupFits
  <2> QED
    BY <1>7, <2>2
<1>15. w[1] \in (g * K)..((g + 1) * K - 1)
  <2> HIDE DEF K
  <2> QED
    BY <1>2, <1>13, <1>14, GroupOwns
<1>16. PICK r : r = <<w, u, v>>
  OBVIOUS
<1>17. r \in Reached(c)
  <2>1. ASSUME NEW s \in SpatialAxes(c)
        PROVE  u[s] + c.pre[s]
                 = v[s] * c.stride[s] + (FilterOf(c, s, w[s + 2]) - 1) * c.dilation[s]
    <3>1. s \in 1..n
      BY <1>3
    <3>2. w[s + 2] \in Int /\ W(c)[s + 2] \in Int
      BY <1>7, <3>1, HeadExtents DEF Positive
    <3>3. FilterOf(c, s, w[s + 2]) - 1 = FilterCoordinate(c, s, w[s + 2])
      BY <3>2, FiltersAgree
    <3>4. x[s + 2] + c.pre[s]
            = y[s + 2] * c.stride[s] + FilterCoordinate(c, s, w[s + 2]) * c.dilation[s]
      BY <1>4, <3>1 DEF Reaches
    <3> QED
      BY <1>9, <1>10, <3>1, <3>3, <3>4
  <2> QED
    BY <1>11, <1>12, <1>16, <2>1 DEF Reached
<1>18. PICK p : p = <<g, r>>
  OBVIOUS
<1>19. p \in Grouped(c)
  BY <1>14, <1>15, <1>16, <1>17, <1>18 DEF Grouped
<1>20. x = Headed(x[1], InGroup(g, C, w[2]), u)
  <2>1. PICK t : t = Headed(x[1], x[2], u)
    OBVIOUS
  <2>2. ElementOf(t, x[1], x[2], u, X(c), n)
    BY <1>1, <1>5, <1>11, <2>1, ElementIs
  <2>3. Within(t, X(c)) /\ t[1] = x[1] /\ t[2] = x[2] /\ \A s \in 1..n : t[s + 2] = x[s + 2]
    BY <1>9, <2>2 DEF ElementOf
  <2>4. t = x
    BY <1>1, <1>4, <2>3, SameElement
  <2> QED
    BY <1>4, <1>13, <2>1, <2>4
<1>21. y = Headed(x[1], w[1], v)
  <2>1. PICK t : t = Headed(y[1], y[2], v)
    OBVIOUS
  <2>2. ElementOf(t, y[1], y[2], v, Y(c), n)
    BY <1>1, <1>6, <1>11, <2>1, ElementIs
  <2>3. Within(t, Y(c)) /\ t[1] = y[1] /\ t[2] = y[2] /\ \A s \in 1..n : t[s + 2] = y[s + 2]
    BY <1>10, <2>2 DEF ElementOf
  <2>4. t = y
    BY <1>1, <1>4, <2>3, SameElement
  <2> QED
    BY <1>4, <2>1, <2>4
<1>22. <<x, w, y>> = ProductOf(c, x[1], p[1], p[2][1], p[2][2], p[2][3])
  BY <1>16, <1>18, <1>20, <1>21 DEF ProductOf, Headed, InGroup
<1>23. PICK m : m = x[1]
  OBVIOUS
<1>24. m \in 0..(X(c)[1] - 1)
  BY <1>5, <1>23
<1>25. <<x, w, y>> = ProductOf(c, m, p[1], p[2][1], p[2][2], p[2][3])
  BY <1>22, <1>23
<1> QED
  BY <1>19, <1>24, <1>25, ContractionByName

(***************************************************************************)
(* The iterations of a reduction.                                          *)
(***************************************************************************)
(* Extents h and the spatial ones of a tensor.                             *)
Reduces(e, h, dims, n) ==
  /\ e \in Seq(Int) /\ Len(e) = n + 1 /\ e[1] = h
  /\ \A s \in 1..n : e[s + 1] = dims[s + 2]

Visit(r, h, dims, n) ==
  /\ r \in Seq(Int) /\ Len(r) = n + 1 /\ r[1] \in 0..(h - 1)
  /\ \A s \in 1..n : r[s + 1] \in 0..(dims[s + 2] - 1)

LEMMA VisitIs ==
  ASSUME NEW n \in 1..3, NEW e, NEW h, NEW dims, Reduces(e, h, dims, n)
  PROVE  \A r : r \in Indices(e) <=> Visit(r, h, dims, n)
<1>1. /\ e \in Seq(Int) /\ Len(e) = n + 1 /\ e[1] = h
      /\ \A s \in 1..n : e[s + 1] = dims[s + 2]
  BY DEF Reduces
<1>2. ASSUME NEW r PROVE Within(r, e) <=> Visit(r, h, dims, n)
  <2>1. ASSUME Within(r, e) PROVE Visit(r, h, dims, n)
    <3>1. r \in Seq(Int) /\ Len(r) = n + 1 /\ \A a \in 1..(n + 1) : r[a] \in 0..(e[a] - 1)
      BY <1>1, <2>1 DEF Within
    <3>2. 1 \in 1..(n + 1) /\ \A s \in 1..n : s + 1 \in 1..(n + 1)
      OBVIOUS
    <3> QED
      BY <1>1, <3>1, <3>2 DEF Visit
  <2>2. ASSUME Visit(r, h, dims, n) PROVE Within(r, e)
    <3>1. /\ r \in Seq(Int) /\ Len(r) = n + 1 /\ r[1] \in 0..(h - 1)
          /\ \A s \in 1..n : r[s + 1] \in 0..(dims[s + 2] - 1)
      BY <2>2 DEF Visit
    <3>2. ASSUME NEW a \in 1..(n + 1) PROVE r[a] \in 0..(e[a] - 1)
      <4>1. CASE a = 1
        BY <1>1, <3>1, <4>1
      <4>2. CASE a \in 2..(n + 1)
        <5>1. PICK s : s = a - 1
          OBVIOUS
        <5>2. s \in 1..n /\ s + 1 = a
          BY <4>2, <5>1
        <5> QED
          BY <1>1, <3>1, <5>2
      <4> QED
        BY <4>1, <4>2
    <3> QED
      BY <1>1, <3>1, <3>2 DEF Within
  <2> QED
    BY <2>1, <2>2
<1>3. \A r : r \in Indices(e) <=> Within(r, e)
  BY <1>1, IndicesAre
<1> QED
  BY <1>2, <1>3

LEMMA SameVisit ==
  ASSUME NEW n \in 1..3, NEW h, NEW dims, NEW q, NEW r,
         Visit(q, h, dims, n), Visit(r, h, dims, n),
         q[1] = r[1], \A s \in 1..n : q[s + 1] = r[s + 1]
  PROVE  q = r
<1>1. q \in Seq(Int) /\ r \in Seq(Int) /\ Len(q) = n + 1 /\ Len(r) = n + 1
  BY DEF Visit
<1>2. ASSUME NEW a \in 1..(n + 1) PROVE q[a] = r[a]
  <2>1. CASE a = 1
    BY <2>1
  <2>2. CASE a \in 2..(n + 1)
    <3>1. PICK s : s = a - 1
      OBVIOUS
    <3>2. s \in 1..n /\ s + 1 = a
      BY <2>2, <3>1
    <3> QED
      BY <3>2
  <2> QED
    BY <2>1, <2>2
<1> QED
  BY <1>1, <1>2, SameLists

(* The reduction over the channels of the filter, or led by h.             *)
LEMMA RestReduces ==
  ASSUME NEW n \in 1..3, NEW dims \in Seq(Positive), Len(dims) = n + 2
  PROVE  Reduces(Rest(dims, 2), dims[2], dims, n)
<1>1. 2 \in 1..3 /\ 2 <= Len(dims) /\ Len(dims) - 2 + 1 = n + 1
  OBVIOUS
<1>2. PICK t : t = Rest(dims, 2)
  OBVIOUS
<1>3. t \in Seq(Positive) /\ Len(t) = n + 1 /\ \A s \in 1..(n + 1) : t[s] = dims[s + 2 - 1]
  <2>1. /\ t \in Seq(Positive) /\ Len(t) = Len(dims) - 2 + 1
        /\ \A s \in 1..(Len(dims) - 2 + 1) : t[s] = dims[s + 2 - 1]
    BY <1>1, <1>2, RestIs
  <2> QED
    BY <1>1, <2>1
<1>4. t \in Seq(Int)
  BY <1>3, SeqMonotonic DEF Positive
<1>5. t[1] = dims[2]
  <2>1. 1 \in 1..(n + 1) /\ 1 + 2 - 1 = 2
    OBVIOUS
  <2> QED
    BY <1>3, <2>1
<1>6. ASSUME NEW s \in 1..n PROVE t[s + 1] = dims[s + 2]
  <2>1. s + 1 \in 1..(n + 1) /\ (s + 1) + 2 - 1 = s + 2
    OBVIOUS
  <2> QED
    BY <1>3, <2>1
<1> QED
  BY <1>2, <1>3, <1>4, <1>5, <1>6 DEF Reduces

LEMMA LedReduces ==
  ASSUME NEW n \in 1..3, NEW dims \in Seq(Positive), Len(dims) = n + 2, NEW h \in Int
  PROVE  Reduces(Led(h, Rest(dims, 3)), h, dims, n)
<1>1. dims \in Seq(Int)
  BY SeqMonotonic DEF Positive
<1>2. PICK u : u = Rest(dims, 3)
  OBVIOUS
<1>3. u \in Seq(Int) /\ Len(u) = n /\ \A s \in 1..n : u[s] = dims[s + 2]
  BY <1>1, <1>2, RestIsSpatial
<1>4. PICK t : t = Led(h, u)
  OBVIOUS
<1>5. Leads(t, h, u)
  BY <1>3, <1>4, LedIs
<1>6. Reduces(t, h, dims, n)
  BY <1>3, <1>5 DEF Leads, Reduces
<1> QED
  BY <1>2, <1>4, <1>6

(* A list of n + 1 without its first entry, and with one.                  *)
Follows(u, r, n) == u \in Seq(Int) /\ Len(u) = n /\ \A s \in 1..n : u[s] = r[s + 1]

LEMMA RestFollows ==
  ASSUME NEW n \in 1..4, NEW r \in Seq(Int), Len(r) = n + 1
  PROVE  Follows(Rest(r, 2), r, n)
<1>1. 2 \in 1..3 /\ 2 <= Len(r) /\ Len(r) - 2 + 1 = n
  OBVIOUS
<1>2. PICK t : t = Rest(r, 2)
  OBVIOUS
<1>3. t \in Seq(Int) /\ Len(t) = n /\ \A s \in 1..n : t[s] = r[s + 2 - 1]
  BY <1>1, <1>2, RestIs
<1>4. \A s \in 1..n : s + 2 - 1 = s + 1
  OBVIOUS
<1> QED
  BY <1>2, <1>3, <1>4 DEF Follows

LEMMA LedVisits ==
  ASSUME NEW n \in 1..3, NEW dims, NEW h, NEW p \in 0..(h - 1), NEW u, Inside(u, dims, n)
  PROVE  Visit(Led(p, u), h, dims, n) /\ Leads(Led(p, u), p, u)
<1>1. u \in Seq(Int) /\ Len(u) = n /\ \A s \in 1..n : u[s] \in 0..(dims[s + 2] - 1)
  BY DEF Inside
<1>2. PICK t : t = Led(p, u)
  OBVIOUS
<1>3. Leads(t, p, u)
  <2>1. p \in Int
    OBVIOUS
  <2> QED
    BY <1>1, <1>2, <2>1, LedIs
<1>4. Visit(t, h, dims, n)
  BY <1>1, <1>3 DEF Leads, Visit
<1> QED
  BY <1>2, <1>3, <1>4

(***************************************************************************)
(* Where an output and a filter element meet.                              *)
(***************************************************************************)
LEMMA FilterCoordinateIsNumber ==
  ASSUME NEW c, Fits(c), NEW s \in 1..Rank(c), NEW w \in Int
  PROVE  FilterCoordinate(c, s, w) \in Int
<1>1. W(c)[s + 2] \in Int
  BY HeadExtents DEF Positive
<1> QED
  BY <1>1 DEF FilterCoordinate

LEMMA CoordinateReaches ==
  ASSUME NEW c, Fits(c), NEW s \in 1..Rank(c), NEW x \in Int, NEW y \in Int, NEW w \in Int
  PROVE  x = InputCoordinate(c, s, y, w) <=> Reaches(c, s, x, y, w)
<1>1. PICK f \in Int : f = FilterCoordinate(c, s, w)
  BY FilterCoordinateIsNumber
<1>2. PICK pre \in Int, stride \in Int, dilation \in Int :
        pre = c.pre[s] /\ stride = c.stride[s] /\ dilation = c.dilation[s]
  BY DEF Fits, AttributesFit, Positive
<1>3. PICK a \in Int, b \in Int : a = y * stride /\ b = f * dilation
  BY <1>1, <1>2
<1>4. InputCoordinate(c, s, y, w) = a + b - pre
  BY <1>1, <1>2, <1>3 DEF InputCoordinate
<1>5. Reaches(c, s, x, y, w) <=> x + pre = a + b
  BY <1>1, <1>2, <1>3 DEF Reaches
<1>6. x = a + b - pre <=> x + pre = a + b
  OBVIOUS
<1> QED
  BY <1>4, <1>5, <1>6, Zenon

LEMMA NumeratorReaches ==
  ASSUME NEW c, Fits(c), NEW s \in 1..Rank(c), NEW x \in Int, NEW w \in Int,
         NEW m, m = Numerator(c, s, x, w)
  PROVE  /\ Meets(c, s, m) => /\ m \div c.stride[s] \in 0..(Y(c)[s + 2] - 1)
                              /\ Reaches(c, s, x, m \div c.stride[s], w)
         /\ \A y \in 0..(Y(c)[s + 2] - 1) :
              Reaches(c, s, x, y, w) => Meets(c, s, m) /\ m \div c.stride[s] = y
<1>1. PICK f \in Int : f = FilterCoordinate(c, s, w)
  BY FilterCoordinateIsNumber
<1>2. PICK pre \in Int, stride \in Positive, dilation \in Int :
        pre = c.pre[s] /\ stride = c.stride[s] /\ dilation = c.dilation[s]
  BY DEF Fits, AttributesFit, Positive
<1>3. PICK b \in Int : b = f * dilation
  BY <1>1, <1>2
<1>4. m = x + pre - b
  BY <1>1, <1>2, <1>3 DEF Numerator
<1>5. ASSUME Meets(c, s, m)
      PROVE  /\ m \div c.stride[s] \in 0..(Y(c)[s + 2] - 1)
             /\ Reaches(c, s, x, m \div c.stride[s], w)
  <2>1. m \in Nat /\ m % stride = 0 /\ m \div stride < Y(c)[s + 2]
    BY <1>2, <1>4, <1>5 DEF Meets
  <2>2. PICK q \in Nat, r \in 0..(stride - 1) :
          q = m \div stride /\ r = m % stride /\ m = q * stride + r
    BY <1>2, <2>1, Divided
  <2>3. x + pre = q * stride + b
    <3>1. q * stride \in Int
      BY DEF Positive
    <3>2. PICK v \in Int : v = q * stride
      BY <3>1
    <3>3. r = 0 /\ m = v + r
      BY <2>1, <2>2, <3>2
    <3> QED
      BY <1>4, <3>2, <3>3
  <2>4. Y(c)[s + 2] \in Int
    BY HeadExtents DEF Positive
  <2> QED
    BY <1>1, <1>2, <1>3, <2>1, <2>2, <2>3, <2>4 DEF Reaches
<1>6. ASSUME NEW y \in 0..(Y(c)[s + 2] - 1), Reaches(c, s, x, y, w)
      PROVE  Meets(c, s, m) /\ m \div c.stride[s] = y
  <2>1. y \in Nat /\ y < Y(c)[s + 2]
    <3>1. Y(c)[s + 2] \in Int
      BY HeadExtents DEF Positive
    <3> QED
      BY <1>6, <3>1
  <2>2. PICK v \in Nat : v = y * stride
    BY <1>2, <2>1 DEF Positive
  <2>3. x + pre = v + b
    BY <1>1, <1>2, <1>3, <1>6, <2>2 DEF Reaches
  <2>4. m = v /\ v = y * stride + 0
    BY <1>4, <2>1, <2>2, <2>3 DEF Positive
  <2>5. 0 \in 0..(stride - 1)
    BY <1>2 DEF Positive
  <2>6. m \div stride = y /\ m % stride = 0
    BY <1>2, <2>1, <2>4, <2>5, Division
  <2> QED
    BY <1>2, <2>1, <2>2, <2>4, <2>6 DEF Meets
<1> QED
  BY <1>5, <1>6

(***************************************************************************)
(* What each kernel visits and stores.                                     *)
(***************************************************************************)
FpropVisits(c, at) == {<<r, Fprop(c, at, r)>> : r \in Indices(FpropExtents(c))}
DgradVisits(c, at) == {<<r, Dgrad(c, at, r)>> : r \in Indices(DgradExtents(c))}
WgradVisits(c, at) == {<<r, Wgrad(c, at, r)>> : r \in Indices(WgradExtents(c))}

Products(visits) == {v \in visits : v[2].valid}
Stored(visits) == {<<v[1], v[2].left, v[2].right>> : v \in Products(visits)}

InBounds(visits, dims1, dims2) ==
  \A v \in Products(visits) : v[2].left \in Indices(dims1) /\ v[2].right \in Indices(dims2)

OnceEach(stored, factors) ==
  /\ {<<t[2], t[3]>> : t \in stored} = factors
  /\ \A t, u \in stored : <<t[2], t[3]>> = <<u[2], u[3]>> => t = u

(* A load of a kernel for an element is a pair that meets it, and a pair   *)
(* that meets it is the load of one iteration.                             *)
Loads(visits, pairs) ==
  /\ \A v \in Products(visits) : <<v[2].left, v[2].right>> \in pairs
  /\ \A q \in pairs : \E v \in Products(visits) : q = <<v[2].left, v[2].right>>
  /\ \A v, u \in Products(visits) :
       v[2].left = u[2].left /\ v[2].right = u[2].right => v[1] = u[1]

LEMMA LoadsOnceEach ==
  ASSUME NEW visits, NEW pairs, Loads(visits, pairs)
  PROVE  OnceEach(Stored(visits), pairs)
<1>1. ASSUME NEW t \in Stored(visits)
      PROVE  \E v \in Products(visits) : t = <<v[1], v[2].left, v[2].right>>
  BY DEF Stored
<1>2. {<<t[2], t[3]>> : t \in Stored(visits)} = pairs
  <2>1. ASSUME NEW t \in Stored(visits) PROVE <<t[2], t[3]>> \in pairs
    <3>1. PICK v \in Products(visits) : t = <<v[1], v[2].left, v[2].right>>
      BY <1>1
    <3>2. <<v[2].left, v[2].right>> \in pairs
      BY DEF Loads
    <3> QED
      BY <3>1, <3>2
  <2>2. ASSUME NEW q \in pairs PROVE \E t \in Stored(visits) : q = <<t[2], t[3]>>
    <3>1. PICK v \in Products(visits) : q = <<v[2].left, v[2].right>>
      BY DEF Loads
    <3>2. PICK t : t = <<v[1], v[2].left, v[2].right>>
      OBVIOUS
    <3>3. t \in Stored(visits) /\ q = <<t[2], t[3]>>
      BY <3>1, <3>2 DEF Stored
    <3> QED
      BY <3>3
  <2> QED
    BY <2>1, <2>2
<1>3. ASSUME NEW t \in Stored(visits), NEW u \in Stored(visits), <<t[2], t[3]>> = <<u[2], u[3]>>
      PROVE  t = u
  <2>1. PICK v \in Products(visits) : t = <<v[1], v[2].left, v[2].right>>
    BY <1>1
  <2>2. PICK z \in Products(visits) : u = <<z[1], z[2].left, z[2].right>>
    BY <1>1
  <2>3. v[2].left = z[2].left /\ v[2].right = z[2].right
    BY <1>3, <2>1, <2>2
  <2>4. v[1] = z[1]
    BY <2>3 DEF Loads
  <2> QED
    BY <2>1, <2>2, <2>3, <2>4
<1> QED
  BY <1>2, <1>3 DEF OnceEach

(* The pairs that meet an element.                                         *)
FpropPairs(c, y) == {p \in Indices(X(c)) \X Indices(W(c)) : Meeting(c, p[1], p[2], y)}
DgradPairs(c, x) == {p \in Indices(Y(c)) \X Indices(W(c)) : Meeting(c, x, p[2], p[1])}
WgradPairs(c, w) == {p \in Indices(X(c)) \X Indices(Y(c)) : Meeting(c, p[1], w, p[2])}

LEMMA MeetingInside ==
  ASSUME NEW c, Fits(c), NEW x, NEW w, NEW y, Meeting(c, x, w, y)
  PROVE  x \in Indices(X(c)) /\ w \in Indices(W(c)) /\ y \in Indices(Y(c))
<1>1. X(c) \in Seq(Int) /\ W(c) \in Seq(Int) /\ Y(c) \in Seq(Int)
  BY SeqMonotonic DEF Fits, ShapesFit, Positive
<1> QED
  BY <1>1, IndicesAre DEF Meeting

(* The other two factors of the products an element takes part in.         *)
LEMMA FactorsAre ==
  ASSUME NEW c, Fits(c), NEW at
  PROVE  /\ c.tag = "CONV_FPROP" => Factors(c.tag, Contraction(c), at) = FpropPairs(c, at)
         /\ c.tag = "CONV_DGRAD" => Factors(c.tag, Contraction(c), at) = DgradPairs(c, at)
         /\ c.tag = "CONV_WGRAD" => Factors(c.tag, Contraction(c), at) = WgradPairs(c, at)
<1>1. \A t \in Contraction(c) : \E x, w, y : t = <<x, w, y>> /\ Meeting(c, x, w, y)
  BY ContractionMeets
<1>2. \A x, w, y : Meeting(c, x, w, y) => <<x, w, y>> \in Contraction(c)
  <2>1. ASSUME NEW x, NEW w, NEW y, Meeting(c, x, w, y) PROVE <<x, w, y>> \in Contraction(c)
    BY <2>1, MeetingContracts
  <2> QED
    BY <2>1
<1>3. \A x, w, y : Meeting(c, x, w, y) =>
        x \in Indices(X(c)) /\ w \in Indices(W(c)) /\ y \in Indices(Y(c))
  <2>1. ASSUME NEW x, NEW w, NEW y, Meeting(c, x, w, y)
        PROVE  x \in Indices(X(c)) /\ w \in Indices(W(c)) /\ y \in Indices(Y(c))
    BY <2>1, MeetingInside
  <2> QED
    BY <2>1
<1>4. ASSUME c.tag = "CONV_FPROP"
      PROVE  Factors(c.tag, Contraction(c), at) = FpropPairs(c, at)
  <2>1. ASSUME NEW q \in Factors(c.tag, Contraction(c), at) PROVE q \in FpropPairs(c, at)
    <3>1. PICK t \in Contraction(c) : q = <<t[1], t[2]>> /\ t[3] = at
      BY <1>4 DEF Factors
    <3>2. PICK x, w, y : t = <<x, w, y>> /\ Meeting(c, x, w, y)
      BY <1>1
    <3> QED
      BY <1>3, <3>1, <3>2 DEF FpropPairs
  <2>2. ASSUME NEW q \in FpropPairs(c, at) PROVE q \in Factors(c.tag, Contraction(c), at)
    <3>1. PICK x, w : q = <<x, w>> /\ Meeting(c, x, w, at)
      BY DEF FpropPairs
    <3>2. PICK t : t = <<x, w, at>>
      OBVIOUS
    <3>3. t \in Contraction(c)
      BY <1>2, <3>1, <3>2
    <3>4. q = <<t[1], t[2]>> /\ t[3] = at
      BY <3>1, <3>2
    <3> QED
      BY <1>4, <3>3, <3>4 DEF Factors
  <2> QED
    BY <2>1, <2>2
<1>5. ASSUME c.tag = "CONV_DGRAD"
      PROVE  Factors(c.tag, Contraction(c), at) = DgradPairs(c, at)
  <2>1. ASSUME NEW q \in Factors(c.tag, Contraction(c), at) PROVE q \in DgradPairs(c, at)
    <3>1. PICK t \in Contraction(c) : q = <<t[3], t[2]>> /\ t[1] = at
      BY <1>5 DEF Factors
    <3>2. PICK x, w, y : t = <<x, w, y>> /\ Meeting(c, x, w, y)
      BY <1>1
    <3> QED
      BY <1>3, <3>1, <3>2 DEF DgradPairs
  <2>2. ASSUME NEW q \in DgradPairs(c, at) PROVE q \in Factors(c.tag, Contraction(c), at)
    <3>1. PICK y, w : q = <<y, w>> /\ Meeting(c, at, w, y)
      BY DEF DgradPairs
    <3>2. PICK t : t = <<at, w, y>>
      OBVIOUS
    <3>3. t \in Contraction(c)
      BY <1>2, <3>1, <3>2
    <3>4. q = <<t[3], t[2]>> /\ t[1] = at
      BY <3>1, <3>2
    <3> QED
      BY <1>5, <3>3, <3>4 DEF Factors
  <2> QED
    BY <2>1, <2>2
<1>6. ASSUME c.tag = "CONV_WGRAD"
      PROVE  Factors(c.tag, Contraction(c), at) = WgradPairs(c, at)
  <2>1. ASSUME NEW q \in Factors(c.tag, Contraction(c), at) PROVE q \in WgradPairs(c, at)
    <3>1. PICK t \in Contraction(c) : q = <<t[1], t[3]>> /\ t[2] = at
      BY <1>6 DEF Factors
    <3>2. PICK x, w, y : t = <<x, w, y>> /\ Meeting(c, x, w, y)
      BY <1>1
    <3> QED
      BY <1>3, <3>1, <3>2 DEF WgradPairs
  <2>2. ASSUME NEW q \in WgradPairs(c, at) PROVE q \in Factors(c.tag, Contraction(c), at)
    <3>1. PICK x, y : q = <<x, y>> /\ Meeting(c, x, at, y)
      BY DEF WgradPairs
    <3>2. PICK t : t = <<x, at, y>>
      OBVIOUS
    <3>3. t \in Contraction(c)
      BY <1>2, <3>1, <3>2
    <3>4. q = <<t[1], t[3]>> /\ t[2] = at
      BY <3>1, <3>2
    <3> QED
      BY <1>6, <3>3, <3>4 DEF Factors
  <2> QED
    BY <2>1, <2>2
<1> QED
  BY <1>4, <1>5, <1>6

LEMMA WithinFrom ==
  ASSUME NEW n \in 1..3, NEW dims \in Seq(Positive), Len(dims) = n + 2,
         NEW i \in Seq(Int), Len(i) = n + 2,
         i[1] \in 0..(dims[1] - 1), i[2] \in 0..(dims[2] - 1),
         \A s \in 1..n : i[s + 2] \in 0..(dims[s + 2] - 1)
  PROVE  Within(i, dims)
<1>1. ASSUME NEW a \in 1..(n + 2) PROVE i[a] \in 0..(dims[a] - 1)
  <2>1. CASE a \in {1, 2}
    BY <2>1
  <2>2. CASE a \in 3..(n + 2)
    <3>1. PICK s : s = a - 2
      OBVIOUS
    <3>2. s \in 1..n /\ s + 2 = a
      BY <2>2, <3>1
    <3> QED
      BY <3>2
  <2> QED
    BY <2>1, <2>2
<1> QED
  BY <1>1 DEF Within

Function(f, n) == f = [s \in 1..n |-> f[s]]

LEMMA CoordinatesInside ==
  ASSUME NEW n \in 1..3, NEW dims, NEW f, Function(f, n),
         \A s \in 1..n : f[s] \in 0..(dims[s + 2] - 1)
  PROVE  Inside(f, dims, n)
<1>1. \A s \in 1..n : f[s] \in Int
  OBVIOUS
<1>2. f \in [1..n -> Int]
  BY <1>1 DEF Function
<1>3. f \in Seq(Int) /\ Len(f) = n
  BY <1>2
<1> QED
  BY <1>3 DEF Inside

FpropX(c, at, r) == [s \in SpatialAxes(c) |-> InputCoordinate(c, s, at[s + 2], r[s + 1])]

LEMMA FpropParts ==
  ASSUME NEW c, Fits(c), NEW at, NEW r
  PROVE  /\ Fprop(c, at, r).valid <=>
              \A s \in 1..Rank(c) : FpropX(c, at, r)[s] \in 0..(X(c)[s + 2] - 1)
         /\ Fprop(c, at, r).left =
              Headed(at[1], InGroup(at[2] \div OutputChannelsPerGroup(c), W(c)[2], r[1]),
                     FpropX(c, at, r))
         /\ Fprop(c, at, r).right = Led(at[2], r)
         /\ Function(FpropX(c, at, r), Rank(c))
         /\ \A s \in 1..Rank(c) :
              FpropX(c, at, r)[s] = InputCoordinate(c, s, at[s + 2], r[s + 1])
<1>1. SpatialAxes(c) = 1..Rank(c)
  BY HeadExtents
<1>2. Function(FpropX(c, at, r), Rank(c))
  BY <1>1 DEF FpropX, Function
<1>3. \A s \in 1..Rank(c) : FpropX(c, at, r)[s] = InputCoordinate(c, s, at[s + 2], r[s + 1])
  BY <1>1 DEF FpropX
<1>4. PICK x : x = FpropX(c, at, r)
  OBVIOUS
<1>5. Fprop(c, at, r) =
        [valid |-> \A s \in SpatialAxes(c) : x[s] \in 0..(X(c)[s + 2] - 1),
         left |-> Headed(at[1], InGroup(at[2] \div OutputChannelsPerGroup(c), W(c)[2], r[1]), x),
         right |-> Led(at[2], r)]
  BY <1>4 DEF Fprop, FpropX, Headed, InGroup, Led
<1> QED
  BY <1>1, <1>2, <1>3, <1>4, <1>5

LEMMA FpropReduces ==
  ASSUME NEW c, Fits(c)
  PROVE  \A r : r \in Indices(FpropExtents(c)) <=> Visit(r, W(c)[2], W(c), Rank(c))
<1>1. Rank(c) \in 1..3 /\ W(c) \in Seq(Positive) /\ Len(W(c)) = Rank(c) + 2
  BY DEF Fits, ShapesFit
<1>2. PICK e : e = FpropExtents(c)
  OBVIOUS
<1>3. Reduces(e, W(c)[2], W(c), Rank(c))
  BY <1>1, <1>2, RestReduces DEF FpropExtents, Rest
<1> QED
  BY <1>1, <1>2, <1>3, VisitIs

(* A load of the forward kernel meets the element it is for.               *)
LEMMA FpropMeets ==
  ASSUME NEW c, Fits(c), NEW at, Within(at, Y(c)), NEW r, Visit(r, W(c)[2], W(c), Rank(c)),
         Fprop(c, at, r).valid
  PROVE  Meeting(c, Fprop(c, at, r).left, Fprop(c, at, r).right, at)
<1> DEFINE n == Rank(c)
           K == OutputChannelsPerGroup(c)
           C == W(c)[2]
<1>1. /\ n \in 1..3 /\ X(c) \in Seq(Positive) /\ W(c) \in Seq(Positive) /\ Y(c) \in Seq(Positive)
      /\ Len(X(c)) = n + 2 /\ Len(W(c)) = n + 2 /\ Len(Y(c)) = n + 2
  BY DEF Fits, ShapesFit
<1>2. /\ Groups(c) \in Positive /\ K \in Positive /\ W(c)[1] = Y(c)[2]
      /\ X(c)[1] = Y(c)[1] /\ Y(c)[2] = Groups(c) * K /\ X(c)[2] = Groups(c) * C
  BY DEF Fits, ChannelsFit
<1>3. C \in Positive
  BY HeadExtents
<1>4. /\ at \in Seq(Int) /\ Len(at) = n + 2
      /\ at[1] \in 0..(Y(c)[1] - 1) /\ at[2] \in 0..(Y(c)[2] - 1)
      /\ \A s \in 1..n : at[s + 2] \in 0..(Y(c)[s + 2] - 1)
  BY <1>1, WithinParts
<1>5. /\ r \in Seq(Int) /\ Len(r) = n + 1 /\ r[1] \in 0..(C - 1)
      /\ \A s \in 1..n : r[s + 1] \in 0..(W(c)[s + 2] - 1)
  BY DEF Visit
<1>6. PICK xs, x, w, g, q :
        /\ xs = FpropX(c, at, r) /\ x = Fprop(c, at, r).left /\ w = Fprop(c, at, r).right
        /\ g = at[2] \div K /\ q = InGroup(g, C, r[1])
  OBVIOUS
<1>7. /\ x = Headed(at[1], q, xs) /\ w = Led(at[2], r) /\ Function(xs, n)
      /\ \A s \in 1..n : /\ xs[s] \in 0..(X(c)[s + 2] - 1)
                         /\ xs[s] = InputCoordinate(c, s, at[s + 2], r[s + 1])
  BY <1>6, FpropParts
<1>8. g \in 0..(Groups(c) - 1)
  <2>1. at[2] \in 0..(Groups(c) * K - 1)
    BY <1>2, <1>4
  <2> HIDE DEF K
  <2> QED
    BY <1>2, <1>6, <2>1, GroupFits
<1>9. q \in 0..(X(c)[2] - 1)
  BY <1>2, <1>3, <1>5, <1>6, <1>8, ChannelFits
<1>10. Inside(xs, X(c), n)
  BY <1>1, <1>7, CoordinatesInside
<1>11. /\ Within(x, X(c)) /\ x[1] = at[1] /\ x[2] = q /\ \A s \in 1..n : x[s + 2] = xs[s]
  <2>1. at[1] \in 0..(X(c)[1] - 1)
    BY <1>2, <1>4
  <2>2. ElementOf(x, at[1], q, xs, X(c), n)
    BY <1>1, <1>7, <1>9, <1>10, <2>1, ElementIs
  <2> QED
    BY <2>2 DEF ElementOf
<1>12. Leads(w, at[2], r)
  <2>1. at[2] \in Int
    BY <1>4
  <2> QED
    BY <1>5, <1>7, <2>1, LedIs
<1>13. /\ w \in Seq(Int) /\ Len(w) = n + 2 /\ w[1] = at[2] /\ w[2] = r[1]
       /\ \A s \in 1..n : w[s + 2] = r[s + 1]
  <2>1. /\ w \in Seq(Int) /\ Len(w) = (n + 1) + 1 /\ w[1] = at[2]
        /\ \A s \in 1..(n + 1) : w[s + 1] = r[s]
    <3>1. /\ w \in Seq(Int) /\ Len(w) = Len(r) + 1 /\ w[1] = at[2]
          /\ \A s \in 1..Len(r) : w[s + 1] = r[s]
      BY <1>12 DEF Leads
    <3>2. PICK m : m = n + 1
      OBVIOUS
    <3>3. Len(r) = m
      BY <1>5, <3>2
    <3> QED
      BY <3>1, <3>2, <3>3
  <2>2. w[1 + 1] = r[1]
    BY <1>1, <2>1
  <2>3. ASSUME NEW s \in 1..n PROVE w[s + 2] = r[s + 1]
    <3>1. s + 1 \in 1..(n + 1) /\ (s + 1) + 1 = s + 2
      BY <1>1
    <3> QED
      BY <2>1, <3>1
  <2> QED
    BY <1>1, <2>1, <2>2, <2>3
<1>14. Within(w, W(c))
  BY <1>1, <1>2, <1>4, <1>5, <1>13, WithinFrom
<1>15. ASSUME NEW s \in 1..n PROVE Reaches(c, s, x[s + 2], at[s + 2], w[s + 2])
  <2>1. xs[s] \in Int /\ at[s + 2] \in Int /\ w[s + 2] \in Int
    <3>1. xs[s] \in 0..(X(c)[s + 2] - 1) /\ at[s + 2] \in 0..(Y(c)[s + 2] - 1)
          /\ w[s + 2] \in 0..(W(c)[s + 2] - 1)
      BY <1>4, <1>5, <1>7, <1>13
    <3> QED
      BY <3>1
  <2>2. xs[s] = InputCoordinate(c, s, at[s + 2], w[s + 2])
    BY <1>7, <1>13
  <2>3. Reaches(c, s, xs[s], at[s + 2], w[s + 2])
    BY <2>1, <2>2, CoordinateReaches
  <2> QED
    BY <1>11, <2>3
<1>16. Meeting(c, x, w, at)
  BY <1>6, <1>11, <1>13, <1>14, <1>15 DEF Meeting
<1> QED
  BY <1>6, <1>16

(* What meets an element is loaded for it.                                 *)
LEMMA FpropReaches ==
  ASSUME NEW c, Fits(c), NEW at, NEW x, NEW w, Meeting(c, x, w, at)
  PROVE  \E r : /\ Visit(r, W(c)[2], W(c), Rank(c)) /\ Fprop(c, at, r).valid
                /\ x = Fprop(c, at, r).left /\ w = Fprop(c, at, r).right
<1> DEFINE n == Rank(c)
           K == OutputChannelsPerGroup(c)
           C == W(c)[2]
<1>1. /\ n \in 1..3 /\ X(c) \in Seq(Positive) /\ W(c) \in Seq(Positive) /\ Y(c) \in Seq(Positive)
      /\ Len(X(c)) = n + 2 /\ Len(W(c)) = n + 2 /\ Len(Y(c)) = n + 2
  BY DEF Fits, ShapesFit
<1>2. /\ Within(x, X(c)) /\ Within(w, W(c)) /\ Within(at, Y(c))
      /\ x[1] = at[1] /\ w[1] = at[2] /\ x[2] = InGroup(w[1] \div K, C, w[2])
      /\ \A s \in 1..n : Reaches(c, s, x[s + 2], at[s + 2], w[s + 2])
  BY DEF Meeting
<1>3. /\ x \in Seq(Int) /\ Len(x) = n + 2 /\ x[1] \in 0..(X(c)[1] - 1) /\ x[2] \in 0..(X(c)[2] - 1)
      /\ \A s \in 1..n : x[s + 2] \in 0..(X(c)[s + 2] - 1)
  BY <1>1, <1>2, WithinParts
<1>4. \A s \in 1..n : at[s + 2] \in 0..(Y(c)[s + 2] - 1)
  BY <1>1, <1>2, WithinParts
<1>5. /\ w \in Seq(Int) /\ Len(w) = n + 2 /\ w[1] \in 0..(W(c)[1] - 1) /\ w[2] \in 0..(C - 1)
      /\ \A s \in 1..n : w[s + 2] \in 0..(W(c)[s + 2] - 1)
  BY <1>1, <1>2, WithinParts
<1>6. PICK r : r = Rest(w, 2)
  OBVIOUS
<1>7. r \in Seq(Int) /\ Len(r) = n + 1 /\ \A a \in 1..(n + 1) : r[a] = w[a + 1]
  <2>1. PICK m : m = n + 1
    OBVIOUS
  <2>2. m \in 1..4 /\ Len(w) = m + 1
    BY <1>1, <1>5, <2>1
  <2>3. Follows(r, w, m)
    BY <1>5, <1>6, <2>2, RestFollows
  <2> QED
    BY <2>1, <2>3 DEF Follows
<1>8. r[1] = w[2] /\ \A s \in 1..n : r[s + 1] = w[s + 2]
  <2>1. 1 \in 1..(n + 1) /\ 1 + 1 = 2
    BY <1>1
  <2>2. \A s \in 1..n : s + 1 \in 1..(n + 1) /\ (s + 1) + 1 = s + 2
    BY <1>1
  <2> QED
    BY <1>7, <2>1, <2>2
<1>9. Visit(r, C, W(c), n)
  BY <1>5, <1>7, <1>8 DEF Visit
<1>10. PICK xs, q : xs = FpropX(c, at, r) /\ q = InGroup(at[2] \div K, C, r[1])
  OBVIOUS
<1>11. /\ Function(xs, n)
       /\ \A s \in 1..n : xs[s] = InputCoordinate(c, s, at[s + 2], r[s + 1])
       /\ Fprop(c, at, r).left = Headed(at[1], q, xs) /\ Fprop(c, at, r).right = Led(at[2], r)
       /\ Fprop(c, at, r).valid <=> \A s \in 1..n : xs[s] \in 0..(X(c)[s + 2] - 1)
  BY <1>10, FpropParts
<1>12. ASSUME NEW s \in 1..n PROVE xs[s] = x[s + 2]
  <2>1. x[s + 2] \in Int /\ at[s + 2] \in Int /\ w[s + 2] \in Int
    BY <1>3, <1>4, <1>5
  <2>2. x[s + 2] = InputCoordinate(c, s, at[s + 2], w[s + 2])
    BY <1>2, <2>1, CoordinateReaches
  <2> QED
    BY <1>8, <1>11, <2>2
<1>13. \A s \in 1..n : xs[s] \in 0..(X(c)[s + 2] - 1)
  BY <1>3, <1>12
<1>14. Fprop(c, at, r).valid
  BY <1>11, <1>13
<1>15. x = Fprop(c, at, r).left
  <2>1. q = x[2]
    BY <1>2, <1>8, <1>10
  <2>2. Inside(xs, X(c), n)
    BY <1>1, <1>11, <1>13, CoordinatesInside
  <2>3. PICK t : t = Headed(x[1], x[2], xs)
    OBVIOUS
  <2>4. ElementOf(t, x[1], x[2], xs, X(c), n)
    BY <1>1, <1>3, <2>2, <2>3, ElementIs
  <2>5. Within(t, X(c)) /\ t[1] = x[1] /\ t[2] = x[2] /\ \A s \in 1..n : t[s + 2] = x[s + 2]
    BY <1>12, <2>4 DEF ElementOf
  <2>6. t = x
    BY <1>1, <1>2, <2>5, SameElement
  <2> QED
    BY <1>2, <1>11, <2>1, <2>3, <2>6
<1>16. w = Fprop(c, at, r).right
  <2>1. PICK t : t = Led(at[2], r)
    OBVIOUS
  <2>2. at[2] \in Int
    BY <1>2, <1>5
  <2>3. Leads(t, at[2], r)
    BY <1>7, <2>1, <2>2, LedIs
  <2>4. /\ t \in Seq(Int) /\ Len(t) = (n + 1) + 1 /\ t[1] = at[2]
        /\ \A a \in 1..(n + 1) : t[a + 1] = r[a]
    <3>1. /\ t \in Seq(Int) /\ Len(t) = Len(r) + 1 /\ t[1] = at[2]
          /\ \A a \in 1..Len(r) : t[a + 1] = r[a]
      BY <2>3 DEF Leads
    <3>2. PICK m : m = n + 1
      OBVIOUS
    <3>3. Len(r) = m
      BY <1>7, <3>2
    <3> QED
      BY <3>1, <3>2, <3>3
  <2>5. ASSUME NEW a \in 1..Len(w) PROVE t[a] = w[a]
    <3>1. CASE a = 1
      BY <1>2, <2>4, <3>1
    <3>2. CASE a # 1
      <4>1. PICK b : b = a - 1
        OBVIOUS
      <4>2. b \in 1..(n + 1) /\ b + 1 = a
        BY <1>1, <1>5, <3>2, <4>1
      <4> QED
        BY <1>7, <2>4, <4>2
    <3> QED
      BY <3>1, <3>2
  <2>6. Len(t) = Len(w)
    BY <1>1, <1>5, <2>4
  <2>7. t = w
    BY <1>5, <2>4, <2>5, <2>6, SameLists
  <2> QED
    BY <1>11, <2>1, <2>7
<1> QED
  BY <1>9, <1>14, <1>15, <1>16

LEMMA FpropLoads ==
  ASSUME NEW c, Fits(c), NEW at, Within(at, Y(c))
  PROVE  Loads(FpropVisits(c, at), FpropPairs(c, at))
<1>1. \A v \in Products(FpropVisits(c, at)) :
        /\ Visit(v[1], W(c)[2], W(c), Rank(c)) /\ v[2] = Fprop(c, at, v[1])
        /\ Fprop(c, at, v[1]).valid
  BY FpropReduces DEF FpropVisits, Products
<1>2. ASSUME NEW v \in Products(FpropVisits(c, at))
      PROVE  <<v[2].left, v[2].right>> \in FpropPairs(c, at)
  <2>1. PICK x, w : x = v[2].left /\ w = v[2].right
    OBVIOUS
  <2>2. Meeting(c, x, w, at)
    BY <1>1, <2>1, FpropMeets
  <2> QED
    BY <2>1, <2>2, MeetingInside DEF FpropPairs
<1>3. ASSUME NEW q \in FpropPairs(c, at)
      PROVE  \E v \in Products(FpropVisits(c, at)) : q = <<v[2].left, v[2].right>>
  <2>1. PICK x, w : q = <<x, w>> /\ Meeting(c, x, w, at)
    BY DEF FpropPairs
  <2>2. PICK r : /\ Visit(r, W(c)[2], W(c), Rank(c)) /\ Fprop(c, at, r).valid
                 /\ x = Fprop(c, at, r).left /\ w = Fprop(c, at, r).right
    BY <2>1, FpropReaches
  <2>3. <<r, Fprop(c, at, r)>> \in Products(FpropVisits(c, at))
    BY <2>2, FpropReduces DEF FpropVisits, Products
  <2> QED
    BY <2>1, <2>2, <2>3
<1>4. ASSUME NEW v \in Products(FpropVisits(c, at)), NEW u \in Products(FpropVisits(c, at)),
             v[2].left = u[2].left, v[2].right = u[2].right
      PROVE  v[1] = u[1]
  <2>1. PICK r, q : r = v[1] /\ q = u[1]
    OBVIOUS
  <2>2. Visit(r, W(c)[2], W(c), Rank(c)) /\ Visit(q, W(c)[2], W(c), Rank(c))
    BY <1>1, <2>1
  <2>3. r \in Seq(Int) /\ q \in Seq(Int) /\ Len(r) = Rank(c) + 1 /\ Len(q) = Rank(c) + 1
    BY <2>2 DEF Visit
  <2>4. Led(at[2], r) = Led(at[2], q)
    <3>1. v[2] = Fprop(c, at, r) /\ u[2] = Fprop(c, at, q)
      BY <1>1, <2>1
    <3>2. v[2].right = Led(at[2], r) /\ u[2].right = Led(at[2], q)
      BY <3>1, FpropParts
    <3> QED
      BY <1>4, <3>2
  <2>5. PICK t : t = Led(at[2], r)
    OBVIOUS
  <2>6. at[2] \in Int
    <3>1. Rank(c) \in 1..3 /\ Len(Y(c)) = Rank(c) + 2
      BY DEF Fits, ShapesFit
    <3>2. 2 \in 1..Len(Y(c))
      BY <3>1
    <3> QED
      BY <3>2 DEF Within
  <2>7. Leads(t, at[2], r) /\ Leads(t, at[2], q)
    BY <2>3, <2>4, <2>5, <2>6, LedIs
  <2>8. \A a \in 1..Len(r) : r[a] = q[a]
    BY <2>3, <2>7 DEF Leads
  <2>9. r = q
    BY <2>3, <2>8, SameLists
  <2> QED
    BY <2>1, <2>9
<1> QED
  BY <1>2, <1>3, <1>4 DEF Loads

DgradM(c, at, r) == [s \in SpatialAxes(c) |-> Numerator(c, s, at[s + 2], r[s + 1])]
DgradY(c, m) == [s \in SpatialAxes(c) |-> m[s] \div c.stride[s]]
DgradChannel(c, at, r) == InGroup(at[2] \div W(c)[2], OutputChannelsPerGroup(c), r[1])

LEMMA DgradParts ==
  ASSUME NEW c, Fits(c), NEW at, NEW r
  PROVE  /\ Dgrad(c, at, r).valid <=>
              \A s \in 1..Rank(c) : Meets(c, s, DgradM(c, at, r)[s])
         /\ Dgrad(c, at, r).left =
              Headed(at[1], DgradChannel(c, at, r), DgradY(c, DgradM(c, at, r)))
         /\ Dgrad(c, at, r).right = Headed(DgradChannel(c, at, r), at[2] % W(c)[2], Rest(r, 2))
         /\ Function(DgradY(c, DgradM(c, at, r)), Rank(c))
         /\ \A s \in 1..Rank(c) :
              /\ DgradM(c, at, r)[s] = Numerator(c, s, at[s + 2], r[s + 1])
              /\ DgradY(c, DgradM(c, at, r))[s] = DgradM(c, at, r)[s] \div c.stride[s]
<1>1. SpatialAxes(c) = 1..Rank(c)
  BY HeadExtents
<1>2. PICK m : m = DgradM(c, at, r)
  OBVIOUS
<1>3. Function(DgradY(c, m), Rank(c))
  BY <1>1 DEF DgradY, Function
<1>4. \A s \in 1..Rank(c) : m[s] = Numerator(c, s, at[s + 2], r[s + 1])
  BY <1>1, <1>2 DEF DgradM
<1>5. \A s \in 1..Rank(c) : DgradY(c, m)[s] = m[s] \div c.stride[s]
  BY <1>1 DEF DgradY
<1>6. Dgrad(c, at, r) =
        [valid |-> \A s \in SpatialAxes(c) : Meets(c, s, m[s]),
         left |-> Headed(at[1], DgradChannel(c, at, r), DgradY(c, m)),
         right |-> Headed(DgradChannel(c, at, r), at[2] % W(c)[2], Rest(r, 2))]
  BY <1>2 DEF Dgrad, DgradM, DgradY, DgradChannel, Headed, InGroup, Rest
<1> QED
  BY <1>1, <1>2, <1>3, <1>4, <1>5, <1>6

LEMMA DgradReduces ==
  ASSUME NEW c, Fits(c)
  PROVE  \A r : r \in Indices(DgradExtents(c)) <=>
                  Visit(r, OutputChannelsPerGroup(c), W(c), Rank(c))
<1>1. Rank(c) \in 1..3 /\ W(c) \in Seq(Positive) /\ Len(W(c)) = Rank(c) + 2
  BY DEF Fits, ShapesFit
<1>2. PICK e, h : e = DgradExtents(c) /\ h = OutputChannelsPerGroup(c)
  OBVIOUS
<1>3. h \in Int
  BY <1>2 DEF Fits, ChannelsFit, Positive
<1>4. Reduces(e, h, W(c), Rank(c))
  <2>1. e = Led(h, Rest(W(c), 3))
    BY <1>2 DEF DgradExtents, Led, Rest
  <2> QED
    BY <1>1, <1>3, <2>1, LedReduces
<1> QED
  BY <1>1, <1>2, <1>4, VisitIs

(* A load of the kernel of the data gradient meets the element it is for.  *)
LEMMA DgradMeets ==
  ASSUME NEW c, Fits(c), NEW at, Within(at, X(c)),
         NEW r, Visit(r, OutputChannelsPerGroup(c), W(c), Rank(c)), Dgrad(c, at, r).valid
  PROVE  Meeting(c, at, Dgrad(c, at, r).right, Dgrad(c, at, r).left)
<1> DEFINE n == Rank(c)
           K == OutputChannelsPerGroup(c)
           C == W(c)[2]
<1>1. /\ n \in 1..3 /\ X(c) \in Seq(Positive) /\ W(c) \in Seq(Positive) /\ Y(c) \in Seq(Positive)
      /\ Len(X(c)) = n + 2 /\ Len(W(c)) = n + 2 /\ Len(Y(c)) = n + 2
  BY DEF Fits, ShapesFit
<1>2. /\ Groups(c) \in Positive /\ K \in Positive /\ W(c)[1] = Y(c)[2]
      /\ X(c)[1] = Y(c)[1] /\ Y(c)[2] = Groups(c) * K /\ X(c)[2] = Groups(c) * C
  BY DEF Fits, ChannelsFit
<1>3. C \in Positive
  BY HeadExtents
<1>4. /\ at \in Seq(Int) /\ Len(at) = n + 2
      /\ at[1] \in 0..(X(c)[1] - 1) /\ at[2] \in 0..(X(c)[2] - 1)
      /\ \A s \in 1..n : at[s + 2] \in 0..(X(c)[s + 2] - 1)
  BY <1>1, WithinParts
<1>5. /\ r \in Seq(Int) /\ Len(r) = n + 1 /\ r[1] \in 0..(K - 1)
      /\ \A s \in 1..n : r[s + 1] \in 0..(W(c)[s + 2] - 1)
  BY DEF Visit
<1>6. PICK m, ys, ws, y, w, g, q, b :
        /\ m = DgradM(c, at, r) /\ ys = DgradY(c, m) /\ ws = Rest(r, 2)
        /\ y = Dgrad(c, at, r).left /\ w = Dgrad(c, at, r).right
        /\ g = at[2] \div C /\ q = InGroup(g, K, r[1]) /\ b = at[2] % C
  OBVIOUS
<1>7. /\ y = Headed(at[1], q, ys) /\ w = Headed(q, b, ws) /\ Function(ys, n)
      /\ \A s \in 1..n : /\ Meets(c, s, m[s]) /\ m[s] = Numerator(c, s, at[s + 2], r[s + 1])
                         /\ ys[s] = m[s] \div c.stride[s]
  BY <1>6, DgradParts DEF DgradChannel
<1>8. /\ g \in 0..(Groups(c) - 1) /\ b \in 0..(C - 1) /\ InGroup(g, C, b) = at[2]
  <2>1. at[2] \in 0..(Groups(c) * C - 1)
    BY <1>2, <1>4
  <2> HIDE DEF C
  <2> QED
    BY <1>2, <1>3, <1>6, <2>1, GroupFits
<1>9. q \in 0..(Y(c)[2] - 1)
  BY <1>2, <1>5, <1>6, <1>8, ChannelFits
<1>10. q \div K = g
  <2>1. g \in Nat
    BY <1>8
  <2> HIDE DEF K
  <2> QED
    BY <1>2, <1>5, <1>6, <2>1, GroupOf
<1>11. ASSUME NEW s \in 1..n
       PROVE  ys[s] \in 0..(Y(c)[s + 2] - 1) /\ Reaches(c, s, at[s + 2], ys[s], r[s + 1])
  <2>1. at[s + 2] \in Int /\ r[s + 1] \in Int
    BY <1>4, <1>5
  <2>2. Meets(c, s, m[s]) /\ m[s] = Numerator(c, s, at[s + 2], r[s + 1])
    BY <1>7
  <2>3. /\ m[s] \div c.stride[s] \in 0..(Y(c)[s + 2] - 1)
        /\ Reaches(c, s, at[s + 2], m[s] \div c.stride[s], r[s + 1])
    BY <2>1, <2>2, NumeratorReaches
  <2> QED
    BY <1>7, <2>3
<1>12. Inside(ys, Y(c), n)
  BY <1>1, <1>7, <1>11, CoordinatesInside
<1>13. /\ Within(y, Y(c)) /\ y[1] = at[1] /\ y[2] = q /\ \A s \in 1..n : y[s + 2] = ys[s]
  <2>1. at[1] \in 0..(Y(c)[1] - 1)
    BY <1>2, <1>4
  <2>2. ElementOf(y, at[1], q, ys, Y(c), n)
    BY <1>1, <1>7, <1>9, <1>12, <2>1, ElementIs
  <2> QED
    BY <2>2 DEF ElementOf
<1>14. Follows(ws, r, n)
  <2>1. n \in 1..4
    BY <1>1
  <2> QED
    BY <1>5, <1>6, <2>1, RestFollows
<1>15. Inside(ws, W(c), n)
  BY <1>5, <1>14 DEF Inside, Follows
<1>16. /\ Within(w, W(c)) /\ w[1] = q /\ w[2] = b /\ \A s \in 1..n : w[s + 2] = r[s + 1]
  <2>1. q \in 0..(W(c)[1] - 1) /\ b \in 0..(W(c)[2] - 1)
    BY <1>2, <1>8, <1>9
  <2>2. ElementOf(w, q, b, ws, W(c), n)
    BY <1>1, <1>7, <1>15, <2>1, ElementIs
  <2> QED
    BY <1>14, <2>2 DEF ElementOf, Follows
<1>17. ASSUME NEW s \in 1..n PROVE Reaches(c, s, at[s + 2], y[s + 2], w[s + 2])
  BY <1>11, <1>13, <1>16
<1>18. at[2] = InGroup(w[1] \div K, C, w[2])
  BY <1>8, <1>10, <1>16
<1>19. Meeting(c, at, w, y)
  BY <1>13, <1>16, <1>17, <1>18 DEF Meeting
<1> QED
  BY <1>6, <1>19

(* What meets an element of the data gradient is loaded for it.            *)
LEMMA DgradReaches ==
  ASSUME NEW c, Fits(c), NEW at, NEW y, NEW w, Meeting(c, at, w, y)
  PROVE  \E r : /\ Visit(r, OutputChannelsPerGroup(c), W(c), Rank(c)) /\ Dgrad(c, at, r).valid
                /\ y = Dgrad(c, at, r).left /\ w = Dgrad(c, at, r).right
<1> DEFINE n == Rank(c)
           K == OutputChannelsPerGroup(c)
           C == W(c)[2]
<1>1. /\ n \in 1..3 /\ X(c) \in Seq(Positive) /\ W(c) \in Seq(Positive) /\ Y(c) \in Seq(Positive)
      /\ Len(X(c)) = n + 2 /\ Len(W(c)) = n + 2 /\ Len(Y(c)) = n + 2
  BY DEF Fits, ShapesFit
<1>2. /\ Groups(c) \in Positive /\ K \in Positive /\ W(c)[1] = Y(c)[2] /\ Y(c)[2] = Groups(c) * K
  BY DEF Fits, ChannelsFit
<1>3. C \in Positive
  BY HeadExtents
<1>4. /\ Within(at, X(c)) /\ Within(w, W(c)) /\ Within(y, Y(c))
      /\ at[1] = y[1] /\ w[1] = y[2] /\ at[2] = InGroup(w[1] \div K, C, w[2])
      /\ \A s \in 1..n : Reaches(c, s, at[s + 2], y[s + 2], w[s + 2])
  BY DEF Meeting
<1>5. \A s \in 1..n : at[s + 2] \in 0..(X(c)[s + 2] - 1)
  BY <1>1, <1>4, WithinParts
<1>6. /\ y \in Seq(Int) /\ Len(y) = n + 2 /\ y[1] \in 0..(Y(c)[1] - 1) /\ y[2] \in 0..(Y(c)[2] - 1)
      /\ \A s \in 1..n : y[s + 2] \in 0..(Y(c)[s + 2] - 1)
  BY <1>1, <1>4, WithinParts
<1>7. /\ w \in Seq(Int) /\ Len(w) = n + 2 /\ w[1] \in 0..(W(c)[1] - 1) /\ w[2] \in 0..(C - 1)
      /\ \A s \in 1..n : w[s + 2] \in 0..(W(c)[s + 2] - 1)
  BY <1>1, <1>4, WithinParts
<1>8. PICK g, d, u : g = w[1] \div K /\ d = w[1] % K /\ u = Rest(w, 3)
  OBVIOUS
<1>9. g \in Nat /\ d \in 0..(K - 1) /\ InGroup(g, K, d) = w[1]
  <2>1. w[1] \in 0..(Groups(c) * K - 1)
    BY <1>2, <1>7
  <2> HIDE DEF K
  <2>2. g \in 0..(Groups(c) - 1) /\ d \in 0..(K - 1) /\ InGroup(g, K, d) = w[1]
    BY <1>2, <1>8, <2>1, GroupFits
  <2> QED
    BY <2>2
<1>10. at[2] \div C = g /\ at[2] % C = w[2]
  <2> HIDE DEF C
  <2> QED
    BY <1>3, <1>4, <1>7, <1>8, <1>9, GroupOf
<1>11. u \in Seq(Int) /\ Len(u) = n /\ \A s \in 1..n : u[s] = w[s + 2]
  BY <1>1, <1>7, <1>8, RestIsSpatial
<1>12. Inside(u, W(c), n)
  BY <1>7, <1>11 DEF Inside
<1>13. PICK r : r = Led(d, u)
  OBVIOUS
<1>14. Visit(r, K, W(c), n) /\ Leads(r, d, u)
  <2> HIDE DEF K
  <2> QED
    BY <1>1, <1>9, <1>12, <1>13, LedVisits
<1>15. /\ r \in Seq(Int) /\ Len(r) = n + 1 /\ r[1] = d /\ \A s \in 1..n : r[s + 1] = w[s + 2]
  BY <1>11, <1>14 DEF Leads
<1>16. PICK m, ys, ws :
         m = DgradM(c, at, r) /\ ys = DgradY(c, m) /\ ws = Rest(r, 2)
  OBVIOUS
<1>17. DgradChannel(c, at, r) = w[1]
  BY <1>9, <1>10, <1>15 DEF DgradChannel
<1>18. /\ Function(ys, n)
       /\ \A s \in 1..n : /\ m[s] = Numerator(c, s, at[s + 2], r[s + 1])
                          /\ ys[s] = m[s] \div c.stride[s]
       /\ Dgrad(c, at, r).left = Headed(at[1], w[1], ys)
       /\ Dgrad(c, at, r).right = Headed(w[1], w[2], ws)
       /\ Dgrad(c, at, r).valid <=> \A s \in 1..n : Meets(c, s, m[s])
  BY <1>10, <1>16, <1>17, DgradParts
<1>19. ASSUME NEW s \in 1..n PROVE Meets(c, s, m[s]) /\ ys[s] = y[s + 2]
  <2>1. at[s + 2] \in Int /\ w[s + 2] \in Int /\ y[s + 2] \in 0..(Y(c)[s + 2] - 1)
    BY <1>5, <1>6, <1>7
  <2>2. m[s] = Numerator(c, s, at[s + 2], w[s + 2])
    BY <1>15, <1>18
  <2>3. Reaches(c, s, at[s + 2], y[s + 2], w[s + 2])
    BY <1>4
  <2>4. Meets(c, s, m[s]) /\ m[s] \div c.stride[s] = y[s + 2]
    BY <2>1, <2>2, <2>3, NumeratorReaches
  <2> QED
    BY <1>18, <2>4
<1>20. Dgrad(c, at, r).valid
  BY <1>18, <1>19
<1>21. y = Dgrad(c, at, r).left
  <2>1. Inside(ys, Y(c), n)
    <3>1. \A s \in 1..n : ys[s] \in 0..(Y(c)[s + 2] - 1)
      BY <1>6, <1>19
    <3> QED
      BY <1>1, <1>18, <3>1, CoordinatesInside
  <2>2. PICK t : t = Headed(y[1], y[2], ys)
    OBVIOUS
  <2>3. ElementOf(t, y[1], y[2], ys, Y(c), n)
    BY <1>1, <1>6, <2>1, <2>2, ElementIs
  <2>4. Within(t, Y(c)) /\ t[1] = y[1] /\ t[2] = y[2] /\ \A s \in 1..n : t[s + 2] = y[s + 2]
    BY <1>19, <2>3 DEF ElementOf
  <2>5. t = y
    BY <1>1, <1>4, <2>4, SameElement
  <2> QED
    BY <1>4, <1>18, <2>2, <2>5
<1>22. w = Dgrad(c, at, r).right
  <2>1. Follows(ws, r, n)
    <3>1. n \in 1..4
      BY <1>1
    <3> QED
      BY <1>15, <1>16, <3>1, RestFollows
  <2>2. Inside(ws, W(c), n) /\ \A s \in 1..n : ws[s] = w[s + 2]
    BY <1>7, <1>15, <2>1 DEF Inside, Follows
  <2>3. PICK t : t = Headed(w[1], w[2], ws)
    OBVIOUS
  <2>4. ElementOf(t, w[1], w[2], ws, W(c), n)
    BY <1>1, <1>7, <2>2, <2>3, ElementIs
  <2>5. Within(t, W(c)) /\ t[1] = w[1] /\ t[2] = w[2] /\ \A s \in 1..n : t[s + 2] = w[s + 2]
    BY <2>2, <2>4 DEF ElementOf
  <2>6. t = w
    BY <1>1, <1>4, <2>5, SameElement
  <2> QED
    BY <1>18, <2>3, <2>6
<1> QED
  BY <1>14, <1>20, <1>21, <1>22

(* The iteration is told by its first entry and the spatial ones of y.     *)
Tells(r, first, y, n) == r[1] = first /\ \A s \in 1..n : r[s + 1] = y[s + 2]

LEMMA DgradLoads ==
  ASSUME NEW c, Fits(c), NEW at, Within(at, X(c))
  PROVE  Loads(DgradVisits(c, at), DgradPairs(c, at))
<1> DEFINE n == Rank(c)
           K == OutputChannelsPerGroup(c)
           C == W(c)[2]
<1>1. \A v \in Products(DgradVisits(c, at)) :
        /\ Visit(v[1], K, W(c), n) /\ v[2] = Dgrad(c, at, v[1])
        /\ Dgrad(c, at, v[1]).valid
  BY DgradReduces DEF DgradVisits, Products
<1>2. ASSUME NEW v \in Products(DgradVisits(c, at))
      PROVE  <<v[2].left, v[2].right>> \in DgradPairs(c, at)
  <2>1. PICK y, w : y = v[2].left /\ w = v[2].right
    OBVIOUS
  <2>2. Meeting(c, at, w, y)
    BY <1>1, <2>1, DgradMeets
  <2> QED
    BY <2>1, <2>2, MeetingInside DEF DgradPairs
<1>3. ASSUME NEW q \in DgradPairs(c, at)
      PROVE  \E v \in Products(DgradVisits(c, at)) : q = <<v[2].left, v[2].right>>
  <2>1. PICK y, w : q = <<y, w>> /\ Meeting(c, at, w, y)
    BY DEF DgradPairs
  <2>2. PICK r : /\ Visit(r, K, W(c), n) /\ Dgrad(c, at, r).valid
                 /\ y = Dgrad(c, at, r).left /\ w = Dgrad(c, at, r).right
    BY <2>1, DgradReaches
  <2>3. <<r, Dgrad(c, at, r)>> \in Products(DgradVisits(c, at))
    BY <2>2, DgradReduces DEF DgradVisits, Products
  <2> QED
    BY <2>1, <2>2, <2>3
<1>4. /\ n \in 1..3 /\ K \in Positive /\ at[2] \div C \in Nat /\ at[2] % C \in Int
  <2>1. /\ n \in 1..3 /\ X(c) \in Seq(Positive) /\ Len(X(c)) = n + 2
    BY DEF Fits, ShapesFit
  <2>2. Groups(c) \in Positive /\ K \in Positive /\ X(c)[2] = Groups(c) * C /\ C \in Positive
    BY HeadExtents DEF Fits, ChannelsFit
  <2>3. at[2] \in 0..(Groups(c) * C - 1)
    BY <2>1, <2>2, WithinParts
  <2> HIDE DEF C, K
  <2>4. at[2] \div C \in 0..(Groups(c) - 1) /\ at[2] % C \in 0..(C - 1)
    BY <2>2, <2>3, GroupFits
  <2> QED
    BY <2>1, <2>2, <2>4
<1>5. ASSUME NEW r, Visit(r, K, W(c), n)
      PROVE  Tells(r, Dgrad(c, at, r).right[1] % K, Dgrad(c, at, r).right, n)
  <2>1. PICK w, u, q, b : /\ w = Dgrad(c, at, r).right /\ u = Rest(r, 2)
                          /\ q = DgradChannel(c, at, r) /\ b = at[2] % C
    OBVIOUS
  <2>2. w = Headed(q, b, u)
    BY <2>1, DgradParts
  <2>3. r \in Seq(Int) /\ Len(r) = n + 1 /\ r[1] \in 0..(K - 1)
    BY <1>5 DEF Visit
  <2>4. Follows(u, r, n)
    <3>1. n \in 1..4
      BY <1>4
    <3> QED
      BY <2>1, <2>3, <3>1, RestFollows
  <2>5. q % K = r[1] /\ q \in Int
    <3>1. PICK g : g = at[2] \div C
      OBVIOUS
    <3>2. g \in Nat /\ q = InGroup(g, K, r[1])
      BY <1>4, <2>1, <3>1 DEF DgradChannel
    <3> HIDE DEF K
    <3>3. q % K = r[1]
      BY <1>4, <2>3, <3>2, GroupOf
    <3>4. q \in Int
      BY <1>4, <2>3, <3>2 DEF InGroup, Positive
    <3> QED
      BY <3>3, <3>4
  <2>6. Heads(w, q, b, u)
    BY <1>4, <2>1, <2>2, <2>4, <2>5, HeadedIs DEF Follows
  <2>7. w[1] = q /\ \A s \in 1..n : w[s + 2] = r[s + 1]
    BY <2>4, <2>6 DEF Heads, Follows
  <2> QED
    BY <2>1, <2>5, <2>7 DEF Tells
<1>6. ASSUME NEW v \in Products(DgradVisits(c, at)), NEW u \in Products(DgradVisits(c, at)),
             v[2].left = u[2].left, v[2].right = u[2].right
      PROVE  v[1] = u[1]
  <2>1. PICK r, q, w : r = v[1] /\ q = u[1] /\ w = v[2].right
    OBVIOUS
  <2>2. /\ Visit(r, K, W(c), n) /\ Visit(q, K, W(c), n)
        /\ w = Dgrad(c, at, r).right /\ w = Dgrad(c, at, q).right
    BY <1>1, <1>6, <2>1
  <2>3. Tells(r, w[1] % K, w, n)
    BY <1>5, <2>2
  <2>4. Tells(q, w[1] % K, w, n)
    BY <1>5, <2>2
  <2>5. r = q
    BY <1>4, <2>2, <2>3, <2>4, SameVisit DEF Tells
  <2> QED
    BY <2>1, <2>5
<1> QED
  BY <1>2, <1>3, <1>6 DEF Loads

WgradX(c, at, r) == [s \in SpatialAxes(c) |-> InputCoordinate(c, s, r[s + 1], at[s + 2])]
WgradChannel(c, at) == InGroup(at[1] \div OutputChannelsPerGroup(c), W(c)[2], at[2])

LEMMA WgradParts ==
  ASSUME NEW c, Fits(c), NEW at, NEW r
  PROVE  /\ Wgrad(c, at, r).valid <=>
              \A s \in 1..Rank(c) : WgradX(c, at, r)[s] \in 0..(X(c)[s + 2] - 1)
         /\ Wgrad(c, at, r).left = Headed(r[1], WgradChannel(c, at), WgradX(c, at, r))
         /\ Wgrad(c, at, r).right = Headed(r[1], at[1], Rest(r, 2))
         /\ Function(WgradX(c, at, r), Rank(c))
         /\ \A s \in 1..Rank(c) :
              WgradX(c, at, r)[s] = InputCoordinate(c, s, r[s + 1], at[s + 2])
<1>1. SpatialAxes(c) = 1..Rank(c)
  BY HeadExtents
<1>2. Function(WgradX(c, at, r), Rank(c))
  BY <1>1 DEF WgradX, Function
<1>3. \A s \in 1..Rank(c) : WgradX(c, at, r)[s] = InputCoordinate(c, s, r[s + 1], at[s + 2])
  BY <1>1 DEF WgradX
<1>4. PICK x : x = WgradX(c, at, r)
  OBVIOUS
<1>5. Wgrad(c, at, r) =
        [valid |-> \A s \in SpatialAxes(c) : x[s] \in 0..(X(c)[s + 2] - 1),
         left |-> Headed(r[1], WgradChannel(c, at), x),
         right |-> Headed(r[1], at[1], Rest(r, 2))]
  BY <1>4 DEF Wgrad, WgradX, WgradChannel, Headed, InGroup, Rest
<1> QED
  BY <1>1, <1>2, <1>3, <1>4, <1>5

LEMMA WgradReduces ==
  ASSUME NEW c, Fits(c)
  PROVE  \A r : r \in Indices(WgradExtents(c)) <=> Visit(r, X(c)[1], Y(c), Rank(c))
<1>1. Rank(c) \in 1..3 /\ Y(c) \in Seq(Positive) /\ Len(Y(c)) = Rank(c) + 2
  BY DEF Fits, ShapesFit
<1>2. PICK e, h : e = WgradExtents(c) /\ h = X(c)[1]
  OBVIOUS
<1>3. h \in Int
  BY <1>2, HeadExtents DEF Positive
<1>4. Reduces(e, h, Y(c), Rank(c))
  <2>1. e = Led(h, Rest(Y(c), 3))
    BY <1>2 DEF WgradExtents, Led, Rest
  <2> QED
    BY <1>1, <1>3, <2>1, LedReduces
<1> QED
  BY <1>1, <1>2, <1>4, VisitIs

(* A load of the kernel of the filter gradient meets the element it is for. *)
LEMMA WgradMeets ==
  ASSUME NEW c, Fits(c), NEW at, Within(at, W(c)),
         NEW r, Visit(r, X(c)[1], Y(c), Rank(c)), Wgrad(c, at, r).valid
  PROVE  Meeting(c, Wgrad(c, at, r).left, at, Wgrad(c, at, r).right)
<1> DEFINE n == Rank(c)
           K == OutputChannelsPerGroup(c)
           C == W(c)[2]
<1>1. /\ n \in 1..3 /\ X(c) \in Seq(Positive) /\ W(c) \in Seq(Positive) /\ Y(c) \in Seq(Positive)
      /\ Len(X(c)) = n + 2 /\ Len(W(c)) = n + 2 /\ Len(Y(c)) = n + 2
  BY DEF Fits, ShapesFit
<1>2. /\ Groups(c) \in Positive /\ K \in Positive /\ W(c)[1] = Y(c)[2]
      /\ X(c)[1] = Y(c)[1] /\ Y(c)[2] = Groups(c) * K /\ X(c)[2] = Groups(c) * C
  BY DEF Fits, ChannelsFit
<1>3. C \in Positive
  BY HeadExtents
<1>4. /\ at \in Seq(Int) /\ Len(at) = n + 2 /\ at[1] \in 0..(W(c)[1] - 1) /\ at[2] \in 0..(C - 1)
      /\ \A s \in 1..n : at[s + 2] \in 0..(W(c)[s + 2] - 1)
  BY <1>1, WithinParts
<1>5. /\ r \in Seq(Int) /\ Len(r) = n + 1 /\ r[1] \in 0..(X(c)[1] - 1)
      /\ \A s \in 1..n : r[s + 1] \in 0..(Y(c)[s + 2] - 1)
  BY DEF Visit
<1>6. PICK xs, ys, x, y, g, q :
        /\ xs = WgradX(c, at, r) /\ ys = Rest(r, 2)
        /\ x = Wgrad(c, at, r).left /\ y = Wgrad(c, at, r).right
        /\ g = at[1] \div K /\ q = InGroup(g, C, at[2])
  OBVIOUS
<1>7. /\ x = Headed(r[1], q, xs) /\ y = Headed(r[1], at[1], ys) /\ Function(xs, n)
      /\ \A s \in 1..n : /\ xs[s] \in 0..(X(c)[s + 2] - 1)
                         /\ xs[s] = InputCoordinate(c, s, r[s + 1], at[s + 2])
  BY <1>6, WgradParts DEF WgradChannel
<1>8. g \in 0..(Groups(c) - 1)
  <2>1. at[1] \in 0..(Groups(c) * K - 1)
    BY <1>2, <1>4
  <2> HIDE DEF K
  <2> QED
    BY <1>2, <1>6, <2>1, GroupFits
<1>9. q \in 0..(X(c)[2] - 1)
  BY <1>2, <1>3, <1>4, <1>6, <1>8, ChannelFits
<1>10. Inside(xs, X(c), n)
  BY <1>1, <1>7, CoordinatesInside
<1>11. /\ Within(x, X(c)) /\ x[1] = r[1] /\ x[2] = q /\ \A s \in 1..n : x[s + 2] = xs[s]
  <2>1. ElementOf(x, r[1], q, xs, X(c), n)
    BY <1>1, <1>5, <1>7, <1>9, <1>10, ElementIs
  <2> QED
    BY <2>1 DEF ElementOf
<1>12. Follows(ys, r, n)
  <2>1. n \in 1..4
    BY <1>1
  <2> QED
    BY <1>5, <1>6, <2>1, RestFollows
<1>13. Inside(ys, Y(c), n)
  BY <1>5, <1>12 DEF Inside, Follows
<1>14. /\ Within(y, Y(c)) /\ y[1] = r[1] /\ y[2] = at[1] /\ \A s \in 1..n : y[s + 2] = r[s + 1]
  <2>1. r[1] \in 0..(Y(c)[1] - 1) /\ at[1] \in 0..(Y(c)[2] - 1)
    BY <1>2, <1>4, <1>5
  <2>2. ElementOf(y, r[1], at[1], ys, Y(c), n)
    BY <1>1, <1>7, <1>13, <2>1, ElementIs
  <2> QED
    BY <1>12, <2>2 DEF ElementOf, Follows
<1>15. ASSUME NEW s \in 1..n PROVE Reaches(c, s, x[s + 2], y[s + 2], at[s + 2])
  <2>1. xs[s] \in Int /\ at[s + 2] \in Int /\ r[s + 1] \in Int
    <3>1. xs[s] \in 0..(X(c)[s + 2] - 1) /\ r[s + 1] \in 0..(Y(c)[s + 2] - 1)
          /\ at[s + 2] \in 0..(W(c)[s + 2] - 1)
      BY <1>4, <1>5, <1>7
    <3> QED
      BY <3>1
  <2>2. xs[s] = InputCoordinate(c, s, r[s + 1], at[s + 2])
    BY <1>7
  <2>3. Reaches(c, s, xs[s], r[s + 1], at[s + 2])
    BY <2>1, <2>2, CoordinateReaches
  <2> QED
    BY <1>11, <1>14, <2>3
<1>16. Meeting(c, x, at, y)
  BY <1>6, <1>11, <1>14, <1>15 DEF Meeting
<1> QED
  BY <1>6, <1>16

(* What meets an element of the filter gradient is loaded for it.          *)
LEMMA WgradReaches ==
  ASSUME NEW c, Fits(c), NEW at, NEW x, NEW y, Meeting(c, x, at, y)
  PROVE  \E r : /\ Visit(r, X(c)[1], Y(c), Rank(c)) /\ Wgrad(c, at, r).valid
                /\ x = Wgrad(c, at, r).left /\ y = Wgrad(c, at, r).right
<1> DEFINE n == Rank(c)
           K == OutputChannelsPerGroup(c)
           C == W(c)[2]
           N == X(c)[1]
<1>1. /\ n \in 1..3 /\ X(c) \in Seq(Positive) /\ W(c) \in Seq(Positive) /\ Y(c) \in Seq(Positive)
      /\ Len(X(c)) = n + 2 /\ Len(W(c)) = n + 2 /\ Len(Y(c)) = n + 2
  BY DEF Fits, ShapesFit
<1>2. /\ Within(x, X(c)) /\ Within(at, W(c)) /\ Within(y, Y(c))
      /\ x[1] = y[1] /\ at[1] = y[2] /\ x[2] = InGroup(at[1] \div K, C, at[2])
      /\ \A s \in 1..n : Reaches(c, s, x[s + 2], y[s + 2], at[s + 2])
  BY DEF Meeting
<1>3. /\ x \in Seq(Int) /\ Len(x) = n + 2 /\ x[1] \in 0..(N - 1) /\ x[2] \in 0..(X(c)[2] - 1)
      /\ \A s \in 1..n : x[s + 2] \in 0..(X(c)[s + 2] - 1)
  BY <1>1, <1>2, WithinParts
<1>4. \A s \in 1..n : at[s + 2] \in 0..(W(c)[s + 2] - 1)
  BY <1>1, <1>2, WithinParts
<1>5. /\ y \in Seq(Int) /\ Len(y) = n + 2 /\ y[1] \in 0..(Y(c)[1] - 1) /\ y[2] \in 0..(Y(c)[2] - 1)
      /\ \A s \in 1..n : y[s + 2] \in 0..(Y(c)[s + 2] - 1)
  BY <1>1, <1>2, WithinParts
<1>6. PICK u, d : u = Rest(y, 3) /\ d = y[1]
  OBVIOUS
<1>7. u \in Seq(Int) /\ Len(u) = n /\ \A s \in 1..n : u[s] = y[s + 2]
  BY <1>1, <1>5, <1>6, RestIsSpatial
<1>8. Inside(u, Y(c), n)
  BY <1>5, <1>7 DEF Inside
<1>9. PICK r : r = Led(d, u)
  OBVIOUS
<1>10. Visit(r, N, Y(c), n) /\ Leads(r, d, u)
  <2>1. d \in 0..(N - 1)
    BY <1>2, <1>3, <1>6
  <2> HIDE DEF N
  <2> QED
    BY <1>1, <1>8, <1>9, <2>1, LedVisits
<1>11. /\ r \in Seq(Int) /\ Len(r) = n + 1 /\ r[1] = d /\ \A s \in 1..n : r[s + 1] = y[s + 2]
  BY <1>7, <1>10 DEF Leads
<1>12. PICK xs, ys : xs = WgradX(c, at, r) /\ ys = Rest(r, 2)
  OBVIOUS
<1>13. /\ Function(xs, n)
       /\ \A s \in 1..n : xs[s] = InputCoordinate(c, s, r[s + 1], at[s + 2])
       /\ Wgrad(c, at, r).left = Headed(r[1], x[2], xs)
       /\ Wgrad(c, at, r).right = Headed(r[1], at[1], ys)
       /\ Wgrad(c, at, r).valid <=> \A s \in 1..n : xs[s] \in 0..(X(c)[s + 2] - 1)
  <2>1. WgradChannel(c, at) = x[2]
    BY <1>2 DEF WgradChannel
  <2> QED
    BY <1>12, <2>1, WgradParts
<1>14. ASSUME NEW s \in 1..n PROVE xs[s] = x[s + 2]
  <2>1. x[s + 2] \in Int /\ at[s + 2] \in Int /\ y[s + 2] \in Int
    BY <1>3, <1>4, <1>5
  <2>2. x[s + 2] = InputCoordinate(c, s, y[s + 2], at[s + 2])
    BY <1>2, <2>1, CoordinateReaches
  <2> QED
    BY <1>11, <1>13, <2>2
<1>15. \A s \in 1..n : xs[s] \in 0..(X(c)[s + 2] - 1)
  BY <1>3, <1>14
<1>16. Wgrad(c, at, r).valid
  BY <1>13, <1>15
<1>17. x = Wgrad(c, at, r).left
  <2>1. Inside(xs, X(c), n)
    BY <1>1, <1>13, <1>15, CoordinatesInside
  <2>2. PICK t : t = Headed(x[1], x[2], xs)
    OBVIOUS
  <2>3. ElementOf(t, x[1], x[2], xs, X(c), n)
    BY <1>1, <1>3, <2>1, <2>2, ElementIs
  <2>4. Within(t, X(c)) /\ t[1] = x[1] /\ t[2] = x[2] /\ \A s \in 1..n : t[s + 2] = x[s + 2]
    BY <1>14, <2>3 DEF ElementOf
  <2>5. t = x
    BY <1>1, <1>2, <2>4, SameElement
  <2> QED
    BY <1>2, <1>6, <1>11, <1>13, <2>2, <2>5
<1>18. y = Wgrad(c, at, r).right
  <2>1. Follows(ys, r, n)
    <3>1. n \in 1..4
      BY <1>1
    <3> QED
      BY <1>11, <1>12, <3>1, RestFollows
  <2>2. Inside(ys, Y(c), n) /\ \A s \in 1..n : ys[s] = y[s + 2]
    BY <1>5, <1>11, <2>1 DEF Inside, Follows
  <2>3. PICK t : t = Headed(y[1], y[2], ys)
    OBVIOUS
  <2>4. ElementOf(t, y[1], y[2], ys, Y(c), n)
    BY <1>1, <1>5, <2>2, <2>3, ElementIs
  <2>5. Within(t, Y(c)) /\ t[1] = y[1] /\ t[2] = y[2] /\ \A s \in 1..n : t[s + 2] = y[s + 2]
    BY <2>2, <2>4 DEF ElementOf
  <2>6. t = y
    BY <1>1, <1>2, <2>5, SameElement
  <2> QED
    BY <1>2, <1>6, <1>11, <1>13, <2>3, <2>6
<1> QED
  BY <1>10, <1>16, <1>17, <1>18

LEMMA WgradLoads ==
  ASSUME NEW c, Fits(c), NEW at, Within(at, W(c))
  PROVE  Loads(WgradVisits(c, at), WgradPairs(c, at))
<1> DEFINE n == Rank(c)
           N == X(c)[1]
<1>1. \A v \in Products(WgradVisits(c, at)) :
        /\ Visit(v[1], N, Y(c), n) /\ v[2] = Wgrad(c, at, v[1])
        /\ Wgrad(c, at, v[1]).valid
  BY WgradReduces DEF WgradVisits, Products
<1>2. ASSUME NEW v \in Products(WgradVisits(c, at))
      PROVE  <<v[2].left, v[2].right>> \in WgradPairs(c, at)
  <2>1. PICK x, y : x = v[2].left /\ y = v[2].right
    OBVIOUS
  <2>2. Meeting(c, x, at, y)
    BY <1>1, <2>1, WgradMeets
  <2> QED
    BY <2>1, <2>2, MeetingInside DEF WgradPairs
<1>3. ASSUME NEW q \in WgradPairs(c, at)
      PROVE  \E v \in Products(WgradVisits(c, at)) : q = <<v[2].left, v[2].right>>
  <2>1. PICK x, y : q = <<x, y>> /\ Meeting(c, x, at, y)
    BY DEF WgradPairs
  <2>2. PICK r : /\ Visit(r, N, Y(c), n) /\ Wgrad(c, at, r).valid
                 /\ x = Wgrad(c, at, r).left /\ y = Wgrad(c, at, r).right
    BY <2>1, WgradReaches
  <2>3. <<r, Wgrad(c, at, r)>> \in Products(WgradVisits(c, at))
    BY <2>2, WgradReduces DEF WgradVisits, Products
  <2> QED
    BY <2>1, <2>2, <2>3
<1>4. n \in 1..3 /\ at[1] \in Int
  <2>1. /\ n \in 1..3 /\ W(c) \in Seq(Positive) /\ Len(W(c)) = n + 2
    BY DEF Fits, ShapesFit
  <2>2. at[1] \in 0..(W(c)[1] - 1)
    BY <2>1, WithinParts
  <2> QED
    BY <2>1, <2>2
<1>5. ASSUME NEW r, Visit(r, N, Y(c), n)
      PROVE  Tells(r, Wgrad(c, at, r).right[1], Wgrad(c, at, r).right, n)
  <2>1. PICK y, u : y = Wgrad(c, at, r).right /\ u = Rest(r, 2)
    OBVIOUS
  <2>2. y = Headed(r[1], at[1], u)
    BY <2>1, WgradParts
  <2>3. r \in Seq(Int) /\ Len(r) = n + 1 /\ r[1] \in Int
    <3>1. r \in Seq(Int) /\ Len(r) = n + 1 /\ r[1] \in 0..(N - 1)
      BY <1>5 DEF Visit
    <3> QED
      BY <3>1
  <2>4. Follows(u, r, n)
    <3>1. n \in 1..4
      BY <1>4
    <3> QED
      BY <2>1, <2>3, <3>1, RestFollows
  <2>5. Heads(y, r[1], at[1], u)
    BY <1>4, <2>2, <2>3, <2>4, HeadedIs DEF Follows
  <2> QED
    BY <2>1, <2>4, <2>5 DEF Heads, Follows, Tells
<1>6. ASSUME NEW v \in Products(WgradVisits(c, at)), NEW u \in Products(WgradVisits(c, at)),
             v[2].left = u[2].left, v[2].right = u[2].right
      PROVE  v[1] = u[1]
  <2>1. PICK r, q, y : r = v[1] /\ q = u[1] /\ y = v[2].right
    OBVIOUS
  <2>2. /\ Visit(r, N, Y(c), n) /\ Visit(q, N, Y(c), n)
        /\ y = Wgrad(c, at, r).right /\ y = Wgrad(c, at, q).right
    BY <1>1, <1>6, <2>1
  <2>3. Tells(r, y[1], y, n)
    BY <1>5, <2>2
  <2>4. Tells(q, y[1], y, n)
    BY <1>5, <2>2
  <2>5. r = q
    BY <1>4, <2>2, <2>3, <2>4, SameVisit DEF Tells
  <2> QED
    BY <2>1, <2>5
<1> QED
  BY <1>2, <1>3, <1>6 DEF Loads

(***************************************************************************)
(* The loop.                                                               *)
(***************************************************************************)
Visits(c, at) ==
  CASE c.tag = "CONV_FPROP" -> FpropVisits(c, at)
    [] c.tag = "CONV_DGRAD" -> DgradVisits(c, at)
    [] c.tag = "CONV_WGRAD" -> WgradVisits(c, at)

(* What the elements before the l-th hold.                                 *)
HoldsUpTo(l) ==
  /\ DOMAIN sums = {Delinear(k, Target(conv)) : k \in 0..(l - 1)}
  /\ \A at \in DOMAIN sums : sums[at] = Stored(Visits(conv, at))

LoopInv ==
  /\ conv \in TrainingNodes /\ iteration \in Nat
  /\ progress # "unemitted" /\ ~outside
  /\ progress \in {"validate", "emit"} => iteration = 0 /\ DOMAIN sums = {}
  /\ progress \in {"emit", "loop", "done"} => DecodeConvolution(conv)
  /\ progress \in {"loop", "done"} =>
       iteration <= ElementCount(Target(conv)) /\ HoldsUpTo(iteration)
  /\ progress = "done" => iteration = ElementCount(Target(conv))

LEMMA AcceptedFits ==
  ASSUME NodesWellFormed, NEW c \in TrainingNodes, DecodeConvolution(c)
  PROVE  /\ Fits(c) /\ Target(c) \in Seq(Positive) /\ ElementCount(Target(c)) <= MaxI64
         /\ c.tag \in Tags
         /\ c.tag = "CONV_FPROP" => Target(c) = Y(c)
         /\ c.tag = "CONV_DGRAD" => Target(c) = X(c)
         /\ c.tag = "CONV_WGRAD" => Target(c) = W(c)
<1>1. ShapesFit(c)
  BY ShapesOfAccepted
<1>2. Fits(c)
  BY <1>1, ChannelsOfAccepted, AttributesOfAccepted DEF Fits
<1>3. c.tag \in Tags /\ HasPorts(c) /\ Resolves(c)
  BY DEF DecodeConvolution
<1>4. /\ c.tag = "CONV_FPROP" => Target(c) = Y(c)
      /\ c.tag = "CONV_DGRAD" => Target(c) = X(c)
      /\ c.tag = "CONV_WGRAD" => Target(c) = W(c)
  BY DEF Target, X, W, Y, PortsOf
<1>5. Target(c) \in Seq(Positive)
  BY <1>1, <1>3, <1>4 DEF ShapesFit, Tags
<1>6. ElementCount(Target(c)) <= MaxI64
  <2>1. PortsOf(c.tag).out \in DOMAIN c.outputs
    BY <1>3 DEF HasPorts
  <2>2. Uid(c, PortsOf(c.tag).out) \in DOMAIN c.tensors
    BY <1>3, <2>1 DEF Resolves
  <2> QED
    BY <2>2 DEF NodesWellFormed, Target
<1> QED
  BY <1>2, <1>3, <1>4, <1>5, <1>6

LEMMA CountIsPositive ==
  ASSUME NEW dims \in Seq(Positive)
  PROVE  ElementCount(dims) \in Positive
<1>1. 0 \in 0..Len(dims)
  OBVIOUS
<1> QED
  BY <1>1, BehindSteps DEF ElementCount

LEMMA ValidateKeeps ==
  ASSUME LoopInv, ValidateTrainingOperation
  PROVE  LoopInv'
<1>1. progress = "validate" /\ progress' \in {"emit", "refused"}
      /\ (progress' = "emit" => DecodeConvolution(conv))
  BY DEF ValidateTrainingOperation
<1>2. UNCHANGED <<conv, iteration, sums, outside>>
  BY DEF ValidateTrainingOperation
<1> QED
  BY <1>1, <1>2 DEF LoopInv

LEMMA EmitKeeps ==
  ASSUME NodesWellFormed, LoopInv, EmitTrainingOperation
  PROVE  LoopInv'
<1>1. progress = "emit" /\ UNCHANGED <<conv, iteration, sums, outside>>
  BY DEF EmitTrainingOperation
<1>2. /\ DecodeConvolution(conv) /\ conv \in TrainingNodes
      /\ iteration = 0 /\ DOMAIN sums = {} /\ ~outside
  BY <1>1 DEF LoopInv
<1> DEFINE dims == Target(conv)
<1>3. dims \in Seq(Positive) /\ ElementCount(dims) <= MaxI64
  BY <1>2, AcceptedFits
<1>4. ElementCount(dims) \in Positive
  BY <1>3, CountIsPositive
<1>5. FlatCountFits(dims)
  <2>1. MaxI64 \in Nat /\ MaxI64 <= MaxU64
    BY MaxU64Assumption DEF MaxI64
  <2>2. \A a \in Axes(dims) : dims[a] > 0
    BY <1>3, ExtentOf DEF Axes, Positive
  <2> HIDE DEF dims
  <2> QED
    BY <1>3, <1>4, <2>1, <2>2, MaxU64Assumption DEF FlatCountFits, ElementCountFits, Positive
<1>6. progress' = "loop"
  BY <1>1, <1>2, <1>5 DEF EmitTrainingOperation
<1>7. HoldsUpTo(0)
  <2>1. {Delinear(k, dims) : k \in 0..(0 - 1)} = {}
    OBVIOUS
  <2> QED
    BY <1>2, <2>1 DEF HoldsUpTo
<1>8. HoldsUpTo(0)'
  BY <1>1, <1>7 DEF HoldsUpTo
<1>9. iteration' = 0 /\ 0 <= ElementCount(dims)
  BY <1>1, <1>2, <1>4 DEF Positive
<1> HIDE DEF dims
<1> QED
  BY <1>1, <1>2, <1>6, <1>8, <1>9 DEF LoopInv, dims

(* An iteration that visits what its element takes and stays inside.       *)
LEMMA ElementKeeps ==
  ASSUME NodesWellFormed, LoopInv, NEW visits, NEW dims1, NEW dims2,
         Element(visits, dims1, dims2), visits = Visits(conv, Current),
         InBounds(visits, dims1, dims2)
  PROVE  LoopInv'
<1> DEFINE dims == Target(conv)
<1>1. /\ progress = "loop" /\ iteration < ElementCount(dims)
      /\ UNCHANGED <<conv, progress>> /\ iteration' = iteration + 1
  BY DEF Element
<1>2. /\ DecodeConvolution(conv) /\ conv \in TrainingNodes
      /\ iteration \in Nat /\ ~outside /\ HoldsUpTo(iteration)
  BY <1>1 DEF LoopInv
<1>3. ElementCount(dims) \in Positive
  BY <1>2, AcceptedFits, CountIsPositive
<1>4. sums' = [at \in DOMAIN sums \cup {Current} |->
                   IF at = Current THEN Stored(visits) ELSE sums[at]]
  BY DEF Element, Stored, Products
<1>5. ~outside'
  <2>1. \A v \in Products(visits) : v[2].left \in Indices(dims1) /\ v[2].right \in Indices(dims2)
    BY DEF InBounds
  <2>2. outside' = (outside \/ \E v \in Products(visits) :
                     v[2].left \notin Indices(dims1) \/ v[2].right \notin Indices(dims2))
    BY DEF Element, Products
  <2> QED
    BY <1>2, <2>1, <2>2
<1>6. DOMAIN sums' = {Current} \cup DOMAIN sums
  BY <1>4
<1>7. \A at \in DOMAIN sums' :
        sums'[at] = IF at = Current THEN Stored(visits) ELSE sums[at]
  BY <1>4
<1>8. DOMAIN sums' = {Delinear(k, dims) : k \in 0..((iteration + 1) - 1)}
  <2>1. 0..((iteration + 1) - 1) = 0..(iteration - 1) \cup {iteration}
    BY <1>2
  <2>2. /\ DOMAIN sums = {Delinear(k, dims) : k \in 0..(iteration - 1)}
        /\ Current = Delinear(iteration, dims)
    BY <1>2 DEF HoldsUpTo, Current
  <2> HIDE DEF dims
  <2> QED
    BY <1>6, <2>1, <2>2
<1>9. \A at \in DOMAIN sums' : sums'[at] = Stored(Visits(conv, at))
  <2>1. \A at \in DOMAIN sums : sums[at] = Stored(Visits(conv, at))
    BY <1>2 DEF HoldsUpTo
  <2> QED
    BY <1>6, <1>7, <2>1
<1>10. HoldsUpTo(iteration)'
  BY <1>1, <1>8, <1>9 DEF HoldsUpTo
<1>11. iteration' \in Nat /\ iteration' <= ElementCount(dims)
  BY <1>1, <1>2, <1>3 DEF Positive
<1> QED
  BY <1>1, <1>2, <1>5, <1>10, <1>11 DEF LoopInv

LEMMA CurrentStays ==
  ASSUME NodesWellFormed, LoopInv, progress = "loop"
  PROVE  Fits(conv) /\ Within(Current, Target(conv))
<1>1. Fits(conv) /\ Target(conv) \in Seq(Positive) /\ iteration \in Nat
  BY AcceptedFits DEF LoopInv
<1> QED
  BY <1>1, DelinearStays DEF Current

LEMMA FpropKeeps ==
  ASSUME NodesWellFormed, LoopInv, FpropElement
  PROVE  LoopInv'
<1> DEFINE visits == FpropVisits(conv, Current)
<1>1. progress = "loop" /\ conv.tag = "CONV_FPROP" /\ Element(visits, X(conv), W(conv))
  BY DEF FpropElement, FpropVisits
<1>2. Target(conv) = Y(conv)
  BY <1>1, AcceptedFits DEF LoopInv
<1>3. Loads(visits, FpropPairs(conv, Current))
  BY <1>1, <1>2, CurrentStays, FpropLoads
<1>4. InBounds(visits, X(conv), W(conv))
  <2> HIDE DEF visits
  <2> QED
    BY <1>3 DEF Loads, FpropPairs, InBounds
<1>5. visits = Visits(conv, Current)
  BY <1>1 DEF Visits
<1> HIDE DEF visits
<1> QED
  BY <1>1, <1>4, <1>5, ElementKeeps

LEMMA DgradKeeps ==
  ASSUME NodesWellFormed, LoopInv, DgradElement
  PROVE  LoopInv'
<1> DEFINE visits == DgradVisits(conv, Current)
<1>1. progress = "loop" /\ conv.tag = "CONV_DGRAD" /\ Element(visits, Y(conv), W(conv))
  BY DEF DgradElement, DgradVisits
<1>2. Target(conv) = X(conv)
  BY <1>1, AcceptedFits DEF LoopInv
<1>3. Loads(visits, DgradPairs(conv, Current))
  BY <1>1, <1>2, CurrentStays, DgradLoads
<1>4. InBounds(visits, Y(conv), W(conv))
  <2> HIDE DEF visits
  <2> QED
    BY <1>3 DEF Loads, DgradPairs, InBounds
<1>5. visits = Visits(conv, Current)
  BY <1>1 DEF Visits
<1> HIDE DEF visits
<1> QED
  BY <1>1, <1>4, <1>5, ElementKeeps

LEMMA WgradKeeps ==
  ASSUME NodesWellFormed, LoopInv, WgradElement
  PROVE  LoopInv'
<1> DEFINE visits == WgradVisits(conv, Current)
<1>1. progress = "loop" /\ conv.tag = "CONV_WGRAD" /\ Element(visits, X(conv), Y(conv))
  BY DEF WgradElement, WgradVisits
<1>2. Target(conv) = W(conv)
  BY <1>1, AcceptedFits DEF LoopInv
<1>3. Loads(visits, WgradPairs(conv, Current))
  BY <1>1, <1>2, CurrentStays, WgradLoads
<1>4. InBounds(visits, X(conv), Y(conv))
  <2> HIDE DEF visits
  <2> QED
    BY <1>3 DEF Loads, WgradPairs, InBounds
<1>5. visits = Visits(conv, Current)
  BY <1>1 DEF Visits
<1> HIDE DEF visits
<1> QED
  BY <1>1, <1>4, <1>5, ElementKeeps

LEMMA EndKeeps ==
  ASSUME LoopInv, LoopEnds
  PROVE  LoopInv'
<1>1. /\ progress = "loop" /\ iteration = ElementCount(Target(conv)) /\ progress' = "done"
      /\ UNCHANGED <<conv, iteration, sums, outside>>
  BY DEF LoopEnds
<1>2. HoldsUpTo(iteration) /\ DecodeConvolution(conv) /\ iteration <= ElementCount(Target(conv))
  BY <1>1 DEF LoopInv
<1>3. HoldsUpTo(iteration)'
  BY <1>1, <1>2 DEF HoldsUpTo
<1> QED
  BY <1>1, <1>2, <1>3 DEF LoopInv

LEMMA LoopInvariance ==
  ASSUME NodesWellFormed
  PROVE  TrainingSpec => []LoopInv
<1>1. TrainingInit => LoopInv
  <2> SUFFICES ASSUME TrainingInit PROVE LoopInv
    OBVIOUS
  <2>1. DOMAIN sums = {}
    BY DEF TrainingInit
  <2> QED
    BY <2>1 DEF TrainingInit, LoopInv
<1>2. LoopInv /\ [TrainingNext]_trainingVars => LoopInv'
  <2> SUFFICES ASSUME LoopInv, [TrainingNext]_trainingVars PROVE LoopInv'
    OBVIOUS
  <2>1. CASE ValidateTrainingOperation
    BY <2>1, ValidateKeeps
  <2>2. CASE EmitTrainingOperation
    BY <2>2, EmitKeeps
  <2>3. CASE FpropElement
    BY <2>3, FpropKeeps
  <2>4. CASE DgradElement
    BY <2>4, DgradKeeps
  <2>5. CASE WgradElement
    BY <2>5, WgradKeeps
  <2>6. CASE LoopEnds
    BY <2>6, EndKeeps
  <2>7. CASE UNCHANGED trainingVars
    <3>1. UNCHANGED <<conv, progress, iteration, sums, outside>>
      BY <2>7 DEF trainingVars
    <3>2. HoldsUpTo(iteration)' <=> HoldsUpTo(iteration)
      BY <3>1 DEF HoldsUpTo
    <3> QED
      BY <3>1, <3>2 DEF LoopInv
  <2> QED
    BY <2>1, <2>2, <2>3, <2>4, <2>5, <2>6, <2>7 DEF TrainingNext
<1> QED
  BY <1>1, <1>2, PTL DEF TrainingSpec
-----------------------------------------------------------------------------
(* The forward convolution and its two gradients run over the same         *)
(* products: whatever the grouping, strides, dilations, paddings and math  *)
(* mode of an accepted node, its kernel stores every element of its        *)
(* output, and multiplies for it each pair of the contraction once.        *)
THEOREM KernelsAreAdjoint ==
  ASSUME NodesWellFormed
  PROVE  TrainingSpec => []GradientsAreAdjoint
<1>1. LoopInv => GradientsAreAdjoint
  <2> SUFFICES ASSUME LoopInv PROVE GradientsAreAdjoint
    OBVIOUS
  <2>1. progress # "unemitted" /\ ~outside
    BY DEF LoopInv
  <2>2. ASSUME progress = "done"
        PROVE  /\ ExtentsAreExact
               /\ DOMAIN sums = Indices(Target(conv))
               /\ \A at \in DOMAIN sums :
                    OnceEach(sums[at], Factors(conv.tag, Contraction(conv), at))
    <3>1. /\ DecodeConvolution(conv) /\ conv \in TrainingNodes
          /\ iteration = ElementCount(Target(conv))
          /\ HoldsUpTo(iteration)
      BY <2>2 DEF LoopInv
    <3> DEFINE dims == Target(conv)
    <3>2. Fits(conv) /\ dims \in Seq(Positive) /\ conv.tag \in Tags
      BY <3>1, AcceptedFits
    <3>3. ExtentsAreExact
      BY <3>2, ExtentsFit DEF ExtentsAreExact, Fits
    <3>4. DOMAIN sums = Indices(dims)
      <4>1. DOMAIN sums = {Delinear(k, dims) : k \in 0..(ElementCount(dims) - 1)}
        BY <3>1 DEF HoldsUpTo
      <4>2. \A i : i \in Indices(dims) <=> Within(i, dims)
        <5>1. dims \in Seq(Int)
          BY <3>2, SeqMonotonic DEF Positive
        <5> QED
          BY <5>1, IndicesAre
      <4> HIDE DEF dims
      <4>3. ASSUME NEW k \in 0..(ElementCount(dims) - 1) PROVE Delinear(k, dims) \in Indices(dims)
        <5>1. k \in Nat
          OBVIOUS
        <5> QED
          BY <3>2, <4>2, <5>1, DelinearStays
      <4>4. ASSUME NEW i \in Indices(dims) PROVE i \in DOMAIN sums
        <5>1. PICK k \in 0..(ElementCount(dims) - 1) : Delinear(k, dims) = i
          BY <3>2, <4>2, DelinearReaches
        <5> QED
          BY <4>1, <5>1
      <4> QED
        BY <4>1, <4>3, <4>4
    <3>5. ASSUME NEW at \in DOMAIN sums
          PROVE  OnceEach(sums[at], Factors(conv.tag, Contraction(conv), at))
      <4>1. sums[at] = Stored(Visits(conv, at))
        BY <3>1 DEF HoldsUpTo
      <4>2. Within(at, dims)
        <5>1. dims \in Seq(Int)
          BY <3>2, SeqMonotonic DEF Positive
        <5> HIDE DEF dims
        <5> QED
          BY <3>4, <5>1, IndicesAre
      <4>3. CASE conv.tag = "CONV_FPROP"
        <5>1. dims = Y(conv) /\ Visits(conv, at) = FpropVisits(conv, at)
          BY <3>1, <4>3, AcceptedFits DEF Visits
        <5>2. Factors(conv.tag, Contraction(conv), at) = FpropPairs(conv, at)
          BY <3>2, <4>3, FactorsAre
        <5>3. Loads(FpropVisits(conv, at), FpropPairs(conv, at))
          BY <3>2, <4>2, <5>1, FpropLoads
        <5> QED
          BY <4>1, <5>1, <5>2, <5>3, LoadsOnceEach
      <4>4. CASE conv.tag = "CONV_DGRAD"
        <5>1. dims = X(conv) /\ Visits(conv, at) = DgradVisits(conv, at)
          BY <3>1, <4>4, AcceptedFits DEF Visits
        <5>2. Factors(conv.tag, Contraction(conv), at) = DgradPairs(conv, at)
          BY <3>2, <4>4, FactorsAre
        <5>3. Loads(DgradVisits(conv, at), DgradPairs(conv, at))
          BY <3>2, <4>2, <5>1, DgradLoads
        <5> QED
          BY <4>1, <5>1, <5>2, <5>3, LoadsOnceEach
      <4>5. CASE conv.tag = "CONV_WGRAD"
        <5>1. dims = W(conv) /\ Visits(conv, at) = WgradVisits(conv, at)
          BY <3>1, <4>5, AcceptedFits DEF Visits
        <5>2. Factors(conv.tag, Contraction(conv), at) = WgradPairs(conv, at)
          BY <3>2, <4>5, FactorsAre
        <5>3. Loads(WgradVisits(conv, at), WgradPairs(conv, at))
          BY <3>2, <4>2, <5>1, WgradLoads
        <5> QED
          BY <4>1, <5>1, <5>2, <5>3, LoadsOnceEach
      <4> QED
        BY <3>2, <4>3, <4>4, <4>5 DEF Tags
    <3> QED
      BY <3>3, <3>4, <3>5
  <2> QED
    BY <2>1, <2>2 DEF GradientsAreAdjoint, OnceEach
<1> QED
  BY <1>1, LoopInvariance, PTL

(***************************************************************************)
(* Row-major positions.                                                    *)
(***************************************************************************)
(* The partial sums of a dot product.                                      *)
SumsFrom(x, y, n, s) ==
  /\ s \in [0..n -> Int] /\ s[0] = 0
  /\ \A k \in 1..n : s[k] = s[k - 1] + x[k] * y[k]

SumUpTo(x, y) ==
  CHOOSE f : f = [n \in 0..Len(x) |-> IF n = 0 THEN 0 ELSE f[n - 1] + x[n] * y[n]]

LEMMA SumsExist ==
  ASSUME NEW x \in Seq(Int), NEW y \in Seq(Int), Len(y) = Len(x)
  PROVE  \A n \in 0..Len(x) : \E s : SumsFrom(x, y, n, s)
<1> DEFINE L == Len(x)
           G == {n \in 0..L : \E s : SumsFrom(x, y, n, s)}
<1>1. L \in Nat /\ \A k \in 1..L : x[k] \in Int /\ y[k] \in Int
  OBVIOUS
<1>2. 0 \in G
  <2> DEFINE s == [k \in 0..0 |-> 0]
  <2>1. SumsFrom(x, y, 0, s)
    BY DEF SumsFrom
  <2> QED
    BY <1>1, <2>1
<1>3. ASSUME NEW k \in 1..L, k - 1 \in G PROVE k \in G
  <2>1. PICK r : SumsFrom(x, y, k - 1, r)
    BY <1>3
  <2> DEFINE s == [n \in 0..k |-> IF n = k THEN r[k - 1] + x[k] * y[k] ELSE r[n]]
  <2>2. r \in [0..(k - 1) -> Int] /\ r[0] = 0
        /\ \A n \in 1..(k - 1) : r[n] = r[n - 1] + x[n] * y[n]
    BY <2>1 DEF SumsFrom
  <2>3. PICK p \in Int : p = x[k] * y[k]
    BY <1>1
  <2>4. s \in [0..k -> Int] /\ s[0] = 0
    BY <2>2, <2>3
  <2>5. ASSUME NEW n \in 1..k PROVE s[n] = s[n - 1] + x[n] * y[n]
    <3>1. n - 1 \in 0..k /\ n - 1 # k /\ s[n - 1] = r[n - 1]
      OBVIOUS
    <3>2. CASE n = k
      BY <3>1, <3>2
    <3>3. CASE n # k
      <4>1. n \in 1..(k - 1) /\ s[n] = r[n]
        BY <3>3
      <4> QED
        BY <2>2, <3>1, <4>1
    <3> QED
      BY <3>2, <3>3
  <2>6. SumsFrom(x, y, k, s)
    BY <2>4, <2>5 DEF SumsFrom
  <2> QED
    BY <1>1, <2>6
<1>4. Inductive(G, L)
  <2> HIDE DEF G
  <2> QED
    BY <1>2, <1>3 DEF Inductive
<1>5. 0..L \subseteq G
  <2> HIDE DEF G
  <2> QED
    BY <1>1, <1>4, AxisInduction
<1> QED
  BY <1>5

LEMMA DotIs ==
  ASSUME NEW x \in Seq(Int), NEW y \in Seq(Int), Len(y) = Len(x)
  PROVE  \E s : SumsFrom(x, y, Len(x), s) /\ Dot(x, y) = s[Len(x)]
<1> DEFINE L == Len(x)
           Is(f) == f = [n \in 0..L |-> IF n = 0 THEN 0 ELSE f[n - 1] + x[n] * y[n]]
<1>1. L \in Nat /\ L \in 0..L
  OBVIOUS
<1>2. PICK s : SumsFrom(x, y, L, s)
  BY <1>1, SumsExist
<1>3. Is(s)
  <2>1. s = [n \in 0..L |-> s[n]] /\ s[0] = 0
        /\ \A n \in 1..L : s[n] = s[n - 1] + x[n] * y[n]
    BY <1>2 DEF SumsFrom
  <2>2. ASSUME NEW n \in 0..L PROVE s[n] = IF n = 0 THEN 0 ELSE s[n - 1] + x[n] * y[n]
    <3>1. n # 0 => n \in 1..L
      OBVIOUS
    <3> QED
      BY <2>1, <3>1
  <2> QED
    BY <2>1, <2>2, Zenon
<1>4. Is(SumUpTo(x, y))
  BY <1>3, Zenon DEF SumUpTo
<1>5. PICK f : f = SumUpTo(x, y)
  OBVIOUS
<1>6. \A n \in 0..L : f[n] = IF n = 0 THEN 0 ELSE f[n - 1] + x[n] * y[n]
  BY <1>4, <1>5, Zenon
<1>7. Dot(x, y) = f[L]
  BY <1>5 DEF Dot, SumUpTo
<1> HIDE DEF Is
<1> DEFINE G == {n \in 0..L : f[n] = s[n]}
<1>8. Inductive(G, L)
  <2>1. 0 \in G
    <3>1. 0 \in 0..L /\ f[0] = 0 /\ s[0] = 0
      BY <1>1, <1>2, <1>6 DEF SumsFrom
    <3> QED
      BY <3>1
  <2>2. ASSUME NEW k \in 1..L, k - 1 \in G PROVE k \in G
    <3>1. k \in 0..L /\ k # 0 /\ f[k - 1] = s[k - 1]
      BY <2>2
    <3>2. s[k] = s[k - 1] + x[k] * y[k]
      BY <1>2 DEF SumsFrom
    <3>3. f[k] = f[k - 1] + x[k] * y[k]
      BY <1>6, <3>1
    <3> QED
      BY <3>1, <3>2, <3>3
  <2> HIDE DEF G
  <2> QED
    BY <2>1, <2>2 DEF Inductive
<1>9. L \in G
  <2> HIDE DEF G
  <2> QED
    BY <1>1, <1>8, AxisInduction
<1> QED
  BY <1>2, <1>7, <1>9

LEMMA Spread ==
  ASSUME NEW u \in Nat, NEW v \in Nat, NEW d \in Nat, NEW e \in Nat
  PROVE  (u * d + v) * e = u * (d * e) + v * e
OBVIOUS

(* Dividing by a product is dividing twice.                                *)
Multiplies(f, d, e) == f = d * e

LEMMA DividedTwice ==
  ASSUME NEW l \in Nat, NEW d \in Positive, NEW e \in Positive, NEW f, Multiplies(f, d, e)
  PROVE  l \div f = (l \div e) \div d
<1>1. PICK q \in Nat, r \in 0..(e - 1) : q = l \div e /\ l = q * e + r
  BY Divided
<1>2. PICK u \in Nat, v \in 0..(d - 1) : u = q \div d /\ q = u * d + v
  BY Divided
<1>3. v * e + r \in 0..(f - 1)
  <2>1. InGroup(v, e, r) \in 0..(d * e - 1)
    BY ChannelFits
  <2> QED
    BY <2>1 DEF InGroup, Multiplies
<1>4. l = u * f + (v * e + r)
  <2>1. (u * d + v) * e = u * (d * e) + v * e
    BY Spread DEF Positive
  <2>2. PICK a \in Int, b \in Int, c \in Int :
          a = (u * d + v) * e /\ b = u * (d * e) /\ c = v * e
    BY DEF Positive
  <2> QED
    BY <1>1, <1>2, <2>1, <2>2 DEF Multiplies
<1>5. f \in Positive
  BY DEF Positive, Multiplies
<1>6. PICK w : w = v * e + r
  OBVIOUS
<1>7. (u * f + w) \div f = u
  BY <1>3, <1>5, <1>6, Division
<1> QED
  BY <1>1, <1>2, <1>4, <1>6, <1>7

PackedList(dims) == [a \in 1..Len(dims) |-> ElementsBehind(dims, a)]

LEMMA PackedIs ==
  ASSUME NEW dims \in Seq(Positive)
  PROVE  /\ PackedStrides(dims) \in Seq(Int) /\ Len(PackedStrides(dims)) = Len(dims)
         /\ \A a \in 1..Len(dims) : PackedStrides(dims)[a] = ElementsBehind(dims, a)
<1>1. Len(dims) \in Nat /\ \A a \in 1..Len(dims) : ElementsBehind(dims, a) \in Int
  <2>1. \A a \in 1..Len(dims) : a \in 0..Len(dims)
    OBVIOUS
  <2> QED
    BY <2>1, BehindSteps DEF Positive
<1>2. PackedStrides(dims) = PackedList(dims)
  BY DEF PackedStrides, PackedList, Axes
<1>3. /\ PackedList(dims) \in Seq(Int) /\ Len(PackedList(dims)) = Len(dims)
      /\ \A a \in 1..Len(dims) : PackedList(dims)[a] = ElementsBehind(dims, a)
  BY <1>1 DEF PackedList
<1> QED
  BY <1>2, <1>3

(* The element at a position is at that position.                          *)
LEMMA LinearReturns ==
  ASSUME NEW dims \in Seq(Positive), NEW l \in 0..(ElementCount(dims) - 1)
  PROVE  Linear(Delinear(l, dims), dims) = l
<1> DEFINE L == Len(dims)
           E(a) == ElementsBehind(dims, a)
<1>1. PICK x, y : x = Delinear(l, dims) /\ y = PackedStrides(dims)
  OBVIOUS
<1>2. L \in Nat /\ l \in Nat /\ ElementCount(dims) \in Positive /\ l < ElementCount(dims)
  BY CountIsPositive DEF Positive
<1>3. x \in Seq(Int) /\ Len(x) = L /\ \A a \in 1..L : x[a] = (l \div E(a)) % dims[a]
  BY <1>1, <1>2, DelinearIs
<1>4. y \in Seq(Int) /\ Len(y) = L /\ \A a \in 1..L : y[a] = E(a)
  BY <1>1, PackedIs
<1>5. /\ \A a \in 0..L : E(a) \in Positive
      /\ E(L) = 1 /\ ElementCount(dims) = E(0)
      /\ \A a \in 1..L : E(a - 1) = dims[a] * E(a) /\ dims[a] \in Positive
  BY BehindSteps DEF ElementCount
<1> HIDE DEF E
<1>6. PICK s : SumsFrom(x, y, L, s) /\ Dot(x, y) = s[L]
  BY <1>3, <1>4, DotIs
<1> DEFINE G == {k \in 0..L : s[k] = (l \div E(k)) * E(k)}
<1>7. 0 \in G
  <2>1. PICK e : e = E(0)
    OBVIOUS
  <2>2. e \in Positive /\ l \in 0..(e - 1)
    BY <1>2, <1>5, <2>1
  <2>3. (0 * e + l) \div e = 0
    BY <2>2, Division
  <2>4. 0 * e + l = l /\ 0 * e = 0
    BY <1>2, <2>2 DEF Positive
  <2> QED
    BY <1>2, <1>6, <2>1, <2>3, <2>4 DEF SumsFrom
<1>8. ASSUME NEW k \in 1..L, k - 1 \in G PROVE k \in G
  <2>1. k \in 0..L /\ k - 1 \in 0..L
    BY <1>2
  <2>2. PICK e, f, d : e = E(k) /\ f = E(k - 1) /\ d = dims[k]
    OBVIOUS
  <2>3. e \in Positive /\ f \in Positive /\ d \in Positive /\ f = d * e
    BY <1>5, <2>1, <2>2
  <2>4. PICK q \in Nat : q = l \div e
    BY <1>2, <2>3, Divided
  <2>5. PICK u \in Nat, v \in 0..(d - 1) : u = q \div d /\ v = q % d /\ q = u * d + v
    BY <2>3, Divided
  <2>6. l \div f = u
    <3>1. l \in Nat /\ d \in Positive /\ e \in Positive /\ Multiplies(f, d, e)
      BY <1>2, <2>3 DEF Multiplies
    <3>2. l \div f = (l \div e) \div d
      BY <3>1, DividedTwice
    <3> QED
      BY <2>4, <2>5, <3>2
  <2>7. s[k] = s[k - 1] + x[k] * y[k] /\ s[k - 1] = u * f /\ x[k] = v /\ y[k] = e
    BY <1>3, <1>4, <1>6, <1>8, <2>2, <2>4, <2>5, <2>6 DEF SumsFrom
  <2>8. q * e = u * f + v * e
    <3>1. v \in Nat /\ d \in Nat /\ e \in Nat
      BY <2>3 DEF Positive
    <3>2. u \in Nat
      OBVIOUS
    <3>3. (u * d + v) * e = u * (d * e) + v * e
      BY <3>1, <3>2, Spread
    <3> QED
      BY <2>3, <2>5, <3>3
  <2>9. s[k] = q * e
    BY <2>7, <2>8
  <2> QED
    BY <2>1, <2>2, <2>4, <2>9
<1>9. L \in G
  <2>1. Inductive(G, L)
    <3> HIDE DEF G
    <3> QED
      BY <1>7, <1>8 DEF Inductive
  <2> HIDE DEF G
  <2> QED
    BY <1>2, <2>1, AxisInduction
<1>10. s[L] = l
  <2>1. E(L) = 1 /\ l \div 1 = l /\ l * 1 = l
    BY <1>2, <1>5
  <2> QED
    BY <1>9, <2>1
<1> QED
  BY <1>1, <1>6, <1>10 DEF Linear

(* Positions and elements are one to one.                                  *)
LEMMA LinearStays ==
  ASSUME NEW dims \in Seq(Positive), NEW at, Within(at, dims)
  PROVE  /\ Linear(at, dims) \in 0..(ElementCount(dims) - 1)
         /\ Delinear(Linear(at, dims), dims) = at
<1>1. PICK l \in 0..(ElementCount(dims) - 1) : Delinear(l, dims) = at
  BY DelinearReaches
<1>2. Linear(at, dims) = l
  BY <1>1, LinearReturns
<1> QED
  BY <1>1, <1>2

(***************************************************************************)
(* Four axes.                                                              *)
(***************************************************************************)
LEMMA EntryOf ==
  ASSUME NEW S, NEW s \in Seq(S), NEW k \in 1..Len(s)
  PROVE  s[k] \in S
OBVIOUS

LEMMA DotOfThree ==
  ASSUME NEW x \in Seq(Int), NEW y \in Seq(Int), Len(x) = 3, Len(y) = 3
  PROVE  Dot(x, y) = x[1] * y[1] + x[2] * y[2] + x[3] * y[3]
<1>1. PICK s : SumsFrom(x, y, Len(x), s) /\ Dot(x, y) = s[Len(x)]
  BY DotIs
<1>2. /\ s[0] = 0 /\ s[1] = s[0] + x[1] * y[1] /\ s[2] = s[1] + x[2] * y[2]
      /\ s[3] = s[2] + x[3] * y[3] /\ Dot(x, y) = s[3]
  BY <1>1 DEF SumsFrom
<1>3. PICK a \in Int, b \in Int, c \in Int : a = x[1] * y[1] /\ b = x[2] * y[2] /\ c = x[3] * y[3]
  <2>1. ASSUME NEW k \in 1..3 PROVE x[k] \in Int /\ y[k] \in Int
    <3>1. k \in 1..Len(x) /\ k \in 1..Len(y)
      OBVIOUS
    <3> QED
      BY <3>1, EntryOf
  <2>2. /\ x[1] \in Int /\ x[2] \in Int /\ x[3] \in Int
        /\ y[1] \in Int /\ y[2] \in Int /\ y[3] \in Int
    BY <2>1
  <2> QED
    BY <2>2
<1> QED
  BY <1>2, <1>3

LEMMA DotOfFour ==
  ASSUME NEW x \in Seq(Int), NEW y \in Seq(Int), Len(x) = 4, Len(y) = 4
  PROVE  Dot(x, y) = x[1] * y[1] + x[2] * y[2] + x[3] * y[3] + x[4] * y[4]
<1>1. PICK s : SumsFrom(x, y, Len(x), s) /\ Dot(x, y) = s[Len(x)]
  BY DotIs
<1>2. /\ s[0] = 0 /\ s[1] = s[0] + x[1] * y[1] /\ s[2] = s[1] + x[2] * y[2]
      /\ s[3] = s[2] + x[3] * y[3] /\ s[4] = s[3] + x[4] * y[4] /\ Dot(x, y) = s[4]
  BY <1>1 DEF SumsFrom
<1>3. PICK a \in Int, b \in Int, c \in Int, d \in Int :
        a = x[1] * y[1] /\ b = x[2] * y[2] /\ c = x[3] * y[3] /\ d = x[4] * y[4]
  <2>1. ASSUME NEW k \in 1..4 PROVE x[k] \in Int /\ y[k] \in Int
    <3>1. k \in 1..Len(x) /\ k \in 1..Len(y)
      OBVIOUS
    <3> QED
      BY <3>1, EntryOf
  <2>2. /\ x[1] \in Int /\ x[2] \in Int /\ x[3] \in Int /\ x[4] \in Int
        /\ y[1] \in Int /\ y[2] \in Int /\ y[3] \in Int /\ y[4] \in Int
    BY <2>1
  <2> QED
    BY <2>2
<1> QED
  BY <1>2, <1>3

FourAxes(dims) == dims \in Seq(Positive) /\ Len(dims) = 4
FourEntries(i) == i \in Seq(Int) /\ Len(i) = 4

LEMMA EntriesOfFour ==
  ASSUME NEW i
  PROVE  /\ FourEntries(i) => i[1] \in Int /\ i[2] \in Int /\ i[3] \in Int /\ i[4] \in Int
         /\ FourAxes(i) => /\ i[1] \in Positive /\ i[2] \in Positive
                           /\ i[3] \in Positive /\ i[4] \in Positive
<1>1. ASSUME FourEntries(i) PROVE i[1] \in Int /\ i[2] \in Int /\ i[3] \in Int /\ i[4] \in Int
  <2>1. i \in Seq(Int) /\ 1 \in 1..Len(i) /\ 2 \in 1..Len(i) /\ 3 \in 1..Len(i) /\ 4 \in 1..Len(i)
    BY <1>1 DEF FourEntries
  <2> QED
    BY <2>1, EntryOf
<1>2. ASSUME FourAxes(i)
      PROVE  i[1] \in Positive /\ i[2] \in Positive /\ i[3] \in Positive /\ i[4] \in Positive
  <2>1. /\ i \in Seq(Positive)
        /\ 1 \in 1..Len(i) /\ 2 \in 1..Len(i) /\ 3 \in 1..Len(i) /\ 4 \in 1..Len(i)
    BY <1>2 DEF FourAxes
  <2> QED
    BY <2>1, EntryOf
<1> QED
  BY <1>1, <1>2

LEMMA BehindOfFour ==
  ASSUME NEW dims, FourAxes(dims)
  PROVE  /\ ElementsBehind(dims, 4) = 1 /\ ElementsBehind(dims, 3) = dims[4]
         /\ ElementsBehind(dims, 2) = dims[3] * dims[4]
         /\ ElementsBehind(dims, 1) = dims[2] * (dims[3] * dims[4])
         /\ ElementCount(dims) = dims[1] * (dims[2] * (dims[3] * dims[4]))
<1>1. /\ dims \in Seq(Positive) /\ Len(dims) = 4
      /\ dims[1] \in Int /\ dims[2] \in Int /\ dims[3] \in Int /\ dims[4] \in Int
  BY EntriesOfFour DEF FourAxes, Positive
<1>2. /\ ElementsBehind(dims, Len(dims)) = 1
      /\ \A a \in 1..Len(dims) : ElementsBehind(dims, a - 1) = dims[a] * ElementsBehind(dims, a)
  BY <1>1, BehindSteps
<1>3. /\ ElementsBehind(dims, 4) = 1
      /\ ElementsBehind(dims, 3) = dims[4] * ElementsBehind(dims, 4)
      /\ ElementsBehind(dims, 2) = dims[3] * ElementsBehind(dims, 3)
      /\ ElementsBehind(dims, 1) = dims[2] * ElementsBehind(dims, 2)
      /\ ElementsBehind(dims, 0) = dims[1] * ElementsBehind(dims, 1)
  <2>1. 4 - 1 = 3 /\ 3 - 1 = 2 /\ 2 - 1 = 1 /\ 1 - 1 = 0
    OBVIOUS
  <2> QED
    BY <1>1, <1>2, <2>1
<1>4. dims[4] * 1 = dims[4]
  BY <1>1
<1> QED
  BY <1>3, <1>4 DEF ElementCount

LEMMA LinearOfFour ==
  ASSUME NEW dims, FourAxes(dims), NEW i, FourEntries(i)
  PROVE  Linear(i, dims) = i[1] * (dims[2] * (dims[3] * dims[4])) + i[2] * (dims[3] * dims[4])
                             + i[3] * dims[4] + i[4]
<1>1. PICK y : y = PackedStrides(dims)
  OBVIOUS
<1>2. /\ y \in Seq(Int) /\ Len(y) = 4
      /\ y[1] = ElementsBehind(dims, 1) /\ y[2] = ElementsBehind(dims, 2)
      /\ y[3] = ElementsBehind(dims, 3) /\ y[4] = ElementsBehind(dims, 4)
  BY <1>1, PackedIs DEF FourAxes
<1>3. i \in Seq(Int) /\ Len(i) = 4 /\ i[4] \in Int
  BY EntriesOfFour DEF FourEntries
<1>4. Dot(i, y) = i[1] * y[1] + i[2] * y[2] + i[3] * y[3] + i[4] * y[4]
  BY <1>2, <1>3, DotOfFour
<1>5. i[4] * 1 = i[4]
  BY <1>3
<1> QED
  BY <1>1, <1>2, <1>4, <1>5, BehindOfFour DEF Linear

LEMMA PhysicalIs ==
  ASSUME NEW i
  PROVE  /\ Len(Physical(i)) = 4
         /\ Physical(i)[1] = i[1] /\ Physical(i)[2] = i[3]
         /\ Physical(i)[3] = i[4] /\ Physical(i)[4] = i[2]
         /\ FourEntries(i) => FourEntries(Physical(i))
         /\ FourAxes(i) => FourAxes(Physical(i))
<1>1. FourEntries(i) => FourEntries(Physical(i))
  <2>1. \A a, b, c, d \in Int : FourEntries(<<a, b, c, d>>)
    BY DEF FourEntries
  <2> QED
    BY <2>1, EntriesOfFour DEF Physical
<1>2. FourAxes(i) => FourAxes(Physical(i))
  <2>1. \A a, b, c, d \in Positive : FourAxes(<<a, b, c, d>>)
    BY DEF FourAxes
  <2> QED
    BY <2>1, EntriesOfFour DEF Physical
<1> QED
  BY <1>1, <1>2 DEF Physical

(* The strides of the graph address the elements in address order.         *)
LEMMA PhysicalAddress ==
  ASSUME NEW dims, FourAxes(dims), NEW i, FourEntries(i)
  PROVE  Dot(i, PackedStride(dims)) = Linear(Physical(i), Physical(dims))
<1>1. PICK d1, d2, d3, d4 : d1 = dims[1] /\ d2 = dims[2] /\ d3 = dims[3] /\ d4 = dims[4]
  OBVIOUS
<1>2. d2 \in Positive /\ d3 \in Positive /\ d4 \in Positive
  BY <1>1, EntriesOfFour
<1>3. PICK a, b, c, d : a = i[1] /\ b = i[2] /\ c = i[3] /\ d = i[4]
  OBVIOUS
<1>4. a \in Int /\ b \in Int /\ c \in Int /\ d \in Int
  BY <1>3, EntriesOfFour
<1>5. Linear(Physical(i), Physical(dims)) = a * (d3 * (d4 * d2)) + c * (d4 * d2) + d * d2 + b
  <2>1. FourAxes(Physical(dims)) /\ FourEntries(Physical(i))
    BY PhysicalIs
  <2>2. PICK p, q : p = Physical(i) /\ q = Physical(dims)
    OBVIOUS
  <2>3. Linear(p, q) = p[1] * (q[2] * (q[3] * q[4])) + p[2] * (q[3] * q[4]) + p[3] * q[4] + p[4]
    BY <2>1, <2>2, LinearOfFour
  <2>4. p[1] = a /\ p[2] = c /\ p[3] = d /\ p[4] = b /\ q[2] = d3 /\ q[3] = d4 /\ q[4] = d2
    BY <1>1, <1>3, <2>2, PhysicalIs
  <2> QED
    BY <2>2, <2>3, <2>4
<1>6. Dot(i, PackedStride(dims)) = a * (d2 * d3 * d4) + b + c * (d4 * d2) + d * d2
  <2>1. PICK s : s = PackedStride(dims)
    OBVIOUS
  <2>2. s = <<d2 * d3 * d4, 1, d4 * d2, d2>>
    BY <1>1, <2>1 DEF PackedStride
  <2>3. PICK e \in Int, f \in Int : e = d2 * d3 * d4 /\ f = d4 * d2
    BY <1>2 DEF Positive
  <2>4. s \in Seq(Int) /\ Len(s) = 4 /\ s[1] = e /\ s[2] = 1 /\ s[3] = f /\ s[4] = d2
    BY <1>2, <2>2, <2>3 DEF Positive
  <2>5. Dot(i, s) = i[1] * s[1] + i[2] * s[2] + i[3] * s[3] + i[4] * s[4]
    BY <2>4, DotOfFour DEF FourEntries
  <2>6. b * 1 = b
    BY <1>4
  <2> QED
    BY <1>3, <2>1, <2>3, <2>4, <2>5, <2>6
<1>7. a * (d2 * d3 * d4) = a * (d3 * (d4 * d2))
  BY <1>2, <1>4 DEF Positive
<1>8. PICK t \in Int, u \in Int, v \in Int :
        t = a * (d2 * d3 * d4) /\ u = c * (d4 * d2) /\ v = d * d2
  BY <1>2, <1>4 DEF Positive
<1> QED
  BY <1>4, <1>5, <1>6, <1>7, <1>8

(* The last entry counts elements.                                         *)
LEMMA LaneAddress ==
  ASSUME NEW dims, FourAxes(dims), NEW a \in Int, NEW b \in Int, NEW c \in Int, NEW d \in Int,
         NEW lane \in Int
  PROVE  Linear(<<a, b, c, d>>, dims) + lane = Linear(<<a, b, c, d + lane>>, dims)
<1>1. PICK i, j : i = <<a, b, c, d>> /\ j = <<a, b, c, d + lane>>
  OBVIOUS
<1>2. FourEntries(i) /\ FourEntries(j)
  BY <1>1 DEF FourEntries
<1>3. /\ i[1] = a /\ i[2] = b /\ i[3] = c /\ i[4] = d
      /\ j[1] = a /\ j[2] = b /\ j[3] = c /\ j[4] = d + lane
  BY <1>1
<1>4. dims[2] \in Int /\ dims[3] \in Int /\ dims[4] \in Int
  BY EntriesOfFour DEF Positive
<1>5. PICK t \in Int, u \in Int, v \in Int :
        t = a * (dims[2] * (dims[3] * dims[4])) /\ u = b * (dims[3] * dims[4]) /\ v = c * dims[4]
  BY <1>4
<1>6. Linear(i, dims) = t + u + v + d
  BY <1>2, <1>3, <1>5, LinearOfFour
<1>7. Linear(j, dims) = t + u + v + (d + lane)
  BY <1>2, <1>3, <1>5, LinearOfFour
<1> QED
  BY <1>1, <1>6, <1>7

FirstThree(dims) == SubSeq(dims, 1, 3)

LEMMA FirstThreeIs ==
  ASSUME NEW S, NEW dims \in Seq(S), Len(dims) = 4
  PROVE  /\ FirstThree(dims) \in Seq(S) /\ Len(FirstThree(dims)) = 3
         /\ FirstThree(dims)[1] = dims[1] /\ FirstThree(dims)[2] = dims[2]
         /\ FirstThree(dims)[3] = dims[3]
<1>1. \A k \in 1..3 : dims[k] \in S
  <2>1. \A k \in 1..3 : k \in 1..Len(dims)
    OBVIOUS
  <2> QED
    BY <2>1, EntryOf
<1>2. PICK t : t = SubSeq(dims, 1, 3)
  OBVIOUS
<1>3. /\ t \in Seq(S) /\ Len(t) = 3 - 1 + 1
      /\ \A k \in 1..(3 - 1 + 1) : t[k] = dims[1 + k - 1]
  BY <1>1, <1>2, SubSeqProperties
<1>4. t[1] = dims[1] /\ t[2] = dims[2] /\ t[3] = dims[3]
  BY <1>3
<1> QED
  BY <1>2, <1>3, <1>4 DEF FirstThree

LEMMA BehindOfThree ==
  ASSUME NEW dims \in Seq(Positive), Len(dims) = 3
  PROVE  /\ ElementsBehind(dims, 3) = 1 /\ ElementsBehind(dims, 2) = dims[3]
         /\ ElementsBehind(dims, 1) = dims[2] * dims[3]
         /\ ElementCount(dims) = dims[1] * (dims[2] * dims[3])
<1>1. dims[1] \in Int /\ dims[2] \in Int /\ dims[3] \in Int
  <2>1. 1 \in 1..Len(dims) /\ 2 \in 1..Len(dims) /\ 3 \in 1..Len(dims)
    OBVIOUS
  <2>2. dims[1] \in Positive /\ dims[2] \in Positive /\ dims[3] \in Positive
    BY <2>1, EntryOf
  <2> QED
    BY <2>2 DEF Positive
<1>2. /\ ElementsBehind(dims, Len(dims)) = 1
      /\ \A a \in 1..Len(dims) : ElementsBehind(dims, a - 1) = dims[a] * ElementsBehind(dims, a)
  BY BehindSteps
<1>3. /\ ElementsBehind(dims, 3) = 1
      /\ ElementsBehind(dims, 2) = dims[3] * ElementsBehind(dims, 3)
      /\ ElementsBehind(dims, 1) = dims[2] * ElementsBehind(dims, 2)
      /\ ElementsBehind(dims, 0) = dims[1] * ElementsBehind(dims, 1)
  <2>1. 3 - 1 = 2 /\ 2 - 1 = 1 /\ 1 - 1 = 0
    OBVIOUS
  <2> QED
    BY <1>2, <2>1
<1>4. dims[3] * 1 = dims[3]
  BY <1>1
<1> QED
  BY <1>3, <1>4 DEF ElementCount

LEMMA LinearOfThree ==
  ASSUME NEW dims \in Seq(Positive), Len(dims) = 3, NEW i \in Seq(Int), Len(i) = 3
  PROVE  Linear(i, dims) = i[1] * (dims[2] * dims[3]) + i[2] * dims[3] + i[3]
<1>1. PICK y : y = PackedStrides(dims)
  OBVIOUS
<1>2. /\ y \in Seq(Int) /\ Len(y) = 3
      /\ y[1] = ElementsBehind(dims, 1) /\ y[2] = ElementsBehind(dims, 2)
      /\ y[3] = ElementsBehind(dims, 3)
  BY <1>1, PackedIs
<1>3. Dot(i, y) = i[1] * y[1] + i[2] * y[2] + i[3] * y[3]
  BY <1>2, DotOfThree
<1>4. i[3] * 1 = i[3]
  <2>1. 3 \in 1..Len(i)
    OBVIOUS
  <2>2. i[3] \in Int
    BY <2>1, EntryOf
  <2> QED
    BY <2>2
<1> QED
  BY <1>1, <1>2, <1>3, <1>4, BehindOfThree DEF Linear

(* The rows of the last axis.                                              *)
LEMMA RowAddress ==
  ASSUME NEW dims, FourAxes(dims), NEW i, FourEntries(i)
  PROVE  /\ Linear(i, dims) = Linear(FirstThree(i), FirstThree(dims)) * dims[4] + i[4]
         /\ ElementCount(dims) = ElementCount(FirstThree(dims)) * dims[4]
         /\ ElementCount(FirstThree(dims)) = dims[1] * (dims[2] * dims[3])
<1>1. PICK d1, d2, d3, d4 : d1 = dims[1] /\ d2 = dims[2] /\ d3 = dims[3] /\ d4 = dims[4]
  OBVIOUS
<1>2. d1 \in Positive /\ d2 \in Positive /\ d3 \in Positive /\ d4 \in Positive
  BY <1>1, EntriesOfFour
<1>3. PICK a, b, c, d : a = i[1] /\ b = i[2] /\ c = i[3] /\ d = i[4]
  OBVIOUS
<1>4. a \in Int /\ b \in Int /\ c \in Int /\ d \in Int
  BY <1>3, EntriesOfFour
<1>5. PICK f, g : f = FirstThree(i) /\ g = FirstThree(dims)
  OBVIOUS
<1>6. f \in Seq(Int) /\ Len(f) = 3 /\ f[1] = a /\ f[2] = b /\ f[3] = c
  BY <1>3, <1>5, FirstThreeIs DEF FourEntries
<1>7. g \in Seq(Positive) /\ Len(g) = 3 /\ g[1] = d1 /\ g[2] = d2 /\ g[3] = d3
  BY <1>1, <1>5, FirstThreeIs DEF FourAxes
<1>8. Linear(f, g) = a * (d2 * d3) + b * d3 + c
  BY <1>6, <1>7, LinearOfThree
<1>9. Linear(i, dims) = a * (d2 * (d3 * d4)) + b * (d3 * d4) + c * d4 + d
  BY <1>1, <1>3, LinearOfFour
<1>10. ElementCount(g) = d1 * (d2 * d3) /\ ElementCount(dims) = d1 * (d2 * (d3 * d4))
  BY <1>1, <1>7, BehindOfThree, BehindOfFour
<1>11. (a * (d2 * d3) + b * d3 + c) * d4 = a * (d2 * (d3 * d4)) + b * (d3 * d4) + c * d4
  BY <1>2, <1>4 DEF Positive
<1>12. (d1 * (d2 * d3)) * d4 = d1 * (d2 * (d3 * d4))
  BY <1>2 DEF Positive
<1> QED
  BY <1>1, <1>3, <1>5, <1>8, <1>9, <1>10, <1>11, <1>12

(* What a packed tensor occupies.                                          *)
LEMMA PackedSlots ==
  ASSUME NEW dims, FourAxes(dims)
  PROVE  StorageSlots(dims, PackedStrides(dims)) = ElementCount(dims)
<1>1. PICK d1, d2, d3, d4 : d1 = dims[1] /\ d2 = dims[2] /\ d3 = dims[3] /\ d4 = dims[4]
  OBVIOUS
<1>2. d1 \in Positive /\ d2 \in Positive /\ d3 \in Positive /\ d4 \in Positive
  BY <1>1, EntriesOfFour
<1>3. PICK i : i = [a \in Axes(dims) |-> dims[a] - 1]
  OBVIOUS
<1>4. Axes(dims) = 1..4
  BY DEF FourAxes, Axes
<1>5. FourEntries(i) /\ i[1] = d1 - 1 /\ i[2] = d2 - 1 /\ i[3] = d3 - 1 /\ i[4] = d4 - 1
  <2>1. dims[1] - 1 \in Int /\ dims[2] - 1 \in Int /\ dims[3] - 1 \in Int /\ dims[4] - 1 \in Int
    BY EntriesOfFour DEF Positive
  <2>2. \A a \in 1..4 : a = 1 \/ a = 2 \/ a = 3 \/ a = 4
    OBVIOUS
  <2>3. \A a \in 1..4 : dims[a] - 1 \in Int
    BY <2>1, <2>2
  <2>4. i \in Seq(Int) /\ Len(i) = 4 /\ \A a \in 1..4 : i[a] = dims[a] - 1
    BY <1>3, <1>4, <2>3
  <2> QED
    BY <1>1, <2>4 DEF FourEntries
<1>6. Linear(i, dims) = (d1 - 1) * (d2 * (d3 * d4)) + (d2 - 1) * (d3 * d4)
                        + (d3 - 1) * d4 + (d4 - 1)
  BY <1>1, <1>5, LinearOfFour
<1>7. StorageSlots(dims, PackedStrides(dims)) = 1 + Linear(i, dims)
  BY <1>3 DEF StorageSlots, Linear
<1>8. /\ (d1 - 1) * (d2 * (d3 * d4)) = d1 * (d2 * (d3 * d4)) - d2 * (d3 * d4)
      /\ (d2 - 1) * (d3 * d4) = d2 * (d3 * d4) - d3 * d4
      /\ (d3 - 1) * d4 = d3 * d4 - d4
  BY <1>2 DEF Positive
<1>9. PICK t \in Int, u \in Int, v \in Int :
        t = d1 * (d2 * (d3 * d4)) /\ u = d2 * (d3 * d4) /\ v = d3 * d4
  BY <1>2 DEF Positive
<1>10. 1 + Linear(i, dims) = t
  <2>1. PICK n : n = Linear(i, dims)
    OBVIOUS
  <2>2. n = (t - u) + (u - v) + (v - d4) + (d4 - 1)
    BY <1>6, <1>8, <1>9, <2>1
  <2>3. d4 \in Int
    BY <1>2 DEF Positive
  <2>4. 1 + n = t
    BY <2>2, <2>3
  <2> QED
    BY <2>1, <2>4
<1> QED
  BY <1>1, <1>7, <1>9, <1>10, BehindOfFour

(***************************************************************************)
(* Channels, and the loads of a reduction.                                 *)
(***************************************************************************)
(* Channels c from which width lanes are loaded, the ones loaded alone,    *)
(* and the lanes of both.                                                  *)
WholeVectors(c, width) == (c \div width) * width
Firsts(c, width) == {k \in 0..(WholeVectors(c, width) - 1) : k % width = 0}
Tails(c, width) == WholeVectors(c, width)..(c - 1)
Lanes(c, width) ==
       {<<k, lane>> : k \in Firsts(c, width), lane \in 0..(width - 1)}
  \cup {<<k, 0>> : k \in Tails(c, width)}

LEMMA WholeFits ==
  ASSUME NEW c \in Nat, NEW width \in Positive
  PROVE  \E blocks \in Nat, rest \in 0..(width - 1) :
           /\ blocks = c \div width /\ rest = c % width
           /\ WholeVectors(c, width) = InGroup(blocks, width, 0)
           /\ WholeVectors(c, width) \in Nat /\ c = WholeVectors(c, width) + rest
<1>1. PICK q \in Nat, r \in 0..(width - 1) : q = c \div width /\ r = c % width /\ c = q * width + r
  BY Divided
<1>2. PICK t \in Nat : t = q * width
  BY <1>1 DEF Positive
<1>3. WholeVectors(c, width) = t
  BY <1>1, <1>2 DEF WholeVectors
<1>4. InGroup(q, width, 0) = t
  <2>1. q * width + 0 = t
    BY <1>2
  <2> QED
    BY <2>1 DEF InGroup
<1> QED
  BY <1>1, <1>2, <1>3, <1>4

LEMMA FirstsAre ==
  ASSUME NEW c \in Nat, NEW width \in Positive, NEW blocks \in Nat, blocks = c \div width
  PROVE  /\ \A k \in Firsts(c, width) : \E j \in 0..(blocks - 1) : k = InGroup(j, width, 0)
         /\ \A j \in 0..(blocks - 1), lane \in 0..(width - 1) :
              /\ InGroup(j, width, 0) \in Firsts(c, width)
              /\ InGroup(j, width, lane) = InGroup(j, width, 0) + lane
              /\ InGroup(j, width, lane) \in 0..(WholeVectors(c, width) - 1)
<1>1. WholeVectors(c, width) = blocks * width
  BY DEF WholeVectors
<1>2. ASSUME NEW k \in Firsts(c, width)
      PROVE  \E j \in 0..(blocks - 1) : k = InGroup(j, width, 0)
  <2>1. k \in 0..(blocks * width - 1)
    BY <1>1 DEF Firsts
  <2>2. blocks # 0
    <3>1. blocks = 0 => blocks * width = 0
      BY DEF Positive
    <3> QED
      BY <2>1, <3>1
  <2>3. blocks \in Positive
    BY <2>2 DEF Positive
  <2>4. /\ k \div width \in 0..(blocks - 1)
        /\ InGroup(k \div width, width, k % width) = k
    BY <2>1, <2>3, GroupFits
  <2>5. k % width = 0
    BY DEF Firsts
  <2> QED
    BY <2>4, <2>5
<1>3. ASSUME NEW j \in 0..(blocks - 1), NEW lane \in 0..(width - 1)
      PROVE  /\ InGroup(j, width, 0) \in Firsts(c, width)
             /\ InGroup(j, width, lane) = InGroup(j, width, 0) + lane
             /\ InGroup(j, width, lane) \in 0..(WholeVectors(c, width) - 1)
  <2>1. blocks \in Positive /\ j \in Nat /\ 0 \in 0..(width - 1)
    BY DEF Positive
  <2>2. /\ InGroup(j, width, lane) \in 0..(blocks * width - 1)
        /\ InGroup(j, width, 0) \in 0..(blocks * width - 1)
    BY <2>1, ChannelFits
  <2>3. InGroup(j, width, 0) % width = 0
    BY <2>1, GroupOf
  <2>4. PICK t \in Nat : t = j * width
    BY <2>1 DEF Positive
  <2>5. InGroup(j, width, lane) = InGroup(j, width, 0) + lane
    BY <2>4 DEF InGroup, Positive
  <2> QED
    BY <1>1, <2>2, <2>3, <2>5 DEF Firsts
<1> QED
  BY <1>2, <1>3

LEMMA FirstsCount ==
  ASSUME NEW c \in Nat, NEW width \in Positive
  PROVE  /\ Cardinality(Firsts(c, width)) = c \div width
         /\ Cardinality(Tails(c, width)) = c % width
<1>1. PICK blocks \in Nat, rest \in 0..(width - 1) :
        /\ blocks = c \div width /\ rest = c % width
        /\ WholeVectors(c, width) \in Nat /\ c = WholeVectors(c, width) + rest
  BY WholeFits
<1>2. Cardinality(Tails(c, width)) = rest
  <2>1. PICK w \in Nat : w = WholeVectors(c, width)
    BY <1>1
  <2>2. Cardinality(w..(c - 1)) = IF w > c - 1 THEN 0 ELSE (c - 1) - w + 1
    BY FS_Interval
  <2> QED
    BY <1>1, <2>1, <2>2 DEF Tails, Positive
<1> DEFINE S == 0..(blocks - 1)
           T == Firsts(c, width)
           f == [j \in S |-> InGroup(j, width, 0)]
<1>3. IsFiniteSet(S) /\ Cardinality(S) = blocks
  BY FS_Interval
<1>4. \A j \in S : InGroup(j, width, 0) \in T
  <2>1. 0 \in 0..(width - 1)
    BY DEF Positive
  <2> QED
    BY <1>1, <2>1, FirstsAre
<1>5. \A k \in T : \E j \in S : k = InGroup(j, width, 0)
  BY <1>1, FirstsAre
<1>6. ASSUME NEW j \in S, NEW k \in S, InGroup(j, width, 0) = InGroup(k, width, 0) PROVE j = k
  <2>1. j \in Nat /\ k \in Nat /\ 0 \in 0..(width - 1)
    BY DEF Positive
  <2>2. InGroup(j, width, 0) \div width = j /\ InGroup(k, width, 0) \div width = k
    BY <2>1, GroupOf
  <2> QED
    BY <1>6, <2>2
<1> HIDE DEF S, T
<1>7. f \in Bijection(S, T)
  <2>1. f \in [S -> T]
    BY <1>4
  <2>2. \A j, k \in S : f[j] = f[k] => j = k
    BY <1>6
  <2>3. \A k \in T : \E j \in S : f[j] = k
    BY <1>5
  <2> HIDE DEF f
  <2> QED
    BY <2>1, <2>2, <2>3 DEF Bijection, Injection, Surjection, IsInjective
<1>8. ExistsBijection(S, T)
  BY <1>7 DEF ExistsBijection
<1>9. Cardinality(T) = Cardinality(S)
  BY <1>3, <1>8, FS_Bijection
<1> QED
  BY <1>1, <1>2, <1>3, <1>9 DEF T

Channel(p) == p[1] + p[2]

(* Each channel is loaded in one lane.                                     *)
LEMMA LaneIs ==
  ASSUME NEW c \in Nat, NEW width \in Positive, NEW blocks \in Nat, blocks = c \div width,
         NEW p \in Lanes(c, width)
  PROVE  /\ p[1] \in Nat /\ p[2] \in Nat /\ p = <<p[1], p[2]>>
         /\ \/ /\ \E j \in 0..(blocks - 1) :
                    p[1] = InGroup(j, width, 0) /\ Channel(p) = InGroup(j, width, p[2])
               /\ p[2] \in 0..(width - 1)
               /\ Channel(p) \in 0..(WholeVectors(c, width) - 1)
            \/ p[2] = 0 /\ Channel(p) = p[1] /\ p[1] \in WholeVectors(c, width)..(c - 1)
<1>1. PICK w \in Nat : w = WholeVectors(c, width)
  BY WholeFits
<1>2. CASE \E k \in Firsts(c, width), lane \in 0..(width - 1) : p = <<k, lane>>
  <2>1. PICK k \in Firsts(c, width), lane \in 0..(width - 1) : p = <<k, lane>>
    BY <1>2
  <2>2. PICK j \in 0..(blocks - 1) : k = InGroup(j, width, 0)
    BY FirstsAre
  <2>3. k \in 0..(w - 1)
    BY <1>1 DEF Firsts
  <2>4. p[1] = k /\ p[2] = lane /\ lane \in Nat
    BY <2>1 DEF Positive
  <2>5. InGroup(j, width, lane) = k + lane /\ InGroup(j, width, lane) \in 0..(w - 1)
    BY <1>1, <2>2, FirstsAre
  <2> QED
    BY <1>1, <2>1, <2>2, <2>3, <2>4, <2>5 DEF Channel
<1>3. CASE \E k \in Tails(c, width) : p = <<k, 0>>
  <2>1. PICK k \in Tails(c, width) : p = <<k, 0>>
    BY <1>3
  <2>2. k \in w..(c - 1) /\ p[1] = k /\ p[2] = 0
    BY <1>1, <2>1 DEF Tails
  <2> QED
    BY <1>1, <2>1, <2>2 DEF Channel
<1> QED
  BY <1>2, <1>3 DEF Lanes

LEMMA LanesCover ==
  ASSUME NEW c \in Nat, NEW width \in Positive
  PROVE  /\ \A p \in Lanes(c, width) :
              p[1] \in Nat /\ p[2] \in Nat /\ p = <<p[1], p[2]>> /\ Channel(p) \in 0..(c - 1)
         /\ \A k \in 0..(c - 1) : \E p \in Lanes(c, width) : Channel(p) = k
         /\ \A p, q \in Lanes(c, width) : Channel(p) = Channel(q) => p = q
<1>1. PICK blocks \in Nat, rest \in 0..(width - 1) :
        blocks = c \div width /\ rest = c % width /\ c = WholeVectors(c, width) + rest
        /\ WholeVectors(c, width) = InGroup(blocks, width, 0)
  BY WholeFits
<1>2. PICK w \in Nat : w = WholeVectors(c, width) /\ w <= c
  BY <1>1, WholeFits
<1>3. ASSUME NEW p \in Lanes(c, width)
      PROVE  p[1] \in Nat /\ p[2] \in Nat /\ p = <<p[1], p[2]>> /\ Channel(p) \in 0..(c - 1)
  <2>1. /\ p[1] \in Nat /\ p[2] \in Nat /\ p = <<p[1], p[2]>>
        /\ \/ Channel(p) \in 0..(WholeVectors(c, width) - 1)
           \/ Channel(p) = p[1] /\ p[1] \in WholeVectors(c, width)..(c - 1)
    BY <1>1, LaneIs
  <2> QED
    BY <1>2, <2>1
<1>4. ASSUME NEW k \in 0..(c - 1) PROVE \E p \in Lanes(c, width) : Channel(p) = k
  <2>1. CASE k < w
    <3>1. blocks * width = w
      BY <1>1, <1>2 DEF WholeVectors
    <3>2. blocks # 0
      <4>1. blocks = 0 => blocks * width = 0
        BY DEF Positive
      <4> QED
        BY <2>1, <3>1, <4>1
    <3>3. blocks \in Positive /\ k \in 0..(blocks * width - 1)
      BY <2>1, <3>1, <3>2 DEF Positive
    <3>4. PICK j, lane : j = k \div width /\ lane = k % width
      OBVIOUS
    <3>5. j \in 0..(blocks - 1) /\ lane \in 0..(width - 1) /\ InGroup(j, width, lane) = k
      BY <3>3, <3>4, GroupFits
    <3>6. PICK first : first = InGroup(j, width, 0)
      OBVIOUS
    <3>7. first \in Firsts(c, width) /\ first + lane = k
      BY <1>1, <3>5, <3>6, FirstsAre
    <3>8. <<first, lane>> \in Lanes(c, width)
      BY <3>5, <3>7 DEF Lanes
    <3> QED
      BY <3>7, <3>8 DEF Channel
  <2>2. CASE ~ (k < w)
    <3>1. k \in Tails(c, width) /\ k + 0 = k
      BY <1>2, <2>2 DEF Tails
    <3>2. <<k, 0>> \in Lanes(c, width)
      BY <3>1 DEF Lanes
    <3> QED
      BY <3>1, <3>2 DEF Channel
  <2> QED
    BY <2>1, <2>2
<1>5. ASSUME NEW p \in Lanes(c, width), NEW q \in Lanes(c, width), Channel(p) = Channel(q)
      PROVE  p = q
  <2> DEFINE InVector(t) ==
               /\ \E j \in 0..(blocks - 1) :
                    t[1] = InGroup(j, width, 0) /\ Channel(t) = InGroup(j, width, t[2])
               /\ t[2] \in 0..(width - 1)
               /\ Channel(t) \in 0..(w - 1)
             Alone(t) == t[2] = 0 /\ Channel(t) = t[1] /\ t[1] \in w..(c - 1)
  <2>1. p = <<p[1], p[2]>> /\ (InVector(p) \/ Alone(p))
    BY <1>1, <1>2, LaneIs
  <2>2. q = <<q[1], q[2]>> /\ (InVector(q) \/ Alone(q))
    BY <1>1, <1>2, LaneIs
  <2>3. CASE InVector(p) /\ InVector(q)
    <3>1. PICK i \in 0..(blocks - 1) :
            p[1] = InGroup(i, width, 0) /\ Channel(p) = InGroup(i, width, p[2])
      BY <2>3
    <3>2. PICK j \in 0..(blocks - 1) :
            q[1] = InGroup(j, width, 0) /\ Channel(q) = InGroup(j, width, q[2])
      BY <2>3
    <3>3. i \in Nat /\ j \in Nat /\ p[2] \in 0..(width - 1) /\ q[2] \in 0..(width - 1)
      BY <2>3
    <3>4. /\ InGroup(i, width, p[2]) \div width = i /\ InGroup(i, width, p[2]) % width = p[2]
          /\ InGroup(j, width, q[2]) \div width = j /\ InGroup(j, width, q[2]) % width = q[2]
      BY <3>3, GroupOf
    <3>5. i = j /\ p[2] = q[2]
      BY <1>5, <3>1, <3>2, <3>4
    <3> QED
      BY <2>1, <2>2, <3>1, <3>2, <3>5
  <2>4. CASE Alone(p) /\ Alone(q)
    BY <1>5, <2>1, <2>2, <2>4
  <2>5. \A a \in 0..(w - 1), b \in w..(c - 1) : a # b
    BY <1>2
  <2>6. ~ (InVector(p) /\ Alone(q))
    BY <1>5, <2>5
  <2>7. ~ (Alone(p) /\ InVector(q))
    BY <1>5, <2>5
  <2> HIDE DEF InVector, Alone
  <2> QED
    BY <2>1, <2>2, <2>3, <2>4, <2>6, <2>7
<1> QED
  BY <1>3, <1>4, <1>5

(***************************************************************************)
(* Graphs that are accepted, and their schedules.                          *)
(***************************************************************************)
Dims(g, role) == Tensor(g, role).dims

GraphFits(g) ==
  /\ \A role \in 1..3 : /\ FourAxes(Dims(g, role))
                        /\ Tensor(g, role).strides = PackedStride(Dims(g, role))
  /\ Dims(g, 1)[2] = Dims(g, 2)[2] /\ Dims(g, 3)[1] = Dims(g, 1)[1]
  /\ Dims(g, 3)[2] = Dims(g, 2)[1]
  /\ g.pre \in Seq(Nat) /\ g.post \in Seq(Nat) /\ Len(g.pre) = 2 /\ Len(g.post) = 2
  /\ \A s \in 1..2 :
       Dims(g, 3)[s + 2] = (Dims(g, 1)[s + 2] + g.pre[s] + g.post[s]) - Dims(g, 2)[s + 2] + 1

LEMMA ListOf ==
  ASSUME NEW n \in Nat, NEW S, NEW f \in [1..n -> S]
  PROVE  f \in Seq(S) /\ Len(f) = n
OBVIOUS

LEMMA DimsFit ==
  ASSUME NEW d \in Seq(Int), Len(d) = 4, \A a \in 1..4 : d[a] > 0
  PROVE  FourAxes(d)
<1>1. \A a \in 1..4 : d[a] \in Positive
  <2>1. \A a \in 1..4 : a \in 1..Len(d)
    OBVIOUS
  <2>2. \A a \in 1..4 : d[a] \in Int
    BY <2>1, EntryOf
  <2> QED
    BY <2>2 DEF Positive
<1>2. d = [a \in 1..4 |-> d[a]]
  BY LenProperties
<1>3. d \in Seq(Positive)
  BY <1>1, <1>2
<1> QED
  BY <1>3 DEF FourAxes

LEMMA PaddingFits ==
  ASSUME NEW p \in Seq(Int), Len(p) = 2, \A s \in 1..2 : p[s] >= 0
  PROVE  p \in Seq(Nat)
<1>1. \A s \in 1..2 : p[s] \in Nat
  <2>1. \A s \in 1..2 : s \in 1..Len(p)
    OBVIOUS
  <2>2. \A s \in 1..2 : p[s] \in Int
    BY <2>1, EntryOf
  <2> QED
    BY <2>2
<1>2. p = [s \in 1..2 |-> p[s]]
  BY LenProperties
<1> QED
  BY <1>1, <1>2

LEMMA GraphOfValid ==
  ASSUME GraphsWellFormed, NEW g \in DirectGraphs, ValidCanonicalModel(g)
  PROVE  GraphFits(g)
<1>1. ASSUME NEW role \in 1..3
      PROVE  /\ FourAxes(Dims(g, role))
             /\ Tensor(g, role).strides = PackedStride(Dims(g, role))
  <2>1. g.uids[role] \in DOMAIN g.tensors
    <3>1. role \in 1..Len(g.uids)
      BY DEF GraphsWellFormed
    <3>2. g.uids[role] \in Items(g.uids)
      BY <3>1 DEF Items
    <3> QED
      BY <3>2 DEF ValidCanonicalModel
  <2>2. PICK t : t = Tensor(g, role)
    OBVIOUS
  <2>3. t.dims \in Seq(Int)
    BY <2>1, <2>2 DEF GraphsWellFormed, Tensor
  <2>4. Len(t.dims) = 4 /\ \A a \in 1..4 : t.dims[a] > 0
    BY <2>1, <2>2 DEF ValidCanonicalModel, Tensor
  <2>5. FourAxes(t.dims)
    BY <2>3, <2>4, DimsFit
  <2>6. t.strides = PackedStride(t.dims)
    BY <2>2 DEF ValidCanonicalModel
  <2> QED
    BY <2>2, <2>5, <2>6 DEF Dims
<1>2. /\ Dims(g, 1)[2] = Dims(g, 2)[2] /\ Dims(g, 3)[1] = Dims(g, 1)[1]
      /\ Dims(g, 3)[2] = Dims(g, 2)[1]
  BY DEF ValidCanonicalModel, Dims
<1>3. g.pre \in Seq(Nat) /\ g.post \in Seq(Nat) /\ Len(g.pre) = 2 /\ Len(g.post) = 2
  <2>1. g.pre \in Seq(Int) /\ g.post \in Seq(Int) /\ Len(g.pre) = 2 /\ Len(g.post) = 2
    BY DEF GraphsWellFormed
  <2>2. \A s \in 1..2 : g.pre[s] >= 0 /\ g.post[s] >= 0
    BY DEF ValidCanonicalModel
  <2> QED
    BY <2>1, <2>2, PaddingFits
<1>4. ASSUME NEW s \in 1..2
      PROVE  Dims(g, 3)[s + 2] = (Dims(g, 1)[s + 2] + g.pre[s] + g.post[s]) - Dims(g, 2)[s + 2] + 1
  <2>1. OutputExtentFits(g, s)
    BY DEF ValidCanonicalModel
  <2> QED
    BY <2>1 DEF OutputExtentFits, Dims
<1> QED
  BY <1>1, <1>2, <1>3, <1>4 DEF GraphFits

LEMMA PaddingIs ==
  ASSUME NEW g, GraphFits(g)
  PROVE  g.pre[1] \in Nat /\ g.pre[2] \in Nat /\ g.post[1] \in Nat /\ g.post[2] \in Nat
<1>1. /\ g.pre \in Seq(Nat) /\ g.post \in Seq(Nat)
      /\ 1 \in 1..Len(g.pre) /\ 2 \in 1..Len(g.pre) /\ 1 \in 1..Len(g.post) /\ 2 \in 1..Len(g.post)
  BY DEF GraphFits
<1> QED
  BY <1>1, EntryOf

LEMMA ShapesAre ==
  ASSUME NEW g, GraphFits(g)
  PROVE  LET m == MetadataOf(g)
             x == Dims(g, 1)
             w == Dims(g, 2)
             y == Dims(g, 3)
         IN /\ FourAxes(x) /\ FourAxes(w) /\ FourAxes(y)
            /\ FourAxes(m.x) /\ FourAxes(m.w) /\ FourAxes(m.y) /\ FourAxes(m.padded)
            /\ m.x = Physical(x) /\ m.w = Physical(w) /\ m.y = Physical(y)
            /\ m.padded[1] = m.x[1] /\ m.padded[4] = m.x[4]
            /\ m.padded[2] = m.x[2] + g.pre[1] + g.post[1]
            /\ m.padded[3] = m.x[3] + g.pre[2] + g.post[2]
            /\ m.w[4] = m.x[4] /\ m.y[1] = m.x[1] /\ m.y[4] = m.w[1]
            /\ m.y[2] = m.padded[2] - m.w[2] + 1
            /\ m.y[3] = m.padded[3] - m.w[3] + 1
<1>1. PICK m, x, w, y : m = MetadataOf(g) /\ x = Dims(g, 1) /\ w = Dims(g, 2) /\ y = Dims(g, 3)
  OBVIOUS
<1>2. FourAxes(x) /\ FourAxes(w) /\ FourAxes(y)
  BY <1>1 DEF GraphFits
<1>3. m.x = Physical(x) /\ m.w = Physical(w) /\ m.y = Physical(y) /\ m.padded = PaddedShape(g)
  BY <1>1 DEF MetadataOf, Dims
<1>4. FourAxes(m.x) /\ FourAxes(m.w) /\ FourAxes(m.y)
  BY <1>2, <1>3, PhysicalIs
<1>5. /\ m.x[1] = x[1] /\ m.x[2] = x[3] /\ m.x[3] = x[4] /\ m.x[4] = x[2]
      /\ m.w[1] = w[1] /\ m.w[2] = w[3] /\ m.w[3] = w[4] /\ m.w[4] = w[2]
      /\ m.y[1] = y[1] /\ m.y[2] = y[3] /\ m.y[3] = y[4] /\ m.y[4] = y[2]
  BY <1>3, PhysicalIs
<1>6. PICK p : p = m.padded
  OBVIOUS
<1>7. PICK h, v : h = m.x[2] + g.pre[1] + g.post[1] /\ v = m.x[3] + g.pre[2] + g.post[2]
  OBVIOUS
<1>8. h \in Positive /\ v \in Positive
  <2>1. m.x[2] \in Positive /\ m.x[3] \in Positive
    BY <1>4, EntriesOfFour
  <2> QED
    BY <1>7, <2>1, PaddingIs DEF Positive
<1>9. p = [m.x EXCEPT ![2] = h, ![3] = v]
  BY <1>1, <1>3, <1>6, <1>7 DEF PaddedShape, Dims
<1>10. FourAxes(p) /\ p[1] = m.x[1] /\ p[2] = h /\ p[3] = v /\ p[4] = m.x[4]
  <2>1. PICK d : d = m.x
    OBVIOUS
  <2>2. d \in [1..4 -> Positive]
    BY <1>4, <2>1, LenProperties DEF FourAxes
  <2>3. /\ p \in [1..4 -> Positive] /\ p[1] = d[1] /\ p[2] = h /\ p[3] = v /\ p[4] = d[4]
    BY <1>8, <1>9, <2>1, <2>2
  <2>4. p \in Seq(Positive) /\ Len(p) = 4
    <3>1. 4 \in Nat /\ p \in [1..4 -> Positive]
      BY <2>3
    <3> QED
      BY <3>1, ListOf
  <2> QED
    BY <2>1, <2>3, <2>4 DEF FourAxes
<1>11. /\ x[2] = w[2] /\ y[1] = x[1] /\ y[2] = w[1]
       /\ y[3] = (x[3] + g.pre[1] + g.post[1]) - w[3] + 1
       /\ y[4] = (x[4] + g.pre[2] + g.post[2]) - w[4] + 1
  <2>1. /\ x[2] = w[2] /\ y[1] = x[1] /\ y[2] = w[1]
        /\ y[1 + 2] = (x[1 + 2] + g.pre[1] + g.post[1]) - w[1 + 2] + 1
        /\ y[2 + 2] = (x[2 + 2] + g.pre[2] + g.post[2]) - w[2 + 2] + 1
    BY <1>1 DEF GraphFits
  <2>2. 1 + 2 = 3 /\ 2 + 2 = 4
    OBVIOUS
  <2> QED
    BY <2>1, <2>2
<1>12. /\ m.padded[1] = m.x[1] /\ m.padded[4] = m.x[4]
       /\ m.padded[2] = m.x[2] + g.pre[1] + g.post[1]
       /\ m.padded[3] = m.x[3] + g.pre[2] + g.post[2]
       /\ FourAxes(m.padded)
  BY <1>6, <1>7, <1>10
<1>13. m.w[4] = m.x[4] /\ m.y[1] = m.x[1] /\ m.y[4] = m.w[1]
  BY <1>5, <1>11
<1>14. m.y[2] = m.padded[2] - m.w[2] + 1 /\ m.y[3] = m.padded[3] - m.w[3] + 1
  BY <1>5, <1>11, <1>12
<1> QED
  BY <1>1, <1>2, <1>3, <1>4, <1>12, <1>13, <1>14

LEMMA Monotone ==
  ASSUME NEW a \in Nat, NEW b \in Nat, NEW c \in Nat, a <= b
  PROVE  a * c \in Nat /\ b * c \in Nat /\ a * c <= b * c /\ c * a <= c * b
<1>1. PICK j \in Nat : b = a + j
  <2>1. b - a \in Nat /\ b = a + (b - a)
    OBVIOUS
  <2> QED
    BY <2>1
<1>2. b * c = a * c + j * c /\ c * b = c * a + c * j
  BY <1>1
<1>3. PICK t \in Nat, u \in Nat : t = a * c /\ u = j * c
  BY <1>1
<1>4. c * a = t /\ c * j = u
  BY <1>3
<1> QED
  BY <1>2, <1>3, <1>4

(* The loads of one operand for an output.                                 *)
LoadSteps(m, width) == (m.w[2] * m.w[3]) * ((m.w[4] \div width) + (m.w[4] % width))
BlocksOf(k, unroll) == (k \div unroll) + (k % unroll)

LEMMA BlocksFit ==
  ASSUME NEW k \in Nat, NEW unroll \in Positive
  PROVE  BlocksOf(k, unroll) \in 0..k
<1>1. PICK q \in Nat, r \in 0..(unroll - 1) :
        q = k \div unroll /\ r = k % unroll /\ k = q * unroll + r
  BY Divided
<1>2. PICK j \in Nat : unroll = j + 1
  <2>1. unroll - 1 \in Nat /\ unroll = (unroll - 1) + 1
    BY DEF Positive
  <2> QED
    BY <2>1
<1>3. q * (j + 1) = q * j + q
  OBVIOUS
<1>4. PICK t \in Nat : t = q * j
  BY <1>1, <1>2
<1> QED
  BY <1>1, <1>2, <1>3, <1>4 DEF BlocksOf

LEMMA StepsFit ==
  ASSUME NEW k \in Positive, NEW r \in Positive, NEW s \in Positive, NEW c \in Positive,
         NEW n \in 0..c, NEW most \in Nat, k * (r * (s * c)) <= most
  PROVE  r * s <= most /\ (r * s) * n \in Nat /\ (r * s) * n <= most
         /\ \A b \in 0..k : b * ((r * s) * n) \in Nat /\ b * ((r * s) * n) <= most
<1>1. PICK t \in Nat : t = r * s
  BY DEF Positive
<1>2. PICK u \in Nat : u = t * c
  BY <1>1 DEF Positive
<1>3. k * (r * (s * c)) = k * u
  <2>1. r * (s * c) = (r * s) * c
    BY DEF Positive
  <2> QED
    BY <1>1, <1>2, <2>1
<1>4. t * n \in Nat /\ t * n <= u
  BY <1>1, <1>2, Monotone DEF Positive
<1>5. t <= u /\ u <= k * u /\ k * u \in Nat
  <2>1. 1 <= c /\ 1 <= k /\ c \in Nat /\ k \in Nat
    BY DEF Positive
  <2>2. t * 1 <= t * c /\ 1 * u <= k * u /\ k * u \in Nat
    BY <1>1, <1>2, <2>1, Monotone
  <2> QED
    BY <1>1, <1>2, <2>2
<1>6. PICK v \in Nat : v = t * n
  BY <1>4
<1>7. k * v <= k * u /\ k * v \in Nat
  BY <1>2, <1>4, <1>6, Monotone DEF Positive
<1>8. PICK ku \in Nat, kv \in Nat : ku = k * u /\ kv = k * v
  BY <1>5, <1>7
<1>9. ku <= most
  BY <1>3, <1>8
<1>10. ASSUME NEW b \in 0..k PROVE b * v \in Nat /\ b * v <= most
  <2>1. b * v \in Nat /\ b * v <= k * v
    BY <1>6, Monotone DEF Positive
  <2>2. PICK bv \in Nat : bv = b * v
    BY <2>1
  <2> QED
    BY <1>7, <1>8, <1>9, <2>1, <2>2
<1> QED
  BY <1>1, <1>2, <1>4, <1>5, <1>6, <1>8, <1>9, <1>10

(* A schedule whose cost is counted exactly.                               *)
ScheduleFits(m, v, s) ==
  /\ v \in {"scalar", "avx2", "avx512"}
  /\ s.width = VectorWidth[v] /\ s.width \in Positive
  /\ s.unroll \in Positive /\ s.unroll <= m.y[4]
  /\ v = "scalar" => s.unroll = 1 /\ s.width = 1
  /\ v # "scalar" => s.width > 1
  /\ s.inputLoads = BlocksOf(m.y[4], s.unroll) * LoadSteps(m, s.width)
  /\ s.weightLoads = m.y[4] * LoadSteps(m, s.width)

LEMMA CandidateFits ==
  ASSUME NEW g, GraphFits(g), MetadataFits(MetadataOf(g)),
         NEW width \in Positive, NEW b \in 0..MetadataOf(g).y[4]
  PROVE  LET m == MetadataOf(g)
         IN /\ LoadSteps(m, width) \in Nat
            /\ ReductionLoadSteps(m, width) = LoadSteps(m, width)
            /\ Saturated(b * LoadSteps(m, width)) = b * LoadSteps(m, width)
<1>1. PICK m : m = MetadataOf(g)
  OBVIOUS
<1>2. FourAxes(m.w) /\ m.y[4] = m.w[1]
  BY <1>1, ShapesAre
<1>3. PICK k, r, s, c : k = m.w[1] /\ r = m.w[2] /\ s = m.w[3] /\ c = m.w[4]
  OBVIOUS
<1>4. k \in Positive /\ r \in Positive /\ s \in Positive /\ c \in Positive
  BY <1>2, <1>3, EntriesOfFour
<1>5. k * (r * (s * c)) <= MaxU64
  <2>1. StorageSlots(m.w, PackedStrides(m.w)) <= MaxU64
    BY <1>1 DEF MetadataFits, HasStorage
  <2> QED
    BY <1>2, <1>3, <2>1, PackedSlots, BehindOfFour
<1>6. PICK n : n = BlocksOf(c, width)
  OBVIOUS
<1>7. n \in 0..c
  BY <1>4, <1>6, BlocksFit DEF Positive
<1>8. /\ r * s <= MaxU64 /\ (r * s) * n \in Nat /\ (r * s) * n <= MaxU64
      /\ \A e \in 0..k : e * ((r * s) * n) \in Nat /\ e * ((r * s) * n) <= MaxU64
  BY <1>4, <1>5, <1>7, MaxU64Assumption, StepsFit
<1>9. LoadSteps(m, width) = (r * s) * n
  BY <1>3, <1>6 DEF LoadSteps, BlocksOf
<1>10. \A t \in Nat : t <= MaxU64 => Saturated(t) = t
  BY MaxU64Assumption DEF Saturated
<1>11. ReductionLoadSteps(m, width) = (r * s) * n
  <2>1. r * s \in Nat
    BY <1>4 DEF Positive
  <2>2. Saturated(r * s) = r * s
    BY <1>8, <1>10, <2>1
  <2>3. Saturated((r * s) * n) = (r * s) * n
    BY <1>8, <1>10
  <2>4. ReductionLoadSteps(m, width) = Saturated(Saturated(r * s) * n)
    BY <1>3, <1>6 DEF ReductionLoadSteps, BlocksOf
  <2> QED
    BY <2>2, <2>3, <2>4
<1>12. Saturated(b * LoadSteps(m, width)) = b * LoadSteps(m, width)
  <2>1. b \in 0..k
    BY <1>1, <1>2, <1>3
  <2>2. PICK t : t = (r * s) * n
    OBVIOUS
  <2>3. b * t \in Nat /\ b * t <= MaxU64
    BY <1>8, <2>1, <2>2
  <2>4. Saturated(b * t) = b * t
    BY <1>10, <2>3
  <2> QED
    BY <1>9, <2>2, <2>4
<1> QED
  BY <1>1, <1>8, <1>9, <1>11, <1>12

(* Whatever the scores, a candidate is chosen that fits the target.        *)
IsCandidate(m, v, s) ==
  \E unroll \in Positive, applied \in BOOLEAN :
    unroll <= m.y[4] /\ s = Candidate(m, v, unroll, applied)

LEMMA BetterFits ==
  ASSUME NEW m, NEW v, NEW unroll \in Positive, NEW best, IsCandidate(m, v, best)
  PROVE  IsCandidate(m, v, Better(m, v, unroll, best))
<1>1. CASE unroll <= m.y[4] /\ Better(m, v, unroll, best) = Candidate(m, v, unroll, TRUE)
  BY <1>1 DEF IsCandidate
<1>2. CASE Better(m, v, unroll, best) = best
  BY <1>2
<1>3. \/ unroll <= m.y[4] /\ Better(m, v, unroll, best) = Candidate(m, v, unroll, TRUE)
      \/ Better(m, v, unroll, best) = best
  BY DEF Better
<1> QED
  BY <1>1, <1>2, <1>3

CostsAs(s, t) ==
  /\ s.width = t.width /\ s.unroll = t.unroll
  /\ s.inputLoads = t.inputLoads /\ s.weightLoads = t.weightLoads

LEMMA SelectedFits ==
  ASSUME NEW m, m.y[4] \in Positive, NEW v, NEW auto \in BOOLEAN
  PROVE  \E unroll \in Positive, applied \in BOOLEAN :
           /\ unroll <= m.y[4] /\ (v = "scalar" => unroll = 1)
           /\ CostsAs(SelectedSchedule(m, v, auto), Candidate(m, v, unroll, applied))
<1>1. PICK baseline : baseline = Candidate(m, v, 1, FALSE)
  OBVIOUS
<1>2. 1 \in Positive /\ 2 \in Positive /\ 4 \in Positive /\ 8 \in Positive /\ 1 <= m.y[4]
  BY DEF Positive
<1>3. CASE ~auto \/ v = "scalar"
  <2>1. SelectedSchedule(m, v, auto) = Candidate(m, v, 1, FALSE)
    BY <1>3 DEF SelectedSchedule
  <2> QED
    BY <1>2, <2>1 DEF CostsAs
<1>4. CASE ~ (~auto \/ v = "scalar")
  <2>1. IsCandidate(m, v, baseline)
    BY <1>1, <1>2 DEF IsCandidate
  <2>2. PICK best : best = Better(m, v, 8, Better(m, v, 4, Better(m, v, 2, baseline)))
    OBVIOUS
  <2>3. IsCandidate(m, v, best)
    BY <1>2, <2>1, <2>2, BetterFits
  <2>4. PICK unroll \in Positive, applied \in BOOLEAN :
          unroll <= m.y[4] /\ best = Candidate(m, v, unroll, applied)
    BY <2>3 DEF IsCandidate
  <2>5. SelectedSchedule(m, v, auto) = [best EXCEPT !.applied = TRUE]
    BY <1>1, <1>4, <2>2 DEF SelectedSchedule
  <2>6. CostsAs([best EXCEPT !.applied = TRUE], Candidate(m, v, unroll, applied))
    BY <2>4 DEF Candidate, CostsAs
  <2> QED
    BY <1>4, <2>4, <2>5, <2>6
<1> QED
  BY <1>3, <1>4

LEMMA ScheduleOf ==
  ASSUME TargetFacts, NEW g, GraphFits(g), MetadataFits(MetadataOf(g)),
         NEW v \in {"scalar", "avx2", "avx512"}, NEW auto \in BOOLEAN
  PROVE  ScheduleFits(MetadataOf(g), v, SelectedSchedule(MetadataOf(g), v, auto))
<1>1. PICK m, width : m = MetadataOf(g) /\ width = VectorWidth[v]
  OBVIOUS
<1>2. m.y[4] \in Positive
  BY <1>1, ShapesAre, EntriesOfFour
<1>3. width \in Positive /\ (v = "scalar" => width = 1) /\ (v # "scalar" => width > 1)
  BY <1>1 DEF TargetFacts, Positive
<1>4. PICK unroll \in Positive, applied \in BOOLEAN :
        /\ unroll <= m.y[4] /\ (v = "scalar" => unroll = 1)
        /\ CostsAs(SelectedSchedule(m, v, auto), Candidate(m, v, unroll, applied))
  BY <1>2, SelectedFits
<1>5. PICK s : s = SelectedSchedule(m, v, auto)
  OBVIOUS
<1>6. /\ s.width = width /\ s.unroll = unroll
      /\ s.inputLoads = Saturated(BlocksOf(m.y[4], unroll) * ReductionLoadSteps(m, width))
      /\ s.weightLoads = Saturated(m.y[4] * ReductionLoadSteps(m, width))
  BY <1>1, <1>4, <1>5 DEF Candidate, BlocksOf, CostsAs
<1>7. BlocksOf(m.y[4], unroll) \in 0..m.y[4] /\ m.y[4] \in 0..m.y[4]
  BY <1>2, BlocksFit DEF Positive
<1>8. \A b \in 0..m.y[4] :
        Saturated(b * ReductionLoadSteps(m, width)) = b * LoadSteps(m, width)
  BY <1>1, <1>3, CandidateFits
<1>9. /\ s.inputLoads = BlocksOf(m.y[4], unroll) * LoadSteps(m, width)
      /\ s.weightLoads = m.y[4] * LoadSteps(m, width)
  BY <1>6, <1>7, <1>8
<1> QED
  BY <1>1, <1>3, <1>4, <1>5, <1>6, <1>9 DEF ScheduleFits

(***************************************************************************)
(* What an output element accumulates.                                     *)
(***************************************************************************)
IterationsOf(m, width) ==
  (0..(m.w[2] - 1)) \X (0..(m.w[3] - 1)) \X Lanes(m.w[4], width)

InputAt(m, at, i) ==
  Linear(<<at[1], at[2] + i[1], at[3] + i[2], i[3][1]>>, m.padded) + i[3][2]
WeightAt(m, k, i) == Linear(<<k, i[1], i[2], i[3][1]>>, m.w) + i[3][2]

Terms(m, image, at, k, width) ==
  {<<i, IF InputAt(m, at, i) \in DOMAIN image THEN image[InputAt(m, at, i)] ELSE -2,
     WeightAt(m, k, i)>> : i \in IterationsOf(m, width)}

(* The element of the padded input, and of W, an iteration multiplies.     *)
Source(at, i) == <<at[1], at[2] + i[1], at[3] + i[2], Channel(i[3])>>
Weight(k, i) == <<k, i[1], i[2], Channel(i[3])>>

PixelsOf(m) == FirstThree(m.y)

LEMMA WithinFour ==
  ASSUME NEW dims, FourAxes(dims), NEW i, FourEntries(i)
  PROVE  Within(i, dims) <=> /\ i[1] \in 0..(dims[1] - 1) /\ i[2] \in 0..(dims[2] - 1)
                             /\ i[3] \in 0..(dims[3] - 1) /\ i[4] \in 0..(dims[4] - 1)
<1>1. \A a \in 1..4 : a = 1 \/ a = 2 \/ a = 3 \/ a = 4
  OBVIOUS
<1>2. 1 \in 1..4 /\ 2 \in 1..4 /\ 3 \in 1..4 /\ 4 \in 1..4
  OBVIOUS
<1>3. i \in Seq(Int) /\ Len(i) = Len(dims) /\ Len(dims) = 4
  BY DEF FourAxes, FourEntries
<1>4. Within(i, dims) <=> \A a \in 1..4 : i[a] \in 0..(dims[a] - 1)
  BY <1>3 DEF Within
<1> QED
  BY <1>1, <1>2, <1>4

LEMMA WithinPixels ==
  ASSUME NEW g, GraphFits(g), NEW at, Within(at, PixelsOf(MetadataOf(g)))
  PROVE  LET m == MetadataOf(g)
         IN /\ at \in Seq(Int) /\ Len(at) = 3
            /\ at[1] \in 0..(m.y[1] - 1) /\ at[2] \in 0..(m.y[2] - 1)
            /\ at[3] \in 0..(m.y[3] - 1)
<1>1. PICK d : d = PixelsOf(MetadataOf(g))
  OBVIOUS
<1>2. PICK y : y = MetadataOf(g).y
  OBVIOUS
<1>3. y \in Seq(Positive) /\ Len(y) = 4
  BY <1>2, ShapesAre DEF FourAxes
<1>4. d = FirstThree(y)
  BY <1>1, <1>2 DEF PixelsOf
<1>5. Len(d) = 3 /\ d[1] = y[1] /\ d[2] = y[2] /\ d[3] = y[3]
  BY <1>3, <1>4, FirstThreeIs
<1>6. at \in Seq(Int) /\ Len(at) = 3 /\ \A a \in 1..3 : at[a] \in 0..(d[a] - 1)
  BY <1>1, <1>5 DEF Within
<1>7. at[1] \in 0..(y[1] - 1) /\ at[2] \in 0..(y[2] - 1) /\ at[3] \in 0..(y[3] - 1)
  BY <1>5, <1>6
<1> QED
  BY <1>2, <1>6, <1>7

LEMMA AccessesFit ==
  ASSUME NEW g, GraphFits(g), NEW width \in Positive,
         NEW at, Within(at, PixelsOf(MetadataOf(g))),
         NEW k \in 0..(MetadataOf(g).y[4] - 1), NEW i \in IterationsOf(MetadataOf(g), width)
  PROVE  LET m == MetadataOf(g)
         IN /\ Within(Source(at, i), m.padded) /\ Within(Weight(k, i), m.w)
            /\ InputAt(m, at, i) = Linear(Source(at, i), m.padded)
            /\ WeightAt(m, k, i) = Linear(Weight(k, i), m.w)
<1>1. PICK m : m = MetadataOf(g)
  OBVIOUS
<1>2. /\ FourAxes(m.padded) /\ FourAxes(m.w) /\ FourAxes(m.y)
      /\ m.w[4] = m.x[4] /\ m.padded[4] = m.x[4] /\ m.y[4] = m.w[1] /\ m.padded[1] = m.y[1]
      /\ m.y[2] = m.padded[2] - m.w[2] + 1 /\ m.y[3] = m.padded[3] - m.w[3] + 1
  BY <1>1, ShapesAre
<1>3. PICK r, s, p : i = <<r, s, p>> /\ r \in 0..(m.w[2] - 1) /\ s \in 0..(m.w[3] - 1)
                     /\ p \in Lanes(m.w[4], width)
  BY <1>1 DEF IterationsOf
<1>4. PICK c, lane : c = p[1] /\ lane = p[2]
  OBVIOUS
<1>5. c \in Nat /\ lane \in Nat /\ Channel(p) \in 0..(m.w[4] - 1) /\ Channel(p) = c + lane
  <2>1. m.w[4] \in Nat
    BY <1>2, EntriesOfFour DEF Positive
  <2> QED
    BY <1>3, <1>4, <2>1, LanesCover DEF Channel
<1>6. PICK n, h, v : n = at[1] /\ h = at[2] /\ v = at[3]
  OBVIOUS
<1>7. n \in 0..(m.y[1] - 1) /\ h \in 0..(m.y[2] - 1) /\ v \in 0..(m.y[3] - 1)
  BY <1>1, <1>6, WithinPixels
<1>8. PICK w2, w3, w4, y2, y3, p2, p3 :
        /\ w2 = m.w[2] /\ w3 = m.w[3] /\ w4 = m.w[4] /\ y2 = m.y[2] /\ y3 = m.y[3]
        /\ p2 = m.padded[2] /\ p3 = m.padded[3]
  OBVIOUS
<1>9. /\ w2 \in Positive /\ w3 \in Positive /\ w4 \in Positive /\ y2 \in Positive /\ y3 \in Positive
      /\ p2 \in Positive /\ p3 \in Positive /\ m.y[1] \in Positive /\ m.y[4] \in Positive
  BY <1>2, <1>8, EntriesOfFour
<1>10. h + r \in 0..(p2 - 1) /\ v + s \in 0..(p3 - 1)
  <2>1. y2 = p2 - w2 + 1 /\ y3 = p3 - w3 + 1
    BY <1>2, <1>8
  <2>2. h \in 0..(y2 - 1) /\ v \in 0..(y3 - 1) /\ r \in 0..(w2 - 1) /\ s \in 0..(w3 - 1)
    BY <1>3, <1>7, <1>8
  <2> QED
    BY <1>9, <2>1, <2>2 DEF Positive
<1>11. n \in Int /\ h \in Int /\ v \in Int /\ r \in Int /\ s \in Int /\ k \in Int
       /\ h + r \in Int /\ v + s \in Int /\ c \in Int /\ lane \in Int /\ c + lane \in Int
  BY <1>3, <1>5, <1>7, <1>10
<1>12. PICK e, f : e = Source(at, i) /\ f = Weight(k, i)
  OBVIOUS
<1>13. e = <<n, h + r, v + s, c + lane>> /\ f = <<k, r, s, c + lane>>
  BY <1>3, <1>5, <1>6, <1>12 DEF Source, Weight
<1>14. FourEntries(e) /\ FourEntries(f)
  BY <1>11, <1>13 DEF FourEntries
<1>15. Within(e, m.padded)
  <2>1. e[1] = n /\ e[2] = h + r /\ e[3] = v + s /\ e[4] = c + lane
    BY <1>13
  <2> QED
    BY <1>2, <1>5, <1>7, <1>8, <1>10, <1>14, <2>1, WithinFour
<1>16. Within(f, m.w)
  <2>1. f[1] = k /\ f[2] = r /\ f[3] = s /\ f[4] = c + lane
    BY <1>13
  <2>2. k \in 0..(m.w[1] - 1)
    BY <1>1, <1>2
  <2> QED
    BY <1>2, <1>3, <1>5, <1>14, <2>1, <2>2, WithinFour
<1>17. InputAt(m, at, i) = Linear(e, m.padded)
  <2>1. InputAt(m, at, i) = Linear(<<n, h + r, v + s, c>>, m.padded) + lane
    <3>1. InputAt(m, at, i)
            = Linear(<<at[1], at[2] + i[1], at[3] + i[2], i[3][1]>>, m.padded) + i[3][2]
      BY DEF InputAt
    <3> QED
      BY <1>3, <1>4, <1>6, <3>1
  <2>2. PICK a, b : a = h + r /\ b = v + s
    OBVIOUS
  <2>3. Linear(<<n, a, b, c>>, m.padded) + lane = Linear(<<n, a, b, c + lane>>, m.padded)
    <3>1. FourAxes(m.padded)
      BY <1>2
    <3>2. n \in Int /\ a \in Int /\ b \in Int /\ c \in Int /\ lane \in Int
      BY <1>11, <2>2
    <3> QED
      BY <3>1, <3>2, LaneAddress
  <2> QED
    BY <1>13, <2>1, <2>2, <2>3
<1>18. WeightAt(m, k, i) = Linear(f, m.w)
  <2>1. WeightAt(m, k, i) = Linear(<<k, r, s, c>>, m.w) + lane
    <3>1. WeightAt(m, k, i) = Linear(<<k, i[1], i[2], i[3][1]>>, m.w) + i[3][2]
      BY DEF WeightAt
    <3> QED
      BY <1>3, <1>4, <3>1
  <2>2. Linear(<<k, r, s, c>>, m.w) + lane = Linear(<<k, r, s, c + lane>>, m.w)
    <3>1. FourAxes(m.w)
      BY <1>2
    <3>2. k \in Int /\ r \in Int /\ s \in Int /\ c \in Int /\ lane \in Int
      BY <1>11
    <3> QED
      BY <3>1, <3>2, LaneAddress
  <2> QED
    BY <1>13, <2>1, <2>2
<1> QED
  BY <1>1, <1>12, <1>15, <1>16, <1>17, <1>18

(* The input as the kernel reads it.                                       *)
Unpadded(g, at) == <<at[1], at[2] - g.pre[1], at[3] - g.pre[2], at[4]>>
Lands(g, at) == Within(Unpadded(g, at), MetadataOf(g).x)

IsImage(g, image) ==
  LET m == MetadataOf(g)
  IN /\ DOMAIN image = 0..(ElementCount(m.padded) - 1)
     /\ \A at : Within(at, m.padded) =>
          image[Linear(at, m.padded)]
            = IF Lands(g, at) THEN Linear(Unpadded(g, at), m.x) ELSE Zero

Image(g, pad) ==
  LET m == MetadataOf(g)
  IN [address \in 0..(ElementCount(m.padded) - 1) |->
        IF pad = NoPad THEN address
        ELSE LET at == Delinear(address, m.padded)
                 x == [a \in 1..4 |-> at[a] - pad.low[a]]
             IN IF \A a \in 1..4 : x[a] \in 0..(m.x[a] - 1) THEN Linear(x, m.x) ELSE Zero]

LEMMA UnpaddedIs ==
  ASSUME NEW g, GraphFits(g), NEW at, FourEntries(at)
  PROVE  /\ FourEntries(Unpadded(g, at)) /\ Unpadded(g, at)[1] = at[1]
         /\ Unpadded(g, at)[2] = at[2] - g.pre[1] /\ Unpadded(g, at)[3] = at[3] - g.pre[2]
         /\ Unpadded(g, at)[4] = at[4]
<1>1. at[1] \in Int /\ at[2] \in Int /\ at[3] \in Int /\ at[4] \in Int
  BY EntriesOfFour
<1>2. at[2] - g.pre[1] \in Int /\ at[3] - g.pre[2] \in Int
  BY <1>1, PaddingIs
<1>3. PICK h, v : h = at[2] - g.pre[1] /\ v = at[3] - g.pre[2]
  OBVIOUS
<1>4. Unpadded(g, at) = <<at[1], h, v, at[4]>>
  BY <1>3 DEF Unpadded
<1> QED
  BY <1>1, <1>2, <1>3, <1>4 DEF FourEntries

LEMMA ImageIs ==
  ASSUME NEW g, GraphFits(g), NEW pad,
         pad = IF NeedsPadding(g) THEN PadOf(g) ELSE NoPad
  PROVE  IsImage(g, Image(g, pad))
<1>1. PICK m : m = MetadataOf(g)
  OBVIOUS
<1>2. /\ FourAxes(m.x) /\ FourAxes(m.padded)
      /\ m.padded[1] = m.x[1] /\ m.padded[4] = m.x[4]
      /\ m.padded[2] = m.x[2] + g.pre[1] + g.post[1]
      /\ m.padded[3] = m.x[3] + g.pre[2] + g.post[2]
  BY <1>1, ShapesAre
<1>3. PICK image : image = Image(g, pad)
  OBVIOUS
<1>4. DOMAIN image = 0..(ElementCount(m.padded) - 1)
  BY <1>1, <1>3 DEF Image
<1>5. ASSUME NEW at, Within(at, m.padded)
      PROVE  image[Linear(at, m.padded)]
               = IF Lands(g, at) THEN Linear(Unpadded(g, at), m.x) ELSE Zero
  <2>1. FourEntries(at)
    BY <1>2, <1>5 DEF Within, FourAxes, FourEntries
  <2>2. PICK address, x : address = Linear(at, m.padded) /\ x = Unpadded(g, at)
    OBVIOUS
  <2>3. address \in 0..(ElementCount(m.padded) - 1) /\ Delinear(address, m.padded) = at
    BY <1>2, <1>5, <2>2, LinearStays DEF FourAxes
  <2>4. /\ FourEntries(x) /\ x[1] = at[1] /\ x[2] = at[2] - g.pre[1]
        /\ x[3] = at[3] - g.pre[2] /\ x[4] = at[4]
    BY <2>1, <2>2, UnpaddedIs
  <2>5. CASE NeedsPadding(g)
    <3>1. pad = PadOf(g)
      BY <2>5
    <3>2. pad.low = <<0, g.pre[1], g.pre[2], 0>>
      BY <3>1 DEF PadOf
    <3>3. pad # NoPad
      <4>1. Len(pad.low) = 4
        BY <3>2
      <4>2. Len(NoPad.low) = 0
        BY DEF NoPad
      <4> QED
        BY <4>1, <4>2
    <3>4. [a \in 1..4 |-> at[a] - pad.low[a]] = x
      <4>1. PICK t : t = [a \in 1..4 |-> at[a] - pad.low[a]]
        OBVIOUS
      <4>2. at[1] \in Int /\ at[4] \in Int
        BY <2>1, EntriesOfFour
      <4>3. at[1] - 0 = at[1] /\ at[4] - 0 = at[4]
        BY <4>2
      <4>4. \A a \in 1..4 : t[a] = x[a]
        <5>1. t[1] = x[1] /\ t[2] = x[2] /\ t[3] = x[3] /\ t[4] = x[4]
          BY <2>4, <3>2, <4>1, <4>3
        <5>2. \A a \in 1..4 : a = 1 \/ a = 2 \/ a = 3 \/ a = 4
          OBVIOUS
        <5> QED
          BY <5>1, <5>2
      <4>5. x = [a \in 1..4 |-> x[a]] /\ t = [a \in 1..4 |-> t[a]]
        BY <2>4, <4>1, LenProperties DEF FourEntries
      <4> QED
        BY <4>1, <4>4, <4>5
    <3>5. (\A a \in 1..4 : x[a] \in 0..(m.x[a] - 1)) <=> Lands(g, at)
      BY <1>1, <1>2, <2>2, <2>4 DEF Lands, Within, FourAxes, FourEntries
    <3>6. image[address] = IF \A a \in 1..4 : x[a] \in 0..(m.x[a] - 1)
                           THEN Linear(x, m.x) ELSE Zero
      BY <1>1, <1>3, <2>3, <3>3, <3>4 DEF Image
    <3> QED
      BY <2>2, <3>5, <3>6
  <2>6. CASE ~ NeedsPadding(g)
    <3>1. pad = NoPad /\ g.pre = <<0, 0>> /\ g.post = <<0, 0>>
      BY <2>6 DEF NeedsPadding
    <3>2. g.pre[1] = 0 /\ g.pre[2] = 0 /\ g.post[1] = 0 /\ g.post[2] = 0
      BY <3>1
    <3>3. m.padded = m.x
      <4>1. m.x[2] \in Int /\ m.x[3] \in Int
        BY <1>2, EntriesOfFour DEF Positive
      <4>2. /\ m.padded[1] = m.x[1] /\ m.padded[2] = m.x[2]
            /\ m.padded[3] = m.x[3] /\ m.padded[4] = m.x[4]
        BY <1>2, <3>2, <4>1
      <4>3. PICK p, q : p = m.padded /\ q = m.x
        OBVIOUS
      <4>4. p \in Seq(Positive) /\ q \in Seq(Positive) /\ Len(p) = 4 /\ Len(q) = 4
        BY <1>2, <4>3 DEF FourAxes
      <4>5. \A a \in 1..4 : p[a] = q[a]
        <5>1. \A a \in 1..4 : a = 1 \/ a = 2 \/ a = 3 \/ a = 4
          OBVIOUS
        <5> QED
          BY <4>2, <4>3, <5>1
      <4>6. p = q
        BY <4>4, <4>5, SeqEqual
      <4> QED
        BY <4>3, <4>6
    <3>4. x = at
      <4>1. at[2] \in Int /\ at[3] \in Int
        BY <2>1, EntriesOfFour
      <4>2. x[1] = at[1] /\ x[2] = at[2] /\ x[3] = at[3] /\ x[4] = at[4]
        BY <2>4, <3>2, <4>1
      <4>3. \A a \in 1..4 : x[a] = at[a]
        <5>1. \A a \in 1..4 : a = 1 \/ a = 2 \/ a = 3 \/ a = 4
          OBVIOUS
        <5> QED
          BY <4>2, <5>1
      <4>4. x \in Seq(Int) /\ at \in Seq(Int) /\ Len(x) = 4 /\ Len(at) = 4
        BY <2>1, <2>4 DEF FourEntries
      <4> QED
        BY <4>3, <4>4, SameLists
    <3>5. Lands(g, at)
      BY <1>1, <1>5, <2>2, <3>3, <3>4 DEF Lands
    <3>6. image[address] = address
      BY <1>1, <1>3, <2>3, <3>1 DEF Image
    <3> QED
      BY <2>2, <3>3, <3>4, <3>5, <3>6
  <2> QED
    BY <2>5, <2>6
<1> QED
  BY <1>1, <1>3, <1>4, <1>5 DEF IsImage

(***************************************************************************)
(* The products of the definition.                                         *)
(***************************************************************************)
(* Filter element <<c, r, s>> an iteration multiplies, and where the graph *)
(* has it meet X.                                                          *)
FilterElement(i) == <<Channel(i[3]), i[1], i[2]>>
FilterElements(g) ==
  (0..(Dims(g, 2)[2] - 1)) \X (0..(Dims(g, 2)[3] - 1)) \X (0..(Dims(g, 2)[4] - 1))
Met(g, at, t) ==
  <<at[1], t[1], at[2] + t[2] - g.pre[1], at[3] + t[3] - g.pre[2]>>
Touches(g, at, t) ==
  /\ at[2] + t[2] - g.pre[1] \in 0..(Dims(g, 1)[3] - 1)
  /\ at[3] + t[3] - g.pre[2] \in 0..(Dims(g, 1)[4] - 1)
MetAt(g, at, t) == Dot(Met(g, at, t), Tensor(g, 1).strides)
FilterAt(g, k, t) == Dot(<<k, t[1], t[2], t[3]>>, Tensor(g, 2).strides)
MetPairs(g, at, k) ==
  {<<MetAt(g, at, t), FilterAt(g, k, t)>> : t \in {e \in FilterElements(g) : Touches(g, at, e)}}

LEMMA IterationIs ==
  ASSUME NEW g, GraphFits(g), NEW width \in Positive
  PROVE  LET m == MetadataOf(g)
         IN /\ \A i \in IterationsOf(m, width) :
                 i = <<i[1], i[2], i[3]>> /\ FilterElement(i) \in FilterElements(g)
            /\ \A t \in FilterElements(g) : \E i \in IterationsOf(m, width) : FilterElement(i) = t
            /\ \A i, j \in IterationsOf(m, width) : FilterElement(i) = FilterElement(j) => i = j
<1>1. PICK m, w : m = MetadataOf(g) /\ w = Dims(g, 2)
  OBVIOUS
<1>2. FourAxes(w) /\ m.w = Physical(w) /\ FourAxes(m.w)
  BY <1>1, ShapesAre
<1>3. m.w[2] = w[3] /\ m.w[3] = w[4] /\ m.w[4] = w[2]
  BY <1>2, PhysicalIs
<1>4. m.w[4] \in Nat
  BY <1>2, EntriesOfFour DEF Positive
<1>5. ASSUME NEW i \in IterationsOf(m, width)
      PROVE  /\ i = <<i[1], i[2], i[3]>> /\ FilterElement(i) \in FilterElements(g)
             /\ i[3] \in Lanes(m.w[4], width)
  <2>1. PICK r, s, p : i = <<r, s, p>> /\ r \in 0..(m.w[2] - 1) /\ s \in 0..(m.w[3] - 1)
                       /\ p \in Lanes(m.w[4], width)
    BY DEF IterationsOf
  <2>2. Channel(p) \in 0..(m.w[4] - 1)
    BY <1>4, <2>1, LanesCover
  <2>3. i[1] = r /\ i[2] = s /\ i[3] = p
    BY <2>1
  <2>4. FilterElement(i) = <<Channel(p), r, s>>
    BY <2>3 DEF FilterElement
  <2>5. <<Channel(p), r, s>> \in FilterElements(g)
    BY <1>1, <1>3, <2>1, <2>2 DEF FilterElements
  <2> QED
    BY <2>1, <2>3, <2>4, <2>5
<1>6. ASSUME NEW t \in FilterElements(g)
      PROVE  \E i \in IterationsOf(m, width) : FilterElement(i) = t
  <2>1. PICK c, r, s : t = <<c, r, s>> /\ c \in 0..(m.w[4] - 1) /\ r \in 0..(m.w[2] - 1)
                       /\ s \in 0..(m.w[3] - 1)
    BY <1>1, <1>3 DEF FilterElements
  <2>2. PICK p \in Lanes(m.w[4], width) : Channel(p) = c
    BY <1>4, <2>1, LanesCover
  <2>3. PICK i : i = <<r, s, p>>
    OBVIOUS
  <2>4. i \in IterationsOf(m, width)
    BY <2>1, <2>2, <2>3 DEF IterationsOf
  <2>5. FilterElement(i) = t
    BY <2>1, <2>2, <2>3 DEF FilterElement
  <2> QED
    BY <2>4, <2>5
<1>7. ASSUME NEW i \in IterationsOf(m, width), NEW j \in IterationsOf(m, width),
             FilterElement(i) = FilterElement(j)
      PROVE  i = j
  <2>1. Channel(i[3]) = Channel(j[3]) /\ i[1] = j[1] /\ i[2] = j[2]
    BY <1>7 DEF FilterElement
  <2>2. i[3] = j[3]
    BY <1>4, <1>5, <2>1, LanesCover
  <2> QED
    BY <1>5, <2>1, <2>2
<1> QED
  BY <1>1, <1>5, <1>6, <1>7

LEMMA TermIs ==
  ASSUME NEW g, GraphFits(g), NEW image, IsImage(g, image), NEW width \in Positive,
         NEW at, Within(at, PixelsOf(MetadataOf(g))),
         NEW k \in 0..(MetadataOf(g).y[4] - 1), NEW i \in IterationsOf(MetadataOf(g), width)
  PROVE  LET m == MetadataOf(g)
             t == FilterElement(i)
         IN /\ InputAt(m, at, i) \in DOMAIN image
            /\ WeightAt(m, k, i) \in 0..(ElementCount(m.w) - 1)
            /\ image[InputAt(m, at, i)] = IF Touches(g, at, t) THEN MetAt(g, at, t) ELSE Zero
            /\ Touches(g, at, t) => MetAt(g, at, t) # Zero
            /\ WeightAt(m, k, i) = FilterAt(g, k, t)
<1>1. PICK m, t : m = MetadataOf(g) /\ t = FilterElement(i)
  OBVIOUS
<1>2. /\ FourAxes(m.x) /\ FourAxes(m.w) /\ FourAxes(m.padded)
      /\ FourAxes(Dims(g, 1)) /\ FourAxes(Dims(g, 2))
      /\ m.x = Physical(Dims(g, 1)) /\ m.w = Physical(Dims(g, 2))
  BY <1>1, ShapesAre
<1>3. /\ m.x[1] = Dims(g, 1)[1] /\ m.x[2] = Dims(g, 1)[3]
      /\ m.x[3] = Dims(g, 1)[4] /\ m.x[4] = Dims(g, 1)[2]
  BY <1>2, PhysicalIs
<1>4. PICK e, f : e = Source(at, i) /\ f = Weight(k, i)
  OBVIOUS
<1>5. /\ Within(e, m.padded) /\ Within(f, m.w)
      /\ InputAt(m, at, i) = Linear(e, m.padded) /\ WeightAt(m, k, i) = Linear(f, m.w)
  BY <1>1, <1>4, AccessesFit
<1>6. FourEntries(e) /\ FourEntries(f)
  BY <1>2, <1>5 DEF Within, FourAxes, FourEntries
<1>7. PICK n, h, v, c, r, s :
        n = at[1] /\ h = at[2] /\ v = at[3] /\ c = Channel(i[3]) /\ r = i[1] /\ s = i[2]
  OBVIOUS
<1>8. t = <<c, r, s>> /\ e = <<n, h + r, v + s, c>> /\ f = <<k, r, s, c>>
  BY <1>1, <1>4, <1>7 DEF FilterElement, Source, Weight
<1>9. c \in Int /\ r \in Int /\ s \in Int /\ k \in Int /\ n \in Int /\ h \in Int /\ v \in Int
  <2>1. f[1] = k /\ f[2] = r /\ f[3] = s /\ f[4] = c /\ e[1] = n
    BY <1>8
  <2>2. h \in Int /\ v \in Int
    BY <1>1, <1>7, WithinPixels
  <2> QED
    BY <1>6, <2>1, <2>2, EntriesOfFour
<1>10. PICK a, b : a = h + r - g.pre[1] /\ b = v + s - g.pre[2]
  OBVIOUS
<1>11. a \in Int /\ b \in Int /\ (h + r) - g.pre[1] = a /\ (v + s) - g.pre[2] = b
  BY <1>9, <1>10, PaddingIs
<1>12. PICK u : u = Unpadded(g, e)
  OBVIOUS
<1>13. FourEntries(u) /\ u = <<n, a, b, c>>
  <2>1. e[1] = n /\ e[2] = h + r /\ e[3] = v + s /\ e[4] = c
    BY <1>8
  <2> QED
    BY <1>6, <1>11, <1>12, <2>1, UnpaddedIs DEF Unpadded
<1>14. Met(g, at, t) = <<n, c, a, b>>
  BY <1>7, <1>8, <1>10 DEF Met
<1>15. Lands(g, e) <=> Touches(g, at, t)
  <2>1. u[1] = n /\ u[2] = a /\ u[3] = b /\ u[4] = c
    BY <1>13
  <2>2. Lands(g, e) <=> /\ n \in 0..(m.x[1] - 1) /\ a \in 0..(m.x[2] - 1)
                        /\ b \in 0..(m.x[3] - 1) /\ c \in 0..(m.x[4] - 1)
    BY <1>1, <1>2, <1>12, <1>13, <2>1, WithinFour DEF Lands
  <2>3. e[1] = n /\ e[4] = c /\ m.padded[1] = m.x[1] /\ m.padded[4] = m.x[4]
    BY <1>1, <1>8, ShapesAre
  <2>4. n \in 0..(m.x[1] - 1) /\ c \in 0..(m.x[4] - 1)
    BY <1>2, <1>5, <1>6, <2>3, WithinFour
  <2>5. Touches(g, at, t) <=> a \in 0..(m.x[2] - 1) /\ b \in 0..(m.x[3] - 1)
    BY <1>3, <1>7, <1>8, <1>10 DEF Touches
  <2> QED
    BY <2>2, <2>4, <2>5
<1>16. MetAt(g, at, t) = Linear(u, m.x)
  <2>1. PICK d : d = <<n, c, a, b>>
    OBVIOUS
  <2>2. FourEntries(d) /\ Physical(d) = u
    BY <1>9, <1>11, <1>13, <2>1 DEF FourEntries, Physical
  <2>3. Tensor(g, 1).strides = PackedStride(Dims(g, 1))
    BY DEF GraphFits
  <2>4. Dot(d, PackedStride(Dims(g, 1))) = Linear(Physical(d), Physical(Dims(g, 1)))
    BY <1>2, <2>2, PhysicalAddress
  <2> QED
    BY <1>2, <1>14, <2>1, <2>2, <2>3, <2>4 DEF MetAt
<1>17. FilterAt(g, k, t) = Linear(f, m.w)
  <2>1. PICK d : d = <<k, c, r, s>>
    OBVIOUS
  <2>2. FourEntries(d) /\ Physical(d) = f
    BY <1>8, <1>9, <2>1 DEF FourEntries, Physical
  <2>3. Tensor(g, 2).strides = PackedStride(Dims(g, 2))
    BY DEF GraphFits
  <2>4. Dot(d, PackedStride(Dims(g, 2))) = Linear(Physical(d), Physical(Dims(g, 2)))
    BY <1>2, <2>2, PhysicalAddress
  <2>5. FilterAt(g, k, t) = Dot(d, Tensor(g, 2).strides)
    BY <1>8, <2>1 DEF FilterAt
  <2> QED
    BY <1>2, <2>2, <2>3, <2>4, <2>5
<1>18. /\ Linear(e, m.padded) \in 0..(ElementCount(m.padded) - 1)
       /\ Linear(f, m.w) \in 0..(ElementCount(m.w) - 1)
  BY <1>2, <1>5, LinearStays DEF FourAxes
<1>19. Lands(g, e) => Linear(u, m.x) # Zero
  <2>1. ASSUME Lands(g, e) PROVE Linear(u, m.x) \in 0..(ElementCount(m.x) - 1)
    BY <1>1, <1>2, <1>12, <2>1, LinearStays DEF Lands, FourAxes
  <2>2. \A l \in Nat : l # Zero
    BY DEF Zero
  <2> QED
    BY <2>1, <2>2
<1>20. /\ DOMAIN image = 0..(ElementCount(m.padded) - 1)
       /\ image[Linear(e, m.padded)] = IF Lands(g, e) THEN Linear(u, m.x) ELSE Zero
  BY <1>1, <1>5, <1>12 DEF IsImage
<1> QED
  BY <1>1, <1>5, <1>15, <1>16, <1>17, <1>18, <1>19, <1>20

ProductsOf(terms) == {t \in terms : t[2] # Zero}

LEMMA TermsAreReference ==
  ASSUME NEW g, GraphFits(g), NEW image, IsImage(g, image), NEW width \in Positive,
         NEW at, Within(at, PixelsOf(MetadataOf(g))),
         NEW k \in 0..(MetadataOf(g).y[4] - 1)
  PROVE  LET products == ProductsOf(Terms(MetadataOf(g), image, at, k, width))
         IN /\ {<<t[2], t[3]>> : t \in products} = MetPairs(g, at, k)
            /\ \A t, u \in products : <<t[2], t[3]>> = <<u[2], u[3]>> => t = u
<1>1. PICK m : m = MetadataOf(g)
  OBVIOUS
<1> DEFINE TermOf(i) == <<i, IF Touches(g, at, FilterElement(i)) THEN MetAt(g, at, FilterElement(i))
                             ELSE Zero, FilterAt(g, k, FilterElement(i))>>
           products == ProductsOf(Terms(m, image, at, k, width))
<1>2. Terms(m, image, at, k, width) = {TermOf(i) : i \in IterationsOf(m, width)}
  <2>1. ASSUME NEW i \in IterationsOf(m, width)
        PROVE  <<i, IF InputAt(m, at, i) \in DOMAIN image THEN image[InputAt(m, at, i)] ELSE -2,
                 WeightAt(m, k, i)>> = TermOf(i)
    BY <1>1, TermIs
  <2> HIDE DEF TermOf
  <2> QED
    BY <2>1 DEF Terms
<1>3. ASSUME NEW i \in IterationsOf(m, width)
      PROVE  Touches(g, at, FilterElement(i)) => MetAt(g, at, FilterElement(i)) # Zero
  BY <1>1, TermIs
<1>4. ASSUME NEW t \in products
      PROVE  \E i \in IterationsOf(m, width) :
               /\ t = TermOf(i) /\ Touches(g, at, FilterElement(i))
               /\ t[2] = MetAt(g, at, FilterElement(i)) /\ t[3] = FilterAt(g, k, FilterElement(i))
  <2>1. PICK i \in IterationsOf(m, width) : t = TermOf(i)
    BY <1>2 DEF ProductsOf
  <2>2. t[2] # Zero
    BY DEF ProductsOf
  <2>3. Touches(g, at, FilterElement(i))
    BY <2>1, <2>2
  <2> QED
    BY <2>1, <2>3
<1>5. ASSUME NEW i \in IterationsOf(m, width), Touches(g, at, FilterElement(i))
      PROVE  /\ TermOf(i) \in products
             /\ TermOf(i)[2] = MetAt(g, at, FilterElement(i))
             /\ TermOf(i)[3] = FilterAt(g, k, FilterElement(i))
  <2>1. TermOf(i)[2] # Zero /\ TermOf(i)[2] = MetAt(g, at, FilterElement(i))
    BY <1>3, <1>5
  <2>2. TermOf(i) \in Terms(m, image, at, k, width)
    BY <1>2
  <2> QED
    BY <1>5, <2>1, <2>2 DEF ProductsOf
<1>6. ASSUME NEW i \in IterationsOf(m, width), NEW j \in IterationsOf(m, width),
             FilterAt(g, k, FilterElement(i)) = FilterAt(g, k, FilterElement(j))
      PROVE  i = j
  <2>1. Linear(Weight(k, i), m.w) = Linear(Weight(k, j), m.w)
    <3>1. /\ WeightAt(m, k, i) = FilterAt(g, k, FilterElement(i))
          /\ WeightAt(m, k, j) = FilterAt(g, k, FilterElement(j))
      BY <1>1, TermIs
    <3>2. /\ WeightAt(m, k, i) = Linear(Weight(k, i), m.w)
          /\ WeightAt(m, k, j) = Linear(Weight(k, j), m.w)
      BY <1>1, AccessesFit
    <3> QED
      BY <1>6, <3>1, <3>2
  <2>2. Within(Weight(k, i), m.w) /\ Within(Weight(k, j), m.w) /\ m.w \in Seq(Positive)
    BY <1>1, AccessesFit, ShapesAre DEF FourAxes
  <2>3. Weight(k, i) = Weight(k, j)
    BY <2>1, <2>2, LinearStays
  <2>4. FilterElement(i) = FilterElement(j)
    BY <2>3 DEF Weight, FilterElement
  <2> QED
    BY <1>1, <2>4, IterationIs
<1>7. ASSUME NEW t \in products, NEW u \in products, <<t[2], t[3]>> = <<u[2], u[3]>>
      PROVE  t = u
  <2>1. PICK i \in IterationsOf(m, width) : t = TermOf(i) /\ t[3] = FilterAt(g, k, FilterElement(i))
    BY <1>4
  <2>2. PICK j \in IterationsOf(m, width) : u = TermOf(j) /\ u[3] = FilterAt(g, k, FilterElement(j))
    BY <1>4
  <2>3. t[3] = u[3]
    BY <1>7
  <2>4. i = j
    BY <1>6, <2>1, <2>2, <2>3
  <2> QED
    BY <2>1, <2>2, <2>4
<1>8. ASSUME NEW t \in products PROVE <<t[2], t[3]>> \in MetPairs(g, at, k)
  <2>1. PICK i \in IterationsOf(m, width) :
          /\ Touches(g, at, FilterElement(i))
          /\ t[2] = MetAt(g, at, FilterElement(i)) /\ t[3] = FilterAt(g, k, FilterElement(i))
    BY <1>4
  <2>2. FilterElement(i) \in FilterElements(g)
    BY <1>1, IterationIs
  <2> QED
    BY <2>1, <2>2 DEF MetPairs
<1>9. ASSUME NEW pair \in MetPairs(g, at, k)
      PROVE  \E t \in products : pair = <<t[2], t[3]>>
  <2>1. PICK e \in FilterElements(g) :
          Touches(g, at, e) /\ pair = <<MetAt(g, at, e), FilterAt(g, k, e)>>
    BY DEF MetPairs
  <2>2. PICK i \in IterationsOf(m, width) : FilterElement(i) = e
    BY <1>1, IterationIs
  <2>3. PICK t : t = TermOf(i)
    OBVIOUS
  <2>4. t \in products /\ t[2] = MetAt(g, at, e) /\ t[3] = FilterAt(g, k, e)
    BY <1>5, <2>1, <2>2, <2>3
  <2> QED
    BY <2>1, <2>4
<1> HIDE DEF products
<1>10. {<<t[2], t[3]>> : t \in products} = MetPairs(g, at, k)
  BY <1>8, <1>9
<1> QED
  BY <1>1, <1>7, <1>10 DEF products

(***************************************************************************)
(* The kernel.                                                             *)
(***************************************************************************)
Imported ==
  /\ GraphFits(source) /\ MetadataFits(MetadataOf(source)) /\ metadata = MetadataOf(source)
  /\ program.pad = IF NeedsPadding(source) THEN PadOf(source) ELSE NoPad
  /\ program.strides = <<1, 1>> /\ program.dilations = <<1, 1>>

Scheduled == ScheduleFits(metadata, variant, schedule)

(* Blocks of channels emitted before a channel.                            *)
BlocksBefore(k, unroll, channel) ==
  IF channel < WholeVectors(k, unroll) THEN channel \div unroll
  ELSE (k \div unroll) + (channel - WholeVectors(k, unroll))

(* Elements written before the next iteration.                             *)
Front(m, at) == at.pixel * m.y[4] + at.channel

PositionFits ==
  /\ position = [pixel |-> position.pixel, channel |-> position.channel]
  /\ position.pixel \in 0..Pixels /\ position.channel \in 0..(metadata.y[4] - 1)
  /\ position.pixel = Pixels => position.channel = 0
  /\ position.channel < WholeVectors(metadata.y[4], schedule.unroll) =>
       position.channel % schedule.unroll = 0

ElementOfY(m, image, width, address) ==
  Terms(m, image, Delinear(address \div m.y[4], PixelsOf(m)), address % m.y[4], width)

ResultsHold ==
  /\ DOMAIN results = 0..(ElementCount(metadata.y) - 1)
  /\ \A address \in DOMAIN results :
       results[address] = IF address < Front(metadata, position)
                          THEN ElementOfY(metadata, buffer, schedule.width, address) ELSE {}

LoadsHold ==
  LET steps == LoadSteps(metadata, schedule.width)
      blocks == BlocksBefore(metadata.y[4], schedule.unroll, position.channel)
  IN /\ loads.input = position.pixel * schedule.inputLoads + blocks * steps
     /\ loads.weight = Front(metadata, position) * steps

Running == IsImage(source, buffer) /\ PositionFits /\ ResultsHold /\ LoadsHold

DirectInv ==
  /\ source \in DirectGraphs /\ ~strayed
  /\ compiling \in {"import", "refused", "verify", "schedule", "lower", "pad", "kernel", "done"}
  /\ compiling \in {"verify", "schedule", "lower", "pad", "kernel", "done"} => Imported
  /\ compiling \in {"lower", "pad", "kernel", "done"} => Scheduled
  /\ compiling \in {"import", "verify", "schedule", "lower", "pad"} =>
       /\ position = [pixel |-> 0, channel |-> 0]
       /\ loads.input = 0 /\ loads.weight = 0
  /\ compiling \in {"kernel", "done"} => Running
  /\ compiling = "done" => position.pixel = Pixels

LEMMA CompileKeeps ==
  ASSUME GraphsWellFormed, TargetFacts, DirectInv,
         ImportConv2d \/ VerifyConv2dModule \/ SelectConv2dSchedule \/ LowerConv2dVariant
  PROVE  DirectInv'
<1>1. CASE ImportConv2d /\ compiling' = "refused"
  <2>1. compiling = "import" /\ compiling' = "refused" /\ UNCHANGED <<source, strayed>>
    BY <1>1 DEF ImportConv2d
  <2> QED
    BY <2>1 DEF DirectInv
<1>2. CASE ImportConv2d /\ compiling' # "refused"
  <2>1. /\ compiling = "import" /\ compiling' = "verify"
        /\ UNCHANGED <<source, position, loads, strayed>>
        /\ ValidCanonicalModel(source) /\ MetadataFits(MetadataOf(source))
        /\ metadata' = MetadataOf(source)
        /\ program' = [pad |-> IF NeedsPadding(source) THEN PadOf(source) ELSE NoPad,
                       strides |-> <<1, 1>>, dilations |-> <<1, 1>>]
    BY <1>2 DEF ImportConv2d
  <2>2. GraphFits(source) /\ source \in DirectGraphs
    BY <2>1, GraphOfValid DEF DirectInv
  <2>3. Imported'
    BY <2>1, <2>2 DEF Imported
  <2> QED
    BY <2>1, <2>2, <2>3 DEF DirectInv
<1>3. CASE VerifyConv2dModule
  <2>1. /\ compiling = "verify" /\ UNCHANGED <<source, metadata, program, position, loads, strayed>>
        /\ compiling' = IF VerifiedStructure(source, program) THEN "schedule" ELSE "unverified"
    BY <1>3 DEF VerifyConv2dModule
  <2>2. Imported
    BY <2>1 DEF DirectInv
  <2>3. VerifiedStructure(source, program)
    BY <2>2 DEF Imported, VerifiedStructure, NeedsPadding, PadOf
  <2>4. Imported' /\ compiling' = "schedule"
    BY <2>1, <2>2, <2>3 DEF Imported
  <2> QED
    BY <2>1, <2>4 DEF DirectInv
<1>4. CASE SelectConv2dSchedule
  <2>1. /\ compiling = "schedule" /\ compiling' = "lower"
        /\ UNCHANGED <<source, metadata, program, position, loads, strayed>>
    BY <1>4 DEF SelectConv2dSchedule
  <2>2. Imported /\ Imported'
    BY <2>1 DEF DirectInv, Imported
  <2>3. PICK v \in {"scalar", "avx2", "avx512"}, auto \in BOOLEAN :
          variant' = v /\ schedule' = SelectedSchedule(metadata, v, auto)
    BY <1>4 DEF SelectConv2dSchedule
  <2>4. ScheduleFits(metadata, v, SelectedSchedule(metadata, v, auto))
    BY <2>2, ScheduleOf DEF Imported
  <2>5. Scheduled'
    BY <2>1, <2>3, <2>4 DEF Scheduled
  <2> QED
    BY <2>1, <2>2, <2>5 DEF DirectInv
<1>5. CASE LowerConv2dVariant
  <2>1. /\ compiling = "lower"
        /\ UNCHANGED <<source, metadata, program, variant, schedule, position, loads, strayed>>
        /\ compiling' = IF CanLower(metadata, variant, schedule) THEN "pad" ELSE "unlowered"
    BY <1>5 DEF LowerConv2dVariant
  <2>2. Imported /\ Imported' /\ Scheduled
    BY <2>1 DEF DirectInv, Imported
  <2>3. CanLower(metadata, variant, schedule)
    BY <2>2 DEF Scheduled, ScheduleFits, CanLower, Positive
  <2>4. Scheduled' /\ compiling' = "pad"
    BY <2>1, <2>2, <2>3 DEF Scheduled
  <2> QED
    BY <2>1, <2>2, <2>4 DEF DirectInv
<1> QED
  BY <1>1, <1>2, <1>3, <1>4, <1>5

(* What the extents of Y are, in the state.                                *)
LEMMA ExtentsOfY ==
  ASSUME Imported, Scheduled
  PROVE  /\ GraphFits(source) /\ metadata = MetadataOf(source)
         /\ FourAxes(metadata.y) /\ metadata.y[4] \in Positive /\ Pixels \in Positive
         /\ PixelsOf(metadata) \in Seq(Positive) /\ PixelsOf(metadata) = SubSeq(metadata.y, 1, 3)
         /\ ElementCount(PixelsOf(metadata)) = Pixels
         /\ ElementCount(metadata.y) = Pixels * metadata.y[4]
         /\ schedule.width \in Positive /\ schedule.unroll \in 1..metadata.y[4]
         /\ LoadSteps(metadata, schedule.width) \in Nat
         /\ schedule.inputLoads = BlocksOf(metadata.y[4], schedule.unroll)
                                    * LoadSteps(metadata, schedule.width)
         /\ schedule.weightLoads = metadata.y[4] * LoadSteps(metadata, schedule.width)
<1>1. GraphFits(source) /\ metadata = MetadataOf(source) /\ MetadataFits(MetadataOf(source))
  BY DEF Imported
<1>2. FourAxes(metadata.y)
  BY <1>1, ShapesAre
<1>3. PICK y : y = metadata.y
  OBVIOUS
<1>4. y[1] \in Positive /\ y[2] \in Positive /\ y[3] \in Positive /\ y[4] \in Positive
  BY <1>2, <1>3, EntriesOfFour
<1>5. FirstThree(y) \in Seq(Positive)
  BY <1>2, <1>3, FirstThreeIs DEF FourAxes
<1>6. /\ ElementCount(y) = ElementCount(FirstThree(y)) * y[4]
      /\ ElementCount(FirstThree(y)) = y[1] * (y[2] * y[3])
  <2>1. FourEntries(<<0, 0, 0, 0>>)
    BY DEF FourEntries
  <2> QED
    BY <1>2, <1>3, <2>1, RowAddress
<1>7. Pixels = y[1] * (y[2] * y[3])
  <2>1. y[1] * y[2] * y[3] = y[1] * (y[2] * y[3])
    BY <1>4 DEF Positive
  <2> QED
    BY <1>3, <2>1 DEF Pixels
<1>8. ElementCount(FirstThree(y)) \in Positive
  BY <1>5, CountIsPositive
<1>9. /\ schedule.width \in Positive /\ schedule.unroll \in 1..y[4]
      /\ schedule.inputLoads = BlocksOf(y[4], schedule.unroll) * LoadSteps(metadata, schedule.width)
      /\ schedule.weightLoads = y[4] * LoadSteps(metadata, schedule.width)
  BY <1>3, <1>4 DEF Scheduled, ScheduleFits, Positive
<1>10. LoadSteps(metadata, schedule.width) \in Nat
  <2>1. 0 \in 0..MetadataOf(source).y[4]
    BY <1>1, <1>3, <1>4 DEF Positive
  <2> QED
    BY <1>1, <1>9, <2>1, CandidateFits
<1> QED
  BY <1>1, <1>2, <1>3, <1>4, <1>5, <1>6, <1>7, <1>8, <1>9, <1>10 DEF PixelsOf, FirstThree

LEMMA PadKeeps ==
  ASSUME DirectInv, PadInput
  PROVE  DirectInv'
<1>1. /\ compiling = "pad" /\ compiling' = "kernel"
      /\ UNCHANGED <<source, metadata, program, variant, schedule, position, loads, strayed>>
      /\ results' = [address \in 0..(ElementCount(metadata.y) - 1) |-> {}]
  BY DEF PadInput
<1>2. /\ Imported /\ Scheduled /\ Imported' /\ Scheduled'
      /\ position = [pixel |-> 0, channel |-> 0] /\ loads.input = 0 /\ loads.weight = 0
  BY <1>1 DEF DirectInv, Imported, Scheduled
<1>3. IsImage(source, buffer')
  <2>1. buffer' = Image(source, program.pad)
    BY <1>2 DEF PadInput, Image, Imported
  <2> QED
    BY <1>2, <2>1, ImageIs DEF Imported
<1>4. /\ metadata.y[4] \in Positive /\ Pixels \in Positive /\ schedule.unroll \in 1..metadata.y[4]
      /\ LoadSteps(metadata, schedule.width) \in Nat
      /\ schedule.inputLoads = BlocksOf(metadata.y[4], schedule.unroll)
                                 * LoadSteps(metadata, schedule.width)
  BY <1>2, ExtentsOfY
<1>5. position.pixel = 0 /\ position.channel = 0
  BY <1>2
<1>6. schedule.unroll \in Positive
  BY <1>4 DEF Positive
<1>7. PositionFits
  <2>1. 0 % schedule.unroll = 0
    <3>1. (0 * schedule.unroll + 0) % schedule.unroll = 0 /\ 0 \in 0..(schedule.unroll - 1)
      BY <1>6, Division DEF Positive
    <3>2. 0 * schedule.unroll + 0 = 0
      BY <1>6 DEF Positive
    <3> QED
      BY <3>1, <3>2
  <2> QED
    BY <1>2, <1>4, <1>5, <2>1 DEF PositionFits, Positive
<1>8. PositionFits'
  BY <1>1, <1>7 DEF PositionFits, Pixels
<1>9. Front(metadata, position) = 0
  BY <1>4, <1>5 DEF Front, Positive
<1>10. ResultsHold'
  <2>1. DOMAIN results' = 0..(ElementCount(metadata.y) - 1)
    BY <1>1
  <2>2. \A address \in 0..(ElementCount(metadata.y) - 1) : ~ (address < 0)
    OBVIOUS
  <2> QED
    BY <1>1, <1>9, <2>1, <2>2 DEF ResultsHold
<1>11. LoadsHold
  <2>1. BlocksBefore(metadata.y[4], schedule.unroll, 0) = 0
    <3>1. PICK q \in Nat, rest \in 0..(schedule.unroll - 1) :
            q = metadata.y[4] \div schedule.unroll
            /\ WholeVectors(metadata.y[4], schedule.unroll) = InGroup(q, schedule.unroll, 0)
            /\ metadata.y[4] = WholeVectors(metadata.y[4], schedule.unroll) + rest
            /\ WholeVectors(metadata.y[4], schedule.unroll) \in Nat
      BY <1>4, <1>6, WholeFits DEF Positive
    <3>2. WholeVectors(metadata.y[4], schedule.unroll) > 0
      BY <1>4, <3>1 DEF Positive
    <3>3. 0 \div schedule.unroll = 0
      <4>1. (0 * schedule.unroll + 0) \div schedule.unroll = 0
        BY <1>6, Division DEF Positive
      <4>2. 0 * schedule.unroll + 0 = 0
        BY <1>6 DEF Positive
      <4> QED
        BY <4>1, <4>2
    <3> QED
      BY <3>2, <3>3 DEF BlocksBefore
  <2>2. PICK n, b \in Nat : n = LoadSteps(metadata, schedule.width)
                            /\ b = BlocksOf(metadata.y[4], schedule.unroll)
    BY <1>4, <1>6, BlocksFit DEF Positive
  <2>3. 0 * schedule.inputLoads + 0 * n = 0 /\ 0 * n = 0
    <3>1. b * n \in Nat
      BY <1>4, <2>2
    <3> QED
      BY <1>4, <2>2, <3>1
  <2> QED
    BY <1>2, <1>5, <1>9, <2>1, <2>2, <2>3 DEF LoadsHold
<1>12. LoadsHold'
  BY <1>1, <1>11 DEF LoadsHold
<1>13. Running'
  BY <1>1, <1>3, <1>8, <1>10, <1>12 DEF Running
<1> QED
  BY <1>1, <1>2, <1>13 DEF DirectInv

(* A block is a whole one, or a channel behind the whole ones.             *)
AtBlock(k, unroll, channel, size) ==
  \/ channel < WholeVectors(k, unroll) /\ size = unroll
  \/ ~ (channel < WholeVectors(k, unroll)) /\ size = 1

StartsBlock(k, unroll, channel) ==
  channel < WholeVectors(k, unroll) => channel % unroll = 0

LEMMA BlockAdvances ==
  ASSUME NEW k \in Positive, NEW unroll \in Positive, NEW channel \in 0..(k - 1), NEW size,
         StartsBlock(k, unroll, channel), AtBlock(k, unroll, channel, size)
  PROVE  /\ size \in Positive /\ channel + size <= k
         /\ StartsBlock(k, unroll, channel + size)
         /\ BlocksBefore(k, unroll, channel) \in Nat
         /\ BlocksBefore(k, unroll, channel) + 1
              = IF channel + size < k THEN BlocksBefore(k, unroll, channel + size)
                ELSE BlocksOf(k, unroll)
<1>1. PICK q \in Nat, rest \in 0..(unroll - 1) :
        /\ q = k \div unroll /\ rest = k % unroll
        /\ WholeVectors(k, unroll) = InGroup(q, unroll, 0)
        /\ WholeVectors(k, unroll) \in Nat /\ k = WholeVectors(k, unroll) + rest
  BY WholeFits DEF Positive
<1>2. PICK w \in Nat : w = WholeVectors(k, unroll)
  BY <1>1
<1>3. k = w + rest /\ w = q * unroll + 0 /\ rest \in Nat /\ channel \in Nat /\ k \in Nat
  BY <1>1, <1>2 DEF InGroup, Positive
<1>4. BlocksOf(k, unroll) = q + rest
  BY <1>1 DEF BlocksOf
<1>5. CASE channel < w
  <2>1. size = unroll /\ channel % unroll = 0
    BY <1>2, <1>5 DEF AtBlock, StartsBlock
  <2>2. PICK j \in Nat : j = channel \div unroll /\ channel = j * unroll + 0
    <3>1. PICK j \in Nat, r \in 0..(unroll - 1) :
            j = channel \div unroll /\ r = channel % unroll /\ channel = j * unroll + r
      BY <1>3, Divided
    <3> QED
      BY <2>1, <3>1
  <2>3. PICK t \in Nat, u \in Nat : t = j * unroll /\ u = q * unroll
    BY DEF Positive
  <2>4. channel = t /\ w = u
    BY <1>3, <2>2, <2>3
  <2>5. j + 1 <= q
    <3> SUFFICES ASSUME q <= j PROVE FALSE
      OBVIOUS
    <3>1. q * unroll <= j * unroll
      BY Monotone DEF Positive
    <3> QED
      BY <1>5, <2>3, <2>4, <3>1
  <2>6. (j + 1) * unroll = t + unroll /\ (j + 1) * unroll <= u
    <3>1. (j + 1) * unroll = j * unroll + unroll
      BY DEF Positive
    <3>2. j + 1 \in Nat /\ unroll \in Nat
      BY DEF Positive
    <3>3. (j + 1) * unroll <= q * unroll
      BY <2>5, <3>2, Monotone
    <3> QED
      BY <2>3, <3>1, <3>3
  <2>7. channel + size = (j + 1) * unroll /\ channel + size <= w
    BY <2>1, <2>4, <2>6
  <2>8. (channel + size) \div unroll = j + 1 /\ (channel + size) % unroll = 0
    <3>1. j + 1 \in Nat /\ 0 \in 0..(unroll - 1)
      BY DEF Positive
    <3>2. PICK e : e = channel + size
      OBVIOUS
    <3>3. e = (j + 1) * unroll + 0
      <4>1. PICK d \in Nat : d = (j + 1) * unroll
        BY <3>1 DEF Positive
      <4> QED
        BY <2>7, <3>2, <4>1
    <3>4. ((j + 1) * unroll + 0) \div unroll = j + 1 /\ ((j + 1) * unroll + 0) % unroll = 0
      BY <3>1, Division
    <3> QED
      BY <3>2, <3>3, <3>4
  <2>9. BlocksBefore(k, unroll, channel) = j
    BY <1>2, <1>5, <2>2 DEF BlocksBefore
  <2>10. channel + size < w => BlocksBefore(k, unroll, channel + size) = j + 1
    BY <1>2, <2>8 DEF BlocksBefore
  <2>11. ASSUME ~ (channel + size < w)
         PROVE  /\ channel + size = w /\ j + 1 = q
                /\ BlocksBefore(k, unroll, channel + size) = q
    <3>1. channel + size = w
      BY <1>3, <2>1, <2>7, <2>11 DEF Positive
    <3>2. (channel + size) \div unroll = q
      <4>1. 0 \in 0..(unroll - 1)
        BY DEF Positive
      <4>2. (q * unroll + 0) \div unroll = q
        BY <4>1, Division
      <4> QED
        BY <1>3, <3>1, <4>2
    <3>3. BlocksBefore(k, unroll, w) = q + (w - w) /\ w - w = 0
      BY <1>1, <1>2 DEF BlocksBefore
    <3> QED
      BY <2>8, <3>1, <3>2, <3>3
  <2>12. size \in Positive /\ channel + size <= k /\ channel + size \in Nat
    BY <1>3, <2>1, <2>7 DEF Positive
  <2>13. StartsBlock(k, unroll, channel + size)
    BY <2>8 DEF StartsBlock
  <2>14. j + 1 = IF channel + size < k THEN BlocksBefore(k, unroll, channel + size)
                 ELSE BlocksOf(k, unroll)
    <3>1. CASE channel + size < w
      BY <1>3, <2>10, <2>12, <3>1
    <3>2. CASE ~ (channel + size < w)
      <4>1. channel + size < k \/ rest = 0
        BY <1>3, <2>11, <3>2
      <4> QED
        BY <1>3, <1>4, <2>11, <3>2, <4>1
    <3> QED
      BY <3>1, <3>2
  <2> QED
    BY <2>9, <2>12, <2>13, <2>14
<1>6. CASE ~ (channel < w)
  <2>1. size = 1 /\ size \in Positive
    BY <1>2, <1>6 DEF AtBlock, Positive
  <2>2. BlocksBefore(k, unroll, channel) = q + (channel - w)
    BY <1>1, <1>2, <1>6 DEF BlocksBefore
  <2>3. channel + 1 <= k /\ ~ (channel + 1 < w)
    BY <1>3, <1>6
  <2>4. BlocksBefore(k, unroll, channel + 1) = q + ((channel + 1) - w)
    BY <1>1, <1>2, <2>3 DEF BlocksBefore
  <2>5. StartsBlock(k, unroll, channel + 1)
    BY <1>2, <2>3 DEF StartsBlock
  <2>6. (q + (channel - w)) + 1 = IF channel + 1 < k THEN q + ((channel + 1) - w) ELSE q + rest
    BY <1>3, <2>3
  <2>7. q + (channel - w) \in Nat
    BY <1>3, <1>6
  <2> QED
    BY <1>4, <2>1, <2>2, <2>3, <2>4, <2>5, <2>6, <2>7
<1> QED
  BY <1>5, <1>6

LEMMA StartsAtZero ==
  ASSUME NEW k \in Positive, NEW unroll \in 1..k
  PROVE  BlocksBefore(k, unroll, 0) = 0 /\ 0 % unroll = 0
<1>1. unroll \in Positive /\ k \in Nat
  BY DEF Positive
<1>2. PICK q \in Nat, rest \in 0..(unroll - 1) :
        WholeVectors(k, unroll) \in Nat /\ k = WholeVectors(k, unroll) + rest
  BY <1>1, WholeFits
<1>3. WholeVectors(k, unroll) > 0
  BY <1>1, <1>2 DEF Positive
<1>4. 0 \div unroll = 0 /\ 0 % unroll = 0
  <2>1. (0 * unroll + 0) \div unroll = 0 /\ (0 * unroll + 0) % unroll = 0
    BY <1>1, Division DEF Positive
  <2>2. 0 * unroll + 0 = 0
    BY <1>1 DEF Positive
  <2> QED
    BY <2>1, <2>2
<1> QED
  BY <1>3, <1>4 DEF BlocksBefore

LEMMA AccumulatedIs ==
  ASSUME NEW k, NEW width
  PROVE  /\ Accumulated(k, width) = Terms(metadata, buffer, Pixel, k, width)
         /\ Iterations(width) = IterationsOf(metadata, width)
         /\ \A i : InputAddress(i) = InputAt(metadata, Pixel, i)
         /\ \A i : WeightAddress(k, i) = WeightAt(metadata, k, i)
<1>1. VectorChannels(width) = Firsts(metadata.w[4], width)
  BY DEF VectorChannels, Firsts, WholeVectors
<1>2. TailChannels(width) = Tails(metadata.w[4], width)
  BY DEF TailChannels, Tails, WholeVectors
<1>3. Iterations(width) = IterationsOf(metadata, width)
  BY <1>1, <1>2 DEF Iterations, IterationsOf, Lanes
<1>4. \A i : InputAddress(i) = InputAt(metadata, Pixel, i)
  BY DEF InputAddress, InputAt
<1>5. \A i : WeightAddress(k, i) = WeightAt(metadata, k, i)
  BY DEF WeightAddress, WeightAt
<1> QED
  BY <1>3, <1>4, <1>5 DEF Accumulated, Terms

(* The block of outputs, as the emitted loops leave it.                    *)
LEMMA EmitWrites ==
  ASSUME Imported, Scheduled, Running, InKernel, NEW size \in Positive,
         position.channel + size <= metadata.y[4], EmitOutputBlock(size, schedule.width),
         ~ strayed
  PROVE  LET front == Front(metadata, position)
         IN /\ DOMAIN results' = DOMAIN results
            /\ \A address \in DOMAIN results :
                 results'[address]
                   = IF address < front + size
                     THEN ElementOfY(metadata, buffer, schedule.width, address) ELSE {}
            /\ ~ strayed'
<1>1. PICK k, pixel, channel, width :
        k = metadata.y[4] /\ pixel = position.pixel /\ channel = position.channel
        /\ width = schedule.width
  OBVIOUS
<1>2. /\ GraphFits(source) /\ metadata = MetadataOf(source) /\ IsImage(source, buffer)
      /\ k \in Positive /\ Pixels \in Positive /\ width \in Positive
      /\ PixelsOf(metadata) \in Seq(Positive) /\ PixelsOf(metadata) = SubSeq(metadata.y, 1, 3)
      /\ ElementCount(PixelsOf(metadata)) = Pixels /\ ElementCount(metadata.y) = Pixels * k
  BY <1>1, ExtentsOfY DEF Running
<1>3. pixel \in 0..(Pixels - 1) /\ pixel \in Nat /\ channel \in 0..(k - 1) /\ channel + size <= k
  BY <1>1, <1>2 DEF Running, PositionFits, InKernel, Positive
<1>4. PICK p \in Nat : p = pixel * k
  BY <1>2, <1>3 DEF Positive
<1>5. Front(metadata, position) = p + channel
  BY <1>1, <1>4 DEF Front
<1>6. PICK block : block = channel..(channel + size - 1)
  OBVIOUS
<1>7. ASSUME NEW j \in block PROVE j \in 0..(k - 1)
  BY <1>2, <1>3, <1>6 DEF Positive
<1>8. DOMAIN results = 0..(Pixels * k - 1)
  BY <1>2 DEF Running, ResultsHold
<1>9. /\ results' = [address \in DOMAIN results |->
                        IF \E j \in block : pixel * k + j = address
                        THEN results[address] \cup Accumulated(address % k, width)
                        ELSE results[address]]
      /\ strayed' = (strayed \/ \E j \in block :
                                  pixel * k + j \notin DOMAIN results \/ Strays(j, width))
  BY <1>1, <1>6 DEF EmitOutputBlock
<1>10. Within(Pixel, PixelsOf(metadata)) /\ Pixel = Delinear(pixel, PixelsOf(metadata))
  BY <1>1, <1>2, <1>3, DelinearStays DEF Pixel
<1>11. ASSUME NEW address \in DOMAIN results
       PROVE  results'[address] = IF address < (p + channel) + size
                                  THEN ElementOfY(metadata, buffer, width, address) ELSE {}
  <2>1. address \in Nat
    BY <1>2, <1>8 DEF Positive
  <2>2. results[address] = IF address < p + channel
                           THEN ElementOfY(metadata, buffer, width, address) ELSE {}
    BY <1>1, <1>5 DEF Running, ResultsHold
  <2>3. (\E j \in block : p + j = address)
          <=> (p + channel <= address /\ address < (p + channel) + size)
    <3> p \in Nat /\ channel \in Nat /\ size \in Nat
      BY <1>3, <1>4 DEF Positive
    <3>1. ASSUME NEW j \in block, p + j = address
          PROVE  p + channel <= address /\ address < (p + channel) + size
      BY <1>6, <3>1
    <3>2. ASSUME p + channel <= address, address < (p + channel) + size
          PROVE  \E j \in block : p + j = address
      <4>1. PICK j : j = address - p
        OBVIOUS
      <4>2. j \in block /\ p + j = address
        BY <1>6, <2>1, <3>2, <4>1
      <4> QED
        BY <4>2
    <3> QED
      BY <3>1, <3>2
  <2>4. CASE \E j \in block : p + j = address
    <3>1. PICK j \in block : p + j = address
      BY <2>4
    <3>2. j \in 0..(k - 1) /\ address = pixel * k + j
      BY <1>4, <1>7, <3>1
    <3>3. address \div k = pixel /\ address % k = j
      BY <1>2, <1>3, <3>2, Division
    <3>4. Accumulated(j, width) = Terms(metadata, buffer, Pixel, j, width)
      BY AccumulatedIs
    <3>5. ElementOfY(metadata, buffer, width, address) = Accumulated(j, width)
      BY <1>1, <1>10, <3>3, <3>4 DEF ElementOfY
    <3>6. ~ (address < p + channel) /\ address < (p + channel) + size
      BY <1>3, <1>4, <2>1, <2>3, <2>4
    <3>7. results'[address] = results[address] \cup Accumulated(address % k, width)
      BY <1>4, <1>9, <2>4
    <3> QED
      BY <2>2, <3>3, <3>5, <3>6, <3>7
  <2>5. CASE ~ \E j \in block : p + j = address
    <3>1. results'[address] = results[address]
      BY <1>4, <1>9, <2>5
    <3>2. (address < p + channel) <=> (address < (p + channel) + size)
      BY <1>3, <1>4, <2>1, <2>3, <2>5 DEF Positive
    <3> QED
      BY <2>2, <3>1, <3>2
  <2> QED
    BY <2>4, <2>5
<1>12. ~ strayed'
  <2>1. ASSUME NEW j \in block PROVE pixel * k + j \in DOMAIN results /\ ~ Strays(j, width)
    <3>1. j \in 0..(k - 1)
      BY <1>7
    <3>2. InGroup(pixel, k, j) \in 0..(Pixels * k - 1)
      BY <1>2, <1>3, <3>1, ChannelFits
    <3>3. pixel * k + j \in DOMAIN results
      BY <1>8, <3>2 DEF InGroup
    <3>4. ASSUME NEW i \in Iterations(width)
          PROVE  /\ InputAddress(i) \in DOMAIN buffer
                 /\ WeightAddress(j, i) \in 0..(ElementCount(metadata.w) - 1)
      <4>1. /\ i \in IterationsOf(metadata, width)
            /\ InputAddress(i) = InputAt(metadata, Pixel, i)
            /\ WeightAddress(j, i) = WeightAt(metadata, j, i)
        BY AccumulatedIs
      <4>2. j \in 0..(MetadataOf(source).y[4] - 1) /\ i \in IterationsOf(MetadataOf(source), width)
            /\ Within(Pixel, PixelsOf(MetadataOf(source)))
        BY <1>1, <1>2, <1>10, <3>1, <4>1
      <4>3. /\ InputAt(MetadataOf(source), Pixel, i) \in DOMAIN buffer
            /\ WeightAt(MetadataOf(source), j, i)
                 \in 0..(ElementCount(MetadataOf(source).w) - 1)
        BY <1>2, <4>2, TermIs
      <4> QED
        BY <1>2, <4>1, <4>3
    <3>5. ~ Strays(j, width)
      BY <3>4 DEF Strays
    <3> QED
      BY <3>3, <3>5
  <2> QED
    BY <1>9, <2>1
<1> QED
  BY <1>1, <1>5, <1>9, <1>11, <1>12

LEMMA Distributes ==
  ASSUME NEW a \in Nat, NEW b \in Nat, NEW c \in Nat
  PROVE  a * c \in Nat /\ (a + b) * c = a * c + b * c /\ 1 * c = c /\ 0 * c = 0
OBVIOUS

(* The loops' loads of one operand are the ones the cost model counts.     *)
LEMMA StepsAreCounted ==
  ASSUME Imported, Scheduled
  PROVE  metadata.w[2] * metadata.w[3]
           * (Cardinality(VectorChannels(schedule.width))
                + Cardinality(TailChannels(schedule.width)))
           = LoadSteps(metadata, schedule.width)
<1>1. PICK width, c : width = schedule.width /\ c = metadata.w[4]
  OBVIOUS
<1>2. width \in Positive /\ GraphFits(source) /\ metadata = MetadataOf(source)
  BY <1>1, ExtentsOfY
<1>3. FourAxes(metadata.w)
  BY <1>2, ShapesAre
<1>4. c \in Positive
  BY <1>1, <1>3, EntriesOfFour
<1>5. c \in Nat
  BY <1>4 DEF Positive
<1>6. VectorChannels(width) = Firsts(c, width) /\ TailChannels(width) = Tails(c, width)
  BY <1>1 DEF VectorChannels, TailChannels, Firsts, Tails, WholeVectors
<1>7. /\ Cardinality(VectorChannels(width)) = c \div width
      /\ Cardinality(TailChannels(width)) = c % width
  BY <1>2, <1>5, <1>6, FirstsCount
<1> QED
  BY <1>1, <1>7 DEF LoadSteps

(* Where a block leaves the kernel.                                        *)
LEMMA EmitMoves ==
  ASSUME Imported, Scheduled, Running, InKernel, NEW size,
         AtBlock(metadata.y[4], schedule.unroll, position.channel, size),
         EmitOutputBlock(size, schedule.width), KernelStep
  PROVE  /\ size \in Positive /\ position.channel + size <= metadata.y[4]
         /\ PositionFits'
         /\ Front(metadata, position') = Front(metadata, position) + size
         /\ LoadsHold'
<1>1. PICK k, pixel, channel, unroll, width :
        k = metadata.y[4] /\ pixel = position.pixel /\ channel = position.channel
        /\ unroll = schedule.unroll /\ width = schedule.width
  OBVIOUS
<1>2. PICK steps : steps = LoadSteps(metadata, width)
  OBVIOUS
<1>3. /\ k \in Positive /\ Pixels \in Positive /\ unroll \in 1..k /\ unroll \in Positive
      /\ steps \in Nat /\ k \in Nat /\ BlocksOf(k, unroll) \in Nat
      /\ schedule.inputLoads = BlocksOf(k, unroll) * steps
  <2>1. /\ k \in Positive /\ Pixels \in Positive /\ unroll \in 1..k /\ steps \in Nat
        /\ schedule.inputLoads = BlocksOf(k, unroll) * steps
    BY <1>1, <1>2, ExtentsOfY
  <2>2. unroll \in Positive /\ k \in Nat
    BY <2>1 DEF Positive
  <2>3. BlocksOf(k, unroll) \in 0..k
    BY <2>2, BlocksFit
  <2> QED
    BY <2>1, <2>2, <2>3
<1>4. pixel \in 0..(Pixels - 1) /\ pixel \in Nat /\ channel \in 0..(k - 1)
  BY <1>1, <1>3 DEF Running, PositionFits, InKernel, Positive
<1>5. StartsBlock(k, unroll, channel) /\ AtBlock(k, unroll, channel, size)
  BY <1>1 DEF Running, PositionFits, StartsBlock
<1>6. /\ size \in Positive /\ channel + size <= k
      /\ StartsBlock(k, unroll, channel + size)
      /\ BlocksBefore(k, unroll, channel) \in Nat
      /\ BlocksBefore(k, unroll, channel) + 1
           = IF channel + size < k THEN BlocksBefore(k, unroll, channel + size)
             ELSE BlocksOf(k, unroll)
  BY <1>3, <1>4, <1>5, BlockAdvances
<1>7. PICK before \in Nat, all \in Nat, most \in Nat :
        before = BlocksBefore(k, unroll, channel) /\ all = BlocksOf(k, unroll) /\ most = all * steps
  BY <1>3, <1>6
<1>8. PICK p \in Nat : p = pixel * k
  BY <1>3, <1>4
<1>9. Front(metadata, position) = p + channel
  BY <1>1, <1>8 DEF Front
<1>10. /\ loads.input = pixel * most + before * steps
       /\ loads.weight = (p + channel) * steps
  BY <1>1, <1>2, <1>3, <1>7, <1>9 DEF Running, LoadsHold
<1>11. loads'.input = loads.input + steps /\ loads'.weight = loads.weight + size * steps
  <2>1. metadata.w[2] * metadata.w[3]
          * (Cardinality(VectorChannels(width)) + Cardinality(TailChannels(width))) = steps
    BY <1>1, <1>2, StepsAreCounted
  <2> QED
    BY <1>1, <2>1 DEF EmitOutputBlock
<1>12. /\ metadata' = metadata /\ schedule' = schedule /\ Pixels' = Pixels
       /\ position' = IF channel + size < k THEN [position EXCEPT !.channel = channel + size]
                      ELSE [pixel |-> pixel + 1, channel |-> 0]
  BY <1>1 DEF EmitOutputBlock, KernelStep, Pixels
<1>13. size \in Nat /\ channel \in Nat /\ channel + size \in Nat
  BY <1>3, <1>4, <1>6 DEF Positive
<1>14. PICK g \in Nat, h \in Nat, b \in Nat, f \in Nat :
         g = pixel * most /\ h = before * steps /\ b = (p + channel) * steps /\ f = size * steps
  <2>1. pixel * most \in Nat /\ before * steps \in Nat /\ size * steps \in Nat
    BY <1>3, <1>4, <1>7, <1>13, Distributes
  <2>2. p + channel \in Nat
    BY <1>8, <1>13
  <2>3. (p + channel) * steps \in Nat
    BY <1>3, <2>2, Distributes
  <2> QED
    BY <2>1, <2>3
<1>15. /\ loads'.input = (g + h) + steps
       /\ (before + 1) * steps = h + steps
       /\ loads'.weight = ((p + channel) + size) * steps
  <2>1. (before + 1) * steps = before * steps + 1 * steps /\ 1 * steps = steps
    BY <1>3, <1>7, Distributes
  <2>2. ((p + channel) + size) * steps = (p + channel) * steps + size * steps
    BY <1>3, <1>8, <1>13, Distributes
  <2> QED
    BY <1>10, <1>11, <1>14, <2>1, <2>2
<1>16. CASE channel + size < k
  <2>1. position'.pixel = pixel /\ position'.channel = channel + size
        /\ position' = [pixel |-> pixel, channel |-> channel + size]
    BY <1>1, <1>12, <1>16 DEF Running, PositionFits
  <2>2. PositionFits'
    <3>1. pixel # Pixels /\ pixel \in 0..Pixels /\ channel + size \in 0..(k - 1)
      BY <1>3, <1>4, <1>13, <1>16 DEF Positive
    <3>2. channel + size < WholeVectors(k, unroll) => (channel + size) % unroll = 0
      BY <1>6 DEF StartsBlock
    <3> QED
      BY <1>1, <1>12, <2>1, <3>1, <3>2 DEF PositionFits
  <2>3. Front(metadata, position') = (p + channel) + size
    <3>1. p + (channel + size) = (p + channel) + size
      BY <1>13
    <3> QED
      BY <1>1, <1>8, <2>1, <3>1 DEF Front
  <2>4. BlocksBefore(k, unroll, channel + size) = before + 1
    BY <1>6, <1>7, <1>16
  <2>5. g + (h + steps) = (g + h) + steps
    BY <1>3
  <2>6. loads'.input = pixel * most + (before + 1) * steps
    BY <1>14, <1>15, <2>5
  <2>7. LoadsHold'
    BY <1>1, <1>2, <1>3, <1>7, <1>12, <1>15, <2>1, <2>3, <2>4, <2>6 DEF LoadsHold
  <2> QED
    BY <1>1, <1>6, <1>9, <2>2, <2>3, <2>7
<1>17. CASE ~ (channel + size < k)
  <2>1. position'.pixel = pixel + 1 /\ position'.channel = 0
        /\ position' = [pixel |-> pixel + 1, channel |-> 0] /\ channel + size = k
    BY <1>3, <1>6, <1>12, <1>13, <1>17
  <2>2. BlocksBefore(k, unroll, 0) = 0 /\ 0 % unroll = 0
    BY <1>3, StartsAtZero
  <2>3. PositionFits'
    <3>1. pixel + 1 \in 0..Pixels /\ 0 \in 0..(k - 1)
      BY <1>3, <1>4 DEF Positive
    <3> QED
      BY <1>1, <1>12, <2>1, <2>2, <3>1 DEF PositionFits
  <2>4. Front(metadata, position') = (p + channel) + size
    <3>1. (pixel + 1) * k = pixel * k + 1 * k /\ 1 * k = k
      BY <1>3, <1>4, Distributes
    <3>2. PICK t : t = (pixel + 1) * k
      OBVIOUS
    <3>3. t = p + k
      BY <1>8, <3>1, <3>2
    <3>4. p \in Nat
      BY <1>8
    <3>5. channel + size = k
      BY <2>1
    <3>6. t + 0 = (p + channel) + size
      BY <1>13, <3>3, <3>4, <3>5
    <3>7. position'.pixel = pixel + 1 /\ position'.channel = 0
      BY <2>1
    <3>8. Front(metadata, position') = t + 0
      BY <1>1, <3>2, <3>7 DEF Front
    <3> QED
      BY <3>6, <3>8
  <2>5. all = before + 1
    BY <1>6, <1>7, <1>17
  <2>6. loads'.input = (pixel + 1) * most + 0 * steps
    <3>1. (pixel + 1) * most = pixel * most + 1 * most /\ 1 * most = most /\ 0 * steps = 0
      BY <1>3, <1>4, <1>7, Distributes
    <3>2. most = h + steps
      BY <1>7, <1>15, <2>5
    <3> QED
      BY <1>3, <1>14, <1>15, <3>1, <3>2
  <2>7. LoadsHold'
    BY <1>1, <1>2, <1>3, <1>7, <1>12, <1>15, <2>1, <2>2, <2>4, <2>6 DEF LoadsHold
  <2> QED
    BY <1>1, <1>6, <1>9, <2>3, <2>4, <2>7
<1> QED
  BY <1>16, <1>17

LEMMA BlockKeeps ==
  ASSUME DirectInv, InKernel, KernelStep, NEW size,
         AtBlock(metadata.y[4], schedule.unroll, position.channel, size),
         EmitOutputBlock(size, schedule.width)
  PROVE  DirectInv'
<1>1. /\ compiling = "kernel" /\ ~ strayed /\ source \in DirectGraphs
      /\ UNCHANGED <<source, compiling, metadata, program, variant, schedule, buffer>>
  <2>1. compiling = "kernel"
    BY DEF InKernel
  <2>2. UNCHANGED <<source, compiling, metadata, program, variant, schedule, buffer>>
    BY DEF KernelStep
  <2>3. ~ strayed /\ source \in DirectGraphs
    BY DEF DirectInv
  <2> QED
    BY <2>1, <2>2, <2>3
<1>2. Imported /\ Scheduled /\ Running
  BY <1>1 DEF DirectInv
<1>3. Imported' /\ Scheduled'
  BY <1>1, <1>2 DEF Imported, Scheduled
<1>4. /\ size \in Positive /\ position.channel + size <= metadata.y[4] /\ PositionFits'
      /\ Front(metadata, position') = Front(metadata, position) + size /\ LoadsHold'
  BY <1>2, EmitMoves
<1>5. /\ DOMAIN results' = DOMAIN results /\ ~ strayed'
      /\ \A address \in DOMAIN results :
           results'[address]
             = IF address < Front(metadata, position) + size
               THEN ElementOfY(metadata, buffer, schedule.width, address) ELSE {}
  BY <1>1, <1>2, <1>4, EmitWrites
<1>6. ResultsHold'
  <2>1. DOMAIN results = 0..(ElementCount(metadata.y) - 1)
    BY <1>2 DEF Running, ResultsHold
  <2> QED
    BY <1>1, <1>4, <1>5, <2>1 DEF ResultsHold
<1>7. Running'
  BY <1>1, <1>2, <1>4, <1>6 DEF Running
<1>8. DirectInv'
  BY <1>1, <1>3, <1>5, <1>7 DEF DirectInv
<1> QED
  BY <1>8

LEMMA StepKeeps ==
  ASSUME DirectInv, ScalarElement \/ VectorBlock \/ VectorTail \/ Return
  PROVE  DirectInv'
<1>1. CASE ScalarElement
  <2>1. InKernel /\ KernelStep /\ variant = "scalar" /\ EmitOutputBlock(1, 1)
    BY <1>1 DEF ScalarElement
  <2>2. compiling = "kernel"
    BY <2>1 DEF InKernel
  <2>3. schedule.unroll = 1 /\ schedule.width = 1
    BY <2>1, <2>2 DEF DirectInv, Scheduled, ScheduleFits
  <2>4. AtBlock(metadata.y[4], schedule.unroll, position.channel, 1)
    BY <2>3 DEF AtBlock
  <2> QED
    BY <2>1, <2>3, <2>4, BlockKeeps
<1>2. CASE VectorBlock
  <2>1. /\ InKernel /\ KernelStep /\ EmitOutputBlock(schedule.unroll, schedule.width)
        /\ position.channel < WholeVectors(metadata.y[4], schedule.unroll)
    BY <1>2 DEF VectorBlock, FullChannels, WholeVectors
  <2>2. AtBlock(metadata.y[4], schedule.unroll, position.channel, schedule.unroll)
    BY <2>1 DEF AtBlock
  <2> QED
    BY <2>1, <2>2, BlockKeeps
<1>3. CASE VectorTail
  <2>1. /\ InKernel /\ KernelStep /\ EmitOutputBlock(1, schedule.width)
        /\ position.channel >= WholeVectors(metadata.y[4], schedule.unroll)
    BY <1>3 DEF VectorTail, FullChannels, WholeVectors
  <2>2. Scheduled /\ Imported /\ Running
    <3>1. compiling = "kernel"
      BY <2>1 DEF InKernel
    <3> QED
      BY <3>1 DEF DirectInv
  <2>3. PICK k, unroll : k = metadata.y[4] /\ unroll = schedule.unroll
    OBVIOUS
  <2>4. k \in Positive /\ unroll \in Positive
    BY <2>2, <2>3, ExtentsOfY DEF Positive
  <2>5. k \in Nat
    BY <2>4 DEF Positive
  <2>6. WholeVectors(k, unroll) \in Nat
    BY <2>4, <2>5, WholeFits
  <2>7. position.channel \in Int
    BY <2>2, <2>3, <2>5 DEF Running, PositionFits
  <2>8. ~ (position.channel < WholeVectors(k, unroll))
    BY <2>1, <2>3, <2>6, <2>7
  <2>9. AtBlock(metadata.y[4], schedule.unroll, position.channel, 1)
    BY <2>3, <2>8 DEF AtBlock
  <2> QED
    BY <2>1, <2>9, BlockKeeps
<1>4. CASE Return
  <2>1. /\ compiling = "kernel" /\ compiling' = "done" /\ position.pixel = Pixels
        /\ UNCHANGED <<source, metadata, program, variant, schedule, buffer, results,
                       position, loads, strayed>>
    BY <1>4 DEF Return
  <2>2. Imported /\ Scheduled /\ Running
    BY <2>1 DEF DirectInv
  <2>3. Imported' /\ Scheduled'
    BY <2>1, <2>2 DEF Imported, Scheduled
  <2>4. PositionFits' /\ Pixels' = Pixels
    BY <2>1, <2>2 DEF Running, PositionFits, Pixels
  <2>5. ResultsHold' /\ LoadsHold'
    BY <2>1, <2>2 DEF Running, ResultsHold, LoadsHold
  <2>6. Running'
    BY <2>1, <2>2, <2>4, <2>5 DEF Running
  <2> QED
    BY <2>1, <2>3, <2>4, <2>6 DEF DirectInv
<1> QED
  BY <1>1, <1>2, <1>3, <1>4

LEMMA StutterKeeps ==
  ASSUME DirectInv, UNCHANGED directVars
  PROVE  DirectInv'
<1>1. UNCHANGED <<source, compiling, metadata, program, variant, schedule, buffer, results,
                  position, loads, strayed>>
  BY DEF directVars
<1>2. Imported' <=> Imported
  BY <1>1 DEF Imported
<1>3. Scheduled' <=> Scheduled
  BY <1>1 DEF Scheduled
<1>4. PositionFits' <=> PositionFits
  BY <1>1 DEF PositionFits, Pixels
<1>5. Pixels' = Pixels
  BY <1>1 DEF Pixels
<1>6. (ResultsHold' <=> ResultsHold) /\ (LoadsHold' <=> LoadsHold)
  BY <1>1 DEF ResultsHold, LoadsHold
<1>7. Running' <=> Running
  BY <1>1, <1>4, <1>6 DEF Running
<1> QED
  BY <1>1, <1>2, <1>3, <1>5, <1>7 DEF DirectInv

(* From a parsed graph on, whatever step is taken, the graph compiled is   *)
(* the one whose extents fit, its schedule counts what it costs, and the   *)
(* kernel has written the elements before its position and no other        *)
(* (import_conv2d, select_conv2d_schedule, lower_vector_conv).             *)
THEOREM KernelAdvances ==
  ASSUME GraphsWellFormed, TargetFacts
  PROVE  DirectSpec => []DirectInv
<1>1. DirectInit => DirectInv
  <2> SUFFICES ASSUME DirectInit PROVE DirectInv
    OBVIOUS
  <2>1. /\ source \in DirectGraphs /\ compiling = "import" /\ strayed = FALSE
        /\ position = [pixel |-> 0, channel |-> 0] /\ loads = [input |-> 0, weight |-> 0]
    BY DEF DirectInit
  <2> QED
    BY <2>1 DEF DirectInv
<1>2. DirectInv /\ [DirectNext]_directVars => DirectInv'
  <2> SUFFICES ASSUME DirectInv, [DirectNext]_directVars PROVE DirectInv'
    OBVIOUS
  <2>1. CASE ImportConv2d \/ VerifyConv2dModule \/ SelectConv2dSchedule \/ LowerConv2dVariant
    BY <2>1, CompileKeeps
  <2>2. CASE PadInput
    BY <2>2, PadKeeps
  <2>3. CASE ScalarElement \/ VectorBlock \/ VectorTail \/ Return
    BY <2>3, StepKeeps
  <2>4. CASE UNCHANGED directVars
    BY <2>4, StutterKeeps
  <2> QED
    BY <2>1, <2>2, <2>3, <2>4 DEF DirectNext
<1> QED
  BY <1>1, <1>2, PTL DEF DirectSpec

(* The cost a schedule was chosen by is the number of loads its kernel has *)
(* executed when it returns, for every graph, variant and width (candidate *)
(* in Schedule.cpp, the loops of ScalarLowering.cpp).                      *)
THEOREM EstimateIsExact ==
  ASSUME GraphsWellFormed, TargetFacts
  PROVE  DirectSpec => []EstimateCountsLoads
<1>1. DirectInv => EstimateCountsLoads
  <2> SUFFICES ASSUME DirectInv, compiling = "done"
               PROVE  /\ loads.input = Pixels * schedule.inputLoads
                      /\ loads.weight = Pixels * schedule.weightLoads
    BY DEF EstimateCountsLoads
  <2>1. Imported /\ Scheduled /\ Running /\ position.pixel = Pixels
    BY DEF DirectInv
  <2>2. PICK k, pixels, steps, unroll :
          k = metadata.y[4] /\ pixels = Pixels /\ unroll = schedule.unroll
          /\ steps = LoadSteps(metadata, schedule.width)
    OBVIOUS
  <2>3. /\ k \in Positive /\ pixels \in Positive /\ unroll \in 1..k /\ steps \in Nat
        /\ schedule.inputLoads = BlocksOf(k, unroll) * steps
        /\ schedule.weightLoads = k * steps
    BY <2>1, <2>2, ExtentsOfY
  <2>4. position.channel = 0
    BY <2>1 DEF Running, PositionFits
  <2>5. BlocksBefore(k, unroll, 0) = 0
    BY <2>3, StartsAtZero
  <2>6. PICK blocks \in Nat : blocks = BlocksOf(k, unroll)
    <3>1. k \in Nat /\ unroll \in Positive
      BY <2>3 DEF Positive
    <3> QED
      BY <3>1, BlocksFit
  <2>7. PICK most \in Nat : most = blocks * steps
    BY <2>3, <2>6
  <2>8. /\ loads.input = pixels * most + 0 * steps
        /\ loads.weight = (pixels * k + 0) * steps
    BY <2>1, <2>2, <2>3, <2>4, <2>5, <2>6, <2>7 DEF Running, LoadsHold, Front
  <2>9. pixels \in Nat /\ k \in Nat
    BY <2>3 DEF Positive
  <2>10. pixels * most + 0 * steps = pixels * most
    <3>1. pixels * most \in Nat /\ 0 * steps = 0
      BY <2>3, <2>7, <2>9, Distributes
    <3> QED
      BY <3>1
  <2>11. (pixels * k + 0) * steps = pixels * (k * steps)
    <3>1. (pixels * k + 0) * steps = pixels * (k * steps) + 0 * steps
      BY <2>3, <2>9, Spread
    <3>2. k * steps \in Nat
      BY <2>3, <2>9, Distributes
    <3>3. pixels * (k * steps) \in Nat /\ 0 * steps = 0
      BY <2>3, <2>9, <3>2, Distributes
    <3> QED
      BY <3>1, <3>3
  <2> QED
    BY <2>2, <2>3, <2>6, <2>7, <2>8, <2>10, <2>11
<1> QED
  BY <1>1, KernelAdvances, PTL

(* What the kernel has left at an element of Y.                            *)
LEMMA ElementLeft ==
  ASSUME Imported, Scheduled, Running, position.pixel = Pixels,
         NEW i \in Indices(Tensor(source, 3).dims)
  PROVE  LET products == ProductsOf(results[Dot(i, Tensor(source, 3).strides)])
         IN /\ {<<t[2], t[3]>> : t \in products} = ReferenceTerms(i[1], i[2], i[3], i[4])
            /\ \A t, u \in products : <<t[2], t[3]>> = <<u[2], u[3]>> => t = u
<1>1. PICK dims, m, y, k : dims = Dims(source, 3) /\ m = metadata /\ y = m.y /\ k = y[4]
  OBVIOUS
<1>2. /\ GraphFits(source) /\ m = MetadataOf(source)
      /\ FourAxes(y) /\ k \in Positive /\ Pixels \in Positive
      /\ PixelsOf(m) \in Seq(Positive) /\ PixelsOf(m) = FirstThree(y)
      /\ ElementCount(PixelsOf(m)) = Pixels /\ ElementCount(y) = Pixels * k
      /\ schedule.width \in Positive
  BY <1>1, ExtentsOfY DEF PixelsOf
<1>3. /\ FourAxes(dims) /\ y = Physical(dims)
      /\ Tensor(source, 3).strides = PackedStride(dims)
  <2>1. MetadataOf(source).y = Physical(dims)
    BY <1>1, <1>2, ShapesAre
  <2>2. 3 \in 1..3
    OBVIOUS
  <2>3. FourAxes(dims) /\ Tensor(source, 3).strides = PackedStride(dims)
    BY <1>1, <1>2, <2>2 DEF GraphFits
  <2> QED
    BY <1>1, <1>2, <2>1, <2>3
<1>4. Within(i, dims)
  <2>1. dims \in Seq(Int)
    BY <1>3, SeqMonotonic DEF FourAxes, Positive
  <2> QED
    BY <1>1, <2>1, IndicesAre DEF Dims
<1>5. FourEntries(i)
  BY <1>3, <1>4 DEF Within, FourAxes, FourEntries
<1>6. PICK j : j = Physical(i)
  OBVIOUS
<1>7. FourEntries(j) /\ j[1] = i[1] /\ j[2] = i[3] /\ j[3] = i[4] /\ j[4] = i[2]
  BY <1>5, <1>6, PhysicalIs
<1>8. y[1] = dims[1] /\ y[2] = dims[3] /\ y[3] = dims[4] /\ y[4] = dims[2]
  BY <1>3, PhysicalIs
<1>9. Within(j, y)
  BY <1>2, <1>3, <1>4, <1>5, <1>7, <1>8, WithinFour
<1>10. PICK address : address = Linear(j, y)
  OBVIOUS
<1>11. Dot(i, Tensor(source, 3).strides) = address
  BY <1>3, <1>5, <1>6, <1>10, PhysicalAddress
<1>12. address \in 0..(ElementCount(y) - 1)
  BY <1>2, <1>9, <1>10, LinearStays DEF FourAxes
<1>13. PICK at : at = FirstThree(j)
  OBVIOUS
<1>14. at \in Seq(Int) /\ Len(at) = 3 /\ at[1] = i[1] /\ at[2] = i[3] /\ at[3] = i[4]
  BY <1>7, <1>13, FirstThreeIs DEF FourEntries
<1>15. Within(at, PixelsOf(m))
  <2>1. PICK d : d = PixelsOf(m)
    OBVIOUS
  <2>2. Len(d) = 3 /\ d[1] = y[1] /\ d[2] = y[2] /\ d[3] = y[3]
    BY <1>2, <2>1, FirstThreeIs DEF FourAxes
  <2>3. j[1] \in 0..(y[1] - 1) /\ j[2] \in 0..(y[2] - 1) /\ j[3] \in 0..(y[3] - 1)
    BY <1>2, <1>7, <1>9, WithinFour
  <2>4. \A a \in 1..3 : a = 1 \/ a = 2 \/ a = 3
    OBVIOUS
  <2>5. \A a \in 1..3 : at[a] \in 0..(d[a] - 1)
    BY <1>7, <1>14, <2>2, <2>3, <2>4
  <2> QED
    BY <1>14, <2>1, <2>2, <2>5 DEF Within
<1>16. PICK row : row = Linear(at, PixelsOf(m))
  OBVIOUS
<1>17. row \in 0..(Pixels - 1) /\ Delinear(row, PixelsOf(m)) = at
  BY <1>2, <1>15, <1>16, LinearStays
<1>18. address = row * k + i[2]
  BY <1>1, <1>2, <1>7, <1>10, <1>13, <1>16, RowAddress
<1>19. i[2] \in 0..(k - 1)
  BY <1>1, <1>2, <1>7, <1>9, WithinFour
<1>20. address \div k = row /\ address % k = i[2]
  <2>1. row \in Nat
    BY <1>2, <1>17 DEF Positive
  <2> QED
    BY <1>2, <1>18, <1>19, <2>1, Division
<1>21. results[address] = Terms(m, buffer, at, i[2], schedule.width)
  <2>1. position.channel = 0
    BY DEF Running, PositionFits
  <2>2. PICK all \in Nat : all = Pixels * k
    BY <1>2 DEF Positive
  <2>3. Front(metadata, position) = all
    BY <1>1, <2>1, <2>2 DEF Front
  <2>4. address \in DOMAIN results /\ address < Front(metadata, position)
    <3>1. DOMAIN results = 0..(ElementCount(metadata.y) - 1)
      BY DEF Running, ResultsHold
    <3>2. ElementCount(metadata.y) = all
      BY <1>1, <1>2, <2>2
    <3>3. address \in DOMAIN results
      BY <1>1, <1>12, <3>1
    <3>4. address < all
      BY <1>1, <1>12, <3>2
    <3> QED
      BY <2>3, <3>3, <3>4
  <2>5. results[address] = ElementOfY(metadata, buffer, schedule.width, address)
    BY <2>4 DEF Running, ResultsHold
  <2> QED
    BY <1>1, <1>17, <1>20, <2>5 DEF ElementOfY
<1>22. LET products == ProductsOf(Terms(m, buffer, at, i[2], schedule.width))
       IN /\ {<<t[2], t[3]>> : t \in products} = MetPairs(source, at, i[2])
          /\ \A t, u \in products : <<t[2], t[3]>> = <<u[2], u[3]>> => t = u
  <2>1. IsImage(source, buffer) /\ i[2] \in 0..(MetadataOf(source).y[4] - 1)
        /\ Within(at, PixelsOf(MetadataOf(source)))
    BY <1>1, <1>2, <1>15, <1>19 DEF Running
  <2> QED
    BY <1>2, <2>1, TermsAreReference
<1>23. ReferenceTerms(i[1], i[2], i[3], i[4]) = MetPairs(source, at, i[2])
  BY <1>14 DEF ReferenceTerms, MetPairs, FilterElements, Touches, MetAt, Met, FilterAt, Dims
<1> QED
  BY <1>11, <1>21, <1>22, <1>23

(* For every graph, variant and schedule, the kernel of an accepted graph  *)
(* stays in its buffers and, when it returns, has left at every element of *)
(* Y, as the serialized strides address it, each product of the padded     *)
(* convolution once and nothing else (import_conv2d, lower_vector_conv,    *)
(* lower_scalar_conv); verifier and lowering refuse nothing it imports.    *)
THEOREM KernelIsConvolution ==
  ASSUME GraphsWellFormed, TargetFacts
  PROVE  DirectSpec => []KernelConvolves
<1>1. DirectInv => KernelConvolves
  <2> SUFFICES ASSUME DirectInv PROVE KernelConvolves
    OBVIOUS
  <2>1. ~ strayed /\ compiling \notin {"unverified", "unlowered"}
    BY DEF DirectInv
  <2>2. ASSUME compiling = "done", NEW i \in Indices(Tensor(source, 3).dims)
        PROVE  LET products == ProductsOf(results[Dot(i, Tensor(source, 3).strides)])
               IN /\ {<<t[2], t[3]>> : t \in products}
                       = ReferenceTerms(i[1], i[2], i[3], i[4])
                  /\ \A t, u \in products : <<t[2], t[3]>> = <<u[2], u[3]>> => t = u
    <3>1. Imported /\ Scheduled /\ Running /\ position.pixel = Pixels
      BY <2>2 DEF DirectInv
    <3> QED
      BY <3>1, ElementLeft
  <2> QED
    BY <2>1, <2>2 DEF KernelConvolves, ProductsOf
<1> QED
  BY <1>1, KernelAdvances, PTL
=============================================================================
