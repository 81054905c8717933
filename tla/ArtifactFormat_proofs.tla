------------------------ MODULE ArtifactFormat_proofs ------------------------
EXTENDS ArtifactFormat, SequenceTheorems, NaturalsInduction, WellFoundedInduction, TLAPS

(***************************************************************************)
(* Induction over lists, as the absence of a least counterexample.         *)
(***************************************************************************)
LEMMA LeastNumber ==
  ASSUME NEW T \in SUBSET Nat, T # {}
  PROVE  \E n \in T : n = 0 \/ n - 1 \in Nat \ T
<1>1. IsWellFoundedOn(OpToRel(<, Nat), Nat)
  BY NatLessThanWellFounded, Zenon
<1>2. PICK n \in T : \A m \in T : ~ (<<m, n>> \in OpToRel(<, Nat))
  BY <1>1, WFMin, Zenon
<1>3. \A m \in T : ~ (m < n)
  BY <1>2 DEF OpToRel
<1> QED
  BY <1>3

(* A value computed step by step exists.                                   *)
Iterates(f, base, n, step) == f[0] = base /\ \A k \in 1..n : f[k] = step[k][f[k - 1]]

LEMMA IterationExists ==
  ASSUME NEW V, NEW base, NEW n, NEW step,
         base \in V, n \in Nat, step \in [1..n -> [V -> V]]
  PROVE  \E f \in [0..n -> V] : Iterates(f, base, n, step)
<1> DEFINE Upto(m, f) == f[0] = base /\ \A k \in 1..m : f[k] = step[k][f[k - 1]]
           Bad == {m \in 0..n : ~ \E f \in [0..m -> V] : Upto(m, f)}
<1>1. ASSUME Bad # {} PROVE FALSE
  <2>1. PICK m \in Bad : m = 0 \/ m - 1 \in Nat \ Bad
    <3>1. Bad \in SUBSET Nat
      OBVIOUS
    <3> QED
      BY <1>1, <3>1, LeastNumber
  <2>2. CASE m = 0
    <3>1. Upto(0, [k \in 0..0 |-> base]) /\ [k \in 0..0 |-> base] \in [0..0 -> V]
      OBVIOUS
    <3> QED
      BY <2>1, <2>2, <3>1
  <2>3. CASE m # 0
    <3>1. m - 1 \in 0..n /\ m \in 1..n /\ 0..m = 0..(m - 1) \cup {m}
      BY <2>1, <2>3
    <3>2. PICK f \in [0..(m - 1) -> V] : Upto(m - 1, f)
      BY <2>1, <2>3, <3>1
    <3> DEFINE g == [k \in 0..m |-> IF k = m THEN step[m][f[m - 1]] ELSE f[k]]
    <3>3. f[m - 1] \in V /\ step[m][f[m - 1]] \in V
      BY <3>1
    <3>4. g \in [0..m -> V]
      BY <3>1, <3>3
    <3>5. ASSUME NEW k \in 1..m
          PROVE  g[k] = step[k][g[k - 1]]
      <4>1. CASE k = m
        BY <2>3, <3>1, <4>1
      <4>2. CASE k # m
        <5>1. k \in 1..(m - 1) /\ g[k] = f[k] /\ g[k - 1] = f[k - 1]
          BY <3>1, <4>2
        <5> QED
          BY <3>2, <5>1
      <4> QED
        BY <4>1, <4>2
    <3>6. g[0] = base
      BY <2>3, <3>1, <3>2
    <3>7. Upto(m, g)
      BY <3>5, <3>6
    <3> QED
      BY <2>1, <3>4, <3>7
  <2> QED
    BY <2>2, <2>3
<1>2. n \in 0..n
  OBVIOUS
<1>3. PICK f \in [0..n -> V] : Upto(n, f)
  BY <1>1, <1>2
<1> QED
  BY <1>3 DEF Iterates

(* A recursive function is what its equations say, once a function exists  *)
(* that satisfies them.                                                    *)
JointUpTo(pieces) ==
  CHOOSE f : f = [k \in 0..Len(pieces) |-> IF k = 0 THEN <<>> ELSE f[k - 1] \o pieces[k]]

(***************************************************************************)
(* Joining pieces.                                                         *)
(***************************************************************************)
LEMMA JointIterates ==
  ASSUME NEW S, NEW pieces \in Seq(Seq(S))
  PROVE  /\ JointUpTo(pieces) \in [0..Len(pieces) -> Seq(S)]
         /\ JointUpTo(pieces)[0] = <<>>
         /\ \A k \in 1..Len(pieces) :
              JointUpTo(pieces)[k] = JointUpTo(pieces)[k - 1] \o pieces[k]
         /\ Joint(pieces) = JointUpTo(pieces)[Len(pieces)]
<1>1. PICK n : n = Len(pieces) /\ n \in Nat /\ \A k \in 1..n : pieces[k] \in Seq(S)
  OBVIOUS
<1> DEFINE Is(f) == f = [k \in 0..n |-> IF k = 0 THEN <<>> ELSE f[k - 1] \o pieces[k]]
           step == [k \in 1..n |-> [v \in Seq(S) |-> v \o pieces[k]]]
<1>2. step \in [1..n -> [Seq(S) -> Seq(S)]]
  BY <1>1, ConcatProperties
<1>3. <<>> \in Seq(S)
  OBVIOUS
<1>4. PICK g \in [0..n -> Seq(S)] : Iterates(g, <<>>, n, step)
  <2> HIDE DEF step
  <2>1. n \in Nat
    BY <1>1
  <2> QED
    BY <2>1, <1>2, <1>3, IterationExists
<1>5. \A k \in 0..n : g[k] = IF k = 0 THEN <<>> ELSE g[k - 1] \o pieces[k]
  <2>1. ASSUME NEW k \in 1..n
        PROVE  step[k][g[k - 1]] = g[k - 1] \o pieces[k]
    <3>1. k - 1 \in 0..n
      BY <1>1, <2>1
    <3> QED
      BY <3>1
  <2> HIDE DEF step
  <2>2. ASSUME NEW k \in 0..n, k # 0
        PROVE  g[k] = g[k - 1] \o pieces[k]
    <3>1. k \in 1..n
      BY <1>1, <2>2
    <3> QED
      BY <1>4, <2>1, <3>1 DEF Iterates
  <2> QED
    BY <1>4, <2>2 DEF Iterates
<1>6. Is(g)
  <2>1. g = [k \in 0..n |-> g[k]]
    BY <1>4
  <2> QED
    BY <1>5, <2>1, Zenon
<1>7. Is(JointUpTo(pieces))
  BY <1>1, <1>6, Zenon DEF JointUpTo
<1>8. PICK f : f = JointUpTo(pieces)
  OBVIOUS
<1>9. \A k \in 0..n : f[k] = IF k = 0 THEN <<>> ELSE f[k - 1] \o pieces[k]
  BY <1>7, <1>8, Zenon
<1>10. f = [k \in 0..n |-> f[k]]
  BY <1>7, <1>8
<1>11. Joint(pieces) = f[n]
  BY <1>1, <1>8 DEF Joint, JointUpTo
<1> HIDE DEF Is, step
<1>12. ASSUME NEW k \in 0..n PROVE f[k] = g[k]
  <2> DEFINE Bad == {m \in 0..n : f[m] # g[m]}
  <2>1. ASSUME Bad # {} PROVE FALSE
    <3>1. Bad \in SUBSET Nat
      OBVIOUS
    <3>2. PICK m \in Bad : m = 0 \/ m - 1 \in Nat \ Bad
      BY <2>1, <3>1, LeastNumber
    <3>3. m = 0 \/ m - 1 \in 0..n
      BY <1>1, <3>2
    <3> QED
      BY <1>5, <1>9, <3>2, <3>3
  <2> QED
    BY <2>1
<1>13. f = g
  BY <1>4, <1>10, <1>12
<1>14. ASSUME NEW k \in 1..n
       PROVE  g[k] = g[k - 1] \o pieces[k]
  <2>1. k \in 0..n /\ k # 0
    BY <1>1
  <2> QED
    BY <1>5, <2>1
<1>15. g = JointUpTo(pieces) /\ Joint(pieces) = g[n] /\ n = Len(pieces)
  BY <1>1, <1>8, <1>11, <1>13
<1>16. g[0] = <<>>
  BY <1>4 DEF Iterates
<1> QED
  BY <1>4, <1>14, <1>15, <1>16

(* What holds at 0 and at every number after one it holds at, up to n.     *)
Inductive(G, n) == 0 \in G /\ \A k \in 1..n : k - 1 \in G => k \in G

LEMMA NumberInduction ==
  ASSUME NEW n \in Nat, NEW G, Inductive(G, n)
  PROVE  0..n \subseteq G
<1> DEFINE Bad == (0..n) \ G
<1>1. ASSUME Bad # {} PROVE FALSE
  <2>1. Bad \in SUBSET Nat
    OBVIOUS
  <2>2. PICK k \in Bad : k = 0 \/ k - 1 \in Nat \ Bad
    BY <1>1, <2>1, LeastNumber
  <2>3. k # 0 => k \in 1..n /\ k - 1 \in 0..n
    BY <2>2
  <2> QED
    BY <2>2, <2>3 DEF Inductive
<1> QED
  BY <1>1

LEMMA JointStarts ==
  ASSUME NEW S, NEW pieces \in Seq(Seq(S))
  PROVE  JointUpTo(pieces)[0] = <<>> /\ Joint(pieces) = JointUpTo(pieces)[Len(pieces)]
BY JointIterates

LEMMA JointGoesOn ==
  ASSUME NEW S, NEW pieces \in Seq(Seq(S)), NEW k \in 1..Len(pieces)
  PROVE  JointUpTo(pieces)[k] = JointUpTo(pieces)[k - 1] \o pieces[k]
BY JointIterates

LEMMA JointUpToIsList ==
  ASSUME NEW S, NEW pieces \in Seq(Seq(S)), NEW k \in 0..Len(pieces)
  PROVE  JointUpTo(pieces)[k] \in Seq(S)
BY JointIterates

LEMMA JointIsList ==
  ASSUME NEW S, NEW pieces \in Seq(Seq(S))
  PROVE  Joint(pieces) \in Seq(S)
<1>1. Len(pieces) \in 0..Len(pieces)
  BY LenProperties
<1> QED
  BY <1>1, JointStarts, JointUpToIsList

Regroups(s, t, u) == (s \o t) \o u = s \o (t \o u)

LEMMA Regrouped ==
  ASSUME NEW S, NEW s, NEW t, NEW u, s \in Seq(S), t \in Seq(S), u \in Seq(S)
  PROVE  Regroups(s, t, u)
BY ConcatAssociative DEF Regroups

LEMMA JointOfNone ==
  Joint(<<>>) = <<>>
<1>1. <<>> \in Seq(Seq(Nat)) /\ Len(<<>>) = 0
  OBVIOUS
<1> QED
  BY <1>1, JointStarts

(* The first of two lists of pieces is joined first.                       *)
LEMMA JointOfPrefix ==
  ASSUME NEW S, NEW a \in Seq(Seq(S)), NEW b \in Seq(Seq(S))
  PROVE  JointUpTo(a \o b)[Len(a)] = Joint(a)
<1> DEFINE c == a \o b
           G == {k \in 0..Len(a) : JointUpTo(c)[k] = JointUpTo(a)[k]}
<1>1. /\ c \in Seq(Seq(S)) /\ Len(c) = Len(a) + Len(b) /\ Len(a) \in Nat /\ Len(b) \in Nat
      /\ \A k \in 1..Len(a) : c[k] = a[k]
  BY ConcatProperties, LenProperties
<1>2. 0 \in G
  <2>1. JointUpTo(c)[0] = <<>> /\ JointUpTo(a)[0] = <<>>
    BY <1>1, JointStarts
  <2> QED
    BY <1>1, <2>1
<1>3. ASSUME NEW k \in 1..Len(a), k - 1 \in G
      PROVE  k \in G
  <2>1. k \in 1..Len(c) /\ c[k] = a[k] /\ k \in 0..Len(a)
    BY <1>1
  <2>2. JointUpTo(c)[k] = JointUpTo(c)[k - 1] \o c[k]
    BY <1>1, <2>1, JointGoesOn
  <2>3. JointUpTo(a)[k] = JointUpTo(a)[k - 1] \o a[k]
    BY <2>1, JointGoesOn, JointUpToIsList
  <2> QED
    BY <1>3, <2>1, <2>2, <2>3
<1>4. 0..Len(a) \subseteq G
  <2> HIDE DEF G
  <2>1. Inductive(G, Len(a))
    BY <1>2, <1>3 DEF Inductive
  <2> QED
    BY <1>1, <2>1, NumberInduction
<1>5. Len(a) \in G
  BY <1>1, <1>4
<1> QED
  BY <1>5, JointStarts

LEMMA JointConcat ==
  ASSUME NEW S, NEW a \in Seq(Seq(S)), NEW b \in Seq(Seq(S))
  PROVE  Joint(a \o b) = Joint(a) \o Joint(b)
<1> DEFINE c == a \o b
           n == Len(a)
           G == {k \in 0..Len(b) : JointUpTo(c)[n + k] = Joint(a) \o JointUpTo(b)[k]}
<1>1. /\ c \in Seq(Seq(S)) /\ Len(c) = n + Len(b) /\ n \in Nat /\ Len(b) \in Nat
      /\ \A k \in 1..Len(b) : c[n + k] = b[k]
  BY ConcatProperties, LenProperties
<1>2. 0 \in G
  <2>1. JointUpTo(b)[0] = <<>> /\ Joint(a) \in Seq(S)
    BY JointStarts, JointIsList
  <2>2. Joint(a) \o <<>> = Joint(a)
    BY <2>1, ConcatEmptySeq
  <2>3. JointUpTo(c)[n + 0] = Joint(a)
    BY <1>1, JointOfPrefix
  <2> QED
    BY <1>1, <2>1, <2>2, <2>3
<1>3. ASSUME NEW k \in 1..Len(b), k - 1 \in G
      PROVE  k \in G
  <2>1. /\ n + k \in 1..Len(c) /\ c[n + k] = b[k] /\ k \in 0..Len(b) /\ k - 1 \in 0..Len(b)
        /\ (n + k) - 1 = n + (k - 1)
    BY <1>1
  <2>2. JointUpTo(c)[n + k] = JointUpTo(c)[n + (k - 1)] \o c[n + k]
    BY <1>1, <2>1, JointGoesOn
  <2>3. JointUpTo(b)[k] = JointUpTo(b)[k - 1] \o b[k] /\ JointUpTo(b)[k - 1] \in Seq(S)
    BY <2>1, JointGoesOn, JointUpToIsList
  <2>4. Joint(a) \in Seq(S) /\ b[k] \in Seq(S)
    BY JointIsList, ElementOfSeq
  <2>5. (Joint(a) \o JointUpTo(b)[k - 1]) \o b[k] = Joint(a) \o (JointUpTo(b)[k - 1] \o b[k])
    <3>1. PICK s, t, u : s = Joint(a) /\ t = JointUpTo(b)[k - 1] /\ u = b[k]
      OBVIOUS
    <3>2. s \in Seq(S) /\ t \in Seq(S) /\ u \in Seq(S)
      BY <2>3, <2>4, <3>1
    <3>3. (s \o t) \o u = s \o (t \o u)
      <4>1. Regroups(s, t, u)
        BY <3>2, Regrouped
      <4> QED
        BY <4>1 DEF Regroups
    <3> QED
      BY <3>1, <3>3
  <2>6. JointUpTo(c)[n + (k - 1)] = Joint(a) \o JointUpTo(b)[k - 1]
    BY <1>3
  <2> QED
    BY <2>1, <2>2, <2>3, <2>5, <2>6
<1>4. 0..Len(b) \subseteq G
  <2> HIDE DEF G
  <2>1. Inductive(G, Len(b))
    BY <1>2, <1>3 DEF Inductive
  <2> QED
    BY <1>1, <2>1, NumberInduction
<1>5. Len(b) \in G
  <2> HIDE DEF G
  <2> QED
    BY <1>1, <1>4
<1>6. Joint(c) = JointUpTo(c)[n + Len(b)] /\ Joint(b) = JointUpTo(b)[Len(b)]
  BY <1>1, JointStarts
<1> QED
  BY <1>5, <1>6

(***************************************************************************)
(* Units and numbers.                                                      *)
(***************************************************************************)
LEMMA UnitsFacts ==
  /\ Base \in Nat /\ Base > 20 /\ MaxU64 \in Nat /\ MaxI64 \in Nat
  /\ MaxU64 = Base * Base - 1 /\ MaxU64 = 2 * MaxI64 + 1
  /\ MaxStringSize \in Nat /\ MaxStringSize > 0 /\ MaxStringSize < Base
  /\ MaxEntries \in Nat /\ MaxEntries >= 7 /\ MaxEntries < Base
  /\ Base - 1 <= MaxU64
<1>1. /\ Base \in Nat /\ Base > 20
      /\ MaxStringSize \in Nat /\ MaxStringSize > 0 /\ MaxStringSize < Base
      /\ MaxEntries \in Nat /\ MaxEntries >= 7 /\ MaxEntries < Base
  BY UnitsAssumption DEF Units
<1>2. MaxU64 \in Nat /\ MaxI64 \in Nat
  BY MaxU64Assumption DEF MaxI64
<1>3. MaxU64 = Base * Base - 1 /\ MaxU64 = 2 * MaxI64 + 1
  BY <1>1, <1>2, UnitsAssumption
<1>4. Base <= Base * Base
  BY <1>1
<1> QED
  BY <1>1, <1>2, <1>3, <1>4

LEMMA SplitNumber ==
  ASSUME NEW b \in Nat, b > 0, NEW n \in Nat, n < b * b
  PROVE  /\ n % b \in 0..(b - 1) /\ n \div b \in 0..(b - 1)
         /\ (n % b) + b * (n \div b) = n
<1>1. n \div b \in Nat /\ n % b \in 0..(b - 1) /\ n = b * (n \div b) + (n % b)
  OBVIOUS
<1>2. ASSUME n \div b >= b PROVE FALSE
  <2>1. PICK q \in Nat : q = n \div b
    BY <1>1
  <2>2. b * q >= b * b
    BY <1>2, <2>1
  <2> QED
    BY <1>1, <2>1, <2>2
<1> QED
  BY <1>1, <1>2

LEMMA JoinNumber ==
  ASSUME NEW b \in Nat, b > 0, NEW low \in 0..(b - 1), NEW high \in 0..(b - 1)
  PROVE  /\ low + b * high \in 0..(b * b - 1)
         /\ (low + b * high) % b = low /\ (low + b * high) \div b = high
<1>1. b * high <= b * (b - 1) /\ b * high \in Nat
  OBVIOUS
<1>2. b * (b - 1) = b * b - b
  OBVIOUS
<1>3. low + b * high \in 0..(b * b - 1)
  BY <1>1, <1>2
<1>4. PICK q, r : q = (low + b * high) \div b /\ r = (low + b * high) % b
  OBVIOUS
<1>5. q \in Int /\ r \in 0..(b - 1) /\ low + b * high = b * q + r
  BY <1>3, <1>4
<1>6. b * (high - q) = r - low
  BY <1>5
<1>7. ASSUME high > q PROVE FALSE
  BY <1>5, <1>6, <1>7
<1>8. ASSUME high < q PROVE FALSE
  BY <1>5, <1>6, <1>8
<1> QED
  BY <1>3, <1>4, <1>5, <1>7, <1>8

(***************************************************************************)
(* Fields: what is written where it stands is what is read there.          *)
(***************************************************************************)
Field ==
  ({"u32"} \X Units) \cup ({"u64"} \X Unsigned) \cup ({"i64"} \X Signed)
    \cup ({"string"} \X Texts) \cup ({"blob"} \X Objects)

(* The piece stands in the units after the first `from' of them.           *)
StandsAt(piece, units, from) ==
  /\ from + Len(piece) <= Len(units)
  /\ \A i \in 1..Len(piece) : units[from + i] = piece[i]

LEMMA HalvesOfUnsigned ==
  ASSUME NEW n \in Unsigned
  PROVE  /\ n % Base \in Units /\ n \div Base \in Units
         /\ Halves(n) \in Seq(Units) /\ Len(Halves(n)) = 2
         /\ Halves(n)[1] = n % Base /\ Halves(n)[2] = n \div Base
         /\ (n % Base) + Base * (n \div Base) = n
<1>1. n \in Nat /\ n < Base * Base /\ Base \in Nat /\ Base > 0
  BY UnitsFacts DEF Unsigned
<1>2. /\ n % Base \in Units /\ n \div Base \in Units
      /\ (n % Base) + Base * (n \div Base) = n
  BY <1>1, SplitNumber DEF Units
<1> QED
  BY <1>2 DEF Halves

LEMMA UnitsMakeUnsigned ==
  ASSUME NEW low \in Units, NEW high \in Units
  PROVE  low + Base * high \in Unsigned /\ Halves(low + Base * high) = <<low, high>>
<1>1. Base \in Nat /\ Base > 0 /\ low \in 0..(Base - 1) /\ high \in 0..(Base - 1)
  BY UnitsFacts DEF Units
<1>2. /\ low + Base * high \in 0..(Base * Base - 1)
      /\ (low + Base * high) % Base = low /\ (low + Base * high) \div Base = high
  BY <1>1, JoinNumber
<1> QED
  BY <1>2, UnitsFacts DEF Unsigned, Halves

(* What a field of a kind must be to be written.                           *)
LEMMA FieldTypes ==
  ASSUME NEW value
  PROVE  /\ <<"u32", value>> \in Field <=> value \in Units
         /\ <<"u64", value>> \in Field <=> value \in Unsigned
         /\ <<"i64", value>> \in Field <=> value \in Signed
         /\ <<"string", value>> \in Field <=> value \in Texts
         /\ <<"blob", value>> \in Field <=> value \in Objects
BY DEF Field

LEMMA KindOfField ==
  ASSUME NEW field \in Field
  PROVE  /\ field = <<field[1], field[2]>>
         /\ field[1] \in {"u32", "u64", "i64", "string", "blob"}
BY DEF Field

LEMMA EncodedOfKind ==
  ASSUME NEW value
  PROVE  /\ Encoded(<<"u32", value>>) = <<value>>
         /\ Encoded(<<"u64", value>>) = Halves(value)
         /\ Encoded(<<"i64", value>>) =
              Halves(IF value < 0 THEN value + MaxU64 + 1 ELSE value)
         /\ Encoded(<<"string", value>>) = <<Len(value)>> \o value
         /\ Encoded(<<"blob", value>>) = Halves(Len(value)) \o value
BY DEF Encoded

LEMMA ReadOfKind ==
  ASSUME NEW units, NEW from
  PROVE  /\ Read1(units, from, "u32") = ReadUnsigned(units, from, 1)
         /\ Read1(units, from, "u64") = ReadUnsigned(units, from, 2)
         /\ Read1(units, from, "i64") = ReadSigned(units, from)
         /\ Read1(units, from, "string") =
              ReadSized(units, ReadUnsigned(units, from, 1), MaxStringSize)
         /\ Read1(units, from, "blob") =
              ReadSized(units, ReadUnsigned(units, from, 2), MaxU64)
BY DEF Read1

LEMMA BitsOfSigned ==
  ASSUME NEW n \in Signed
  PROVE  (IF n < 0 THEN n + MaxU64 + 1 ELSE n) \in Unsigned
BY UnitsFacts DEF Signed, Unsigned

LEMMA EncodedIsUnits ==
  ASSUME NEW field \in Field
  PROVE  Encoded(field) \in Seq(Units)
<1>1. PICK kind, value : field = <<kind, value>>
  BY KindOfField
<1>2. CASE kind = "u32"
  <2>1. value \in Units
    BY <1>1, <1>2, FieldTypes
  <2>2. Encoded(field) = <<value>>
    BY <1>1, <1>2, EncodedOfKind
  <2> QED
    BY <2>1, <2>2
<1>3. CASE kind = "u64"
  BY <1>1, <1>3, FieldTypes, EncodedOfKind, HalvesOfUnsigned
<1>4. CASE kind = "i64"
  BY <1>1, <1>4, FieldTypes, EncodedOfKind, HalvesOfUnsigned, BitsOfSigned
<1>5. CASE kind = "string"
  <2>1. value \in Seq(Units) /\ Len(value) \in Units
    BY <1>1, <1>5, FieldTypes DEF Texts
  <2>2. <<Len(value)>> \in Seq(Units)
    BY <2>1
  <2> QED
    BY <1>1, <1>5, <2>1, <2>2, EncodedOfKind, ConcatProperties
<1>6. CASE kind = "blob"
  <2>1. value \in Seq(Units) /\ Len(value) \in Nat /\ Len(value) <= MaxU64
    <3>1. value \in Objects
      BY <1>1, <1>6, FieldTypes
    <3> QED
      BY <3>1 DEF Objects
  <2>2. Halves(Len(value)) \in Seq(Units)
    BY <2>1, UnitsFacts, HalvesOfUnsigned DEF Unsigned
  <2> QED
    BY <1>1, <1>6, <2>1, <2>2, EncodedOfKind, ConcatProperties
<1>7. kind \in {"u32", "u64", "i64", "string", "blob"}
  BY <1>1, KindOfField
<1> QED
  BY <1>2, <1>3, <1>4, <1>5, <1>6, <1>7

LEMMA StandsConcat ==
  ASSUME NEW S, NEW units \in Seq(S), NEW p \in Seq(S), NEW q \in Seq(S), NEW from \in Nat
  PROVE  StandsAt(p \o q, units, from)
           <=> StandsAt(p, units, from) /\ StandsAt(q, units, from + Len(p))
<1>1. /\ Len(p \o q) = Len(p) + Len(q) /\ Len(p) \in Nat /\ Len(q) \in Nat
      /\ Len(units) \in Nat
      /\ \A i \in 1..(Len(p) + Len(q)) :
           (p \o q)[i] = IF i <= Len(p) THEN p[i] ELSE q[i - Len(p)]
  BY ConcatProperties, LenProperties
<1>2. ASSUME StandsAt(p \o q, units, from)
      PROVE  StandsAt(p, units, from) /\ StandsAt(q, units, from + Len(p))
  <2>1. ASSUME NEW i \in 1..Len(p) PROVE units[from + i] = p[i]
    <3>1. i \in 1..Len(p \o q) /\ (p \o q)[i] = p[i]
      BY <1>1
    <3> QED
      BY <1>2, <3>1 DEF StandsAt
  <2>2. ASSUME NEW i \in 1..Len(q) PROVE units[from + Len(p) + i] = q[i]
    <3>1. Len(p) + i \in 1..Len(p \o q) /\ (p \o q)[Len(p) + i] = q[i]
      BY <1>1
    <3>2. from + (Len(p) + i) = from + Len(p) + i
      BY <1>1
    <3> QED
      BY <1>2, <3>1, <3>2 DEF StandsAt
  <2>3. from + Len(p) + Len(q) <= Len(units)
    BY <1>1, <1>2 DEF StandsAt
  <2> QED
    BY <1>1, <2>1, <2>2, <2>3 DEF StandsAt
<1>3. ASSUME StandsAt(p, units, from), StandsAt(q, units, from + Len(p))
      PROVE  StandsAt(p \o q, units, from)
  <2>1. ASSUME NEW i \in 1..Len(p \o q)
        PROVE  units[from + i] = (p \o q)[i]
    <3>1. CASE i <= Len(p)
      <4>1. i \in 1..Len(p) /\ (p \o q)[i] = p[i]
        BY <1>1, <3>1
      <4> QED
        BY <1>3, <4>1 DEF StandsAt
    <3>2. CASE i > Len(p)
      <4>1. i - Len(p) \in 1..Len(q) /\ (p \o q)[i] = q[i - Len(p)]
        BY <1>1, <3>2
      <4>2. from + Len(p) + (i - Len(p)) = from + i
        BY <1>1
      <4> QED
        BY <1>3, <4>1, <4>2 DEF StandsAt
    <3> QED
      BY <1>1, <3>1, <3>2
  <2>2. from + Len(p \o q) <= Len(units)
    BY <1>1, <1>3 DEF StandsAt
  <2> QED
    BY <2>1, <2>2 DEF StandsAt
<1> QED
  BY <1>2, <1>3

LEMMA UnitRead ==
  ASSUME NEW units \in Seq(Units), NEW from \in Nat
  PROVE  LET read == ReadUnsigned(units, from, 1)
         IN /\ read.ok => /\ read.value \in Units /\ read.at = from + 1
                          /\ StandsAt(<<read.value>>, units, from)
            /\ \A u : StandsAt(<<u>>, units, from) =>
                        read = [ok |-> TRUE, at |-> from + 1, value |-> u]
<1> DEFINE read == ReadUnsigned(units, from, 1)
<1>1. Len(units) \in Nat
  BY LenProperties
<1>2. CASE from + 1 <= Len(units)
  <2>1. read = [ok |-> TRUE, at |-> from + 1, value |-> units[from + 1]]
    BY <1>2 DEF ReadUnsigned, Has
  <2>2. from + 1 \in 1..Len(units)
    BY <1>1, <1>2
  <2>3. units[from + 1] \in Units
    BY <2>2, ElementOfSeq
  <2> QED
    BY <1>2, <2>1, <2>3 DEF StandsAt
<1>3. CASE ~(from + 1 <= Len(units))
  <2>1. read = Short /\ ~read.ok
    BY <1>3 DEF ReadUnsigned, Has, Short
  <2> QED
    BY <1>3, <2>1 DEF StandsAt
<1> QED
  BY <1>2, <1>3

LEMMA UnsignedRead ==
  ASSUME NEW units \in Seq(Units), NEW from \in Nat
  PROVE  LET read == ReadUnsigned(units, from, 2)
         IN /\ read.ok => /\ read.value \in Unsigned /\ read.at = from + 2
                          /\ StandsAt(Halves(read.value), units, from)
            /\ \A n \in Unsigned :
                 StandsAt(Halves(n), units, from) =>
                   read = [ok |-> TRUE, at |-> from + 2, value |-> n]
<1> DEFINE read == ReadUnsigned(units, from, 2)
<1>1. Len(units) \in Nat
  BY LenProperties
<1>2. CASE from + 2 <= Len(units)
  <2>1. read = [ok |-> TRUE, at |-> from + 2,
                value |-> units[from + 1] + Base * units[from + 2]]
    BY <1>2 DEF ReadUnsigned, Has
  <2>2. from + 1 \in 1..Len(units) /\ from + 2 \in 1..Len(units)
    BY <1>1, <1>2
  <2>3. units[from + 1] \in Units /\ units[from + 2] \in Units
    BY <2>2, ElementOfSeq
  <2>4. read.value \in Unsigned /\ Halves(read.value) = <<units[from + 1], units[from + 2]>>
    BY <2>1, <2>3, UnitsMakeUnsigned
  <2>5. StandsAt(Halves(read.value), units, from)
    <3>1. PICK h : h = <<units[from + 1], units[from + 2]>>
      OBVIOUS
    <3>2. Len(h) = 2 /\ \A i \in 1..2 : units[from + i] = h[i]
      BY <3>1
    <3>3. StandsAt(h, units, from)
      BY <1>2, <3>2 DEF StandsAt
    <3> QED
      BY <2>4, <3>1, <3>3
  <2>6. ASSUME NEW n \in Unsigned, StandsAt(Halves(n), units, from)
        PROVE  read.value = n
    <3>1. Len(Halves(n)) = 2 /\ 1 \in 1..2 /\ 2 \in 1..2
      BY HalvesOfUnsigned
    <3>2. units[from + 1] = n % Base /\ units[from + 2] = n \div Base
      BY <2>6, <3>1, HalvesOfUnsigned DEF StandsAt
    <3> QED
      BY <2>1, <3>2, HalvesOfUnsigned
  <2> QED
    BY <2>1, <2>4, <2>5, <2>6
<1>3. CASE ~(from + 2 <= Len(units))
  <2>1. read = Short /\ ~read.ok
    BY <1>3 DEF ReadUnsigned, Has, Short
  <2>2. ASSUME NEW n \in Unsigned PROVE ~StandsAt(Halves(n), units, from)
    BY <1>3, HalvesOfUnsigned DEF StandsAt
  <2> QED
    BY <2>1, <2>2
<1> QED
  BY <1>2, <1>3

LEMMA SignedOfBits ==
  ASSUME NEW bits \in Unsigned, NEW n,
         n = IF bits > MaxI64 THEN bits - MaxU64 - 1 ELSE bits
  PROVE  n \in Signed /\ bits = IF n < 0 THEN n + MaxU64 + 1 ELSE n
<1>1. bits \in Nat /\ bits <= MaxU64
  BY UnitsFacts DEF Unsigned
<1>2. CASE bits > MaxI64
  BY <1>1, <1>2, UnitsFacts DEF Signed
<1>3. CASE bits <= MaxI64
  BY <1>1, <1>3, UnitsFacts DEF Signed
<1> QED
  BY <1>1, <1>2, <1>3, UnitsFacts

LEMMA SignedRead ==
  ASSUME NEW units \in Seq(Units), NEW from \in Nat
  PROVE  LET read == ReadSigned(units, from)
         IN /\ read.ok => /\ read.value \in Signed /\ read.at = from + 2
                          /\ StandsAt(Encoded(<<"i64", read.value>>), units, from)
            /\ \A n \in Signed :
                 StandsAt(Encoded(<<"i64", n>>), units, from) =>
                   read = [ok |-> TRUE, at |-> from + 2, value |-> n]
<1> DEFINE Bits(n) == IF n < 0 THEN n + MaxU64 + 1 ELSE n
           read == ReadSigned(units, from)
           bits == ReadUnsigned(units, from, 2)
<1>1. /\ bits.ok => /\ bits.value \in Unsigned /\ bits.at = from + 2
                    /\ StandsAt(Halves(bits.value), units, from)
      /\ \A n \in Unsigned : StandsAt(Halves(n), units, from) =>
                               bits = [ok |-> TRUE, at |-> from + 2, value |-> n]
  BY UnsignedRead
<1>2. \A n : Encoded(<<"i64", n>>) = Halves(Bits(n))
  BY EncodedOfKind
<1>3. ASSUME read.ok
      PROVE  /\ read.value \in Signed /\ read.at = from + 2
             /\ StandsAt(Encoded(<<"i64", read.value>>), units, from)
  <2>1. bits.ok
    BY <1>3 DEF ReadSigned
  <2>2. /\ bits = [ok |-> bits.ok, at |-> bits.at, value |-> bits.value]
        /\ bits.value \in Unsigned /\ bits.at = from + 2
        /\ StandsAt(Halves(bits.value), units, from)
    BY <1>1, <2>1 DEF ReadUnsigned, Short
  <2>3. /\ read.at = from + 2
        /\ read.value = IF bits.value > MaxI64 THEN bits.value - MaxU64 - 1 ELSE bits.value
    BY <2>1, <2>2 DEF ReadSigned
  <2>4. read.value \in Signed /\ Bits(read.value) = bits.value
    BY <2>2, <2>3, SignedOfBits
  <2> QED
    BY <1>2, <2>2, <2>3, <2>4
<1>4. ASSUME NEW n \in Signed, StandsAt(Encoded(<<"i64", n>>), units, from)
      PROVE  read = [ok |-> TRUE, at |-> from + 2, value |-> n]
  <2>1. Bits(n) \in Unsigned
    BY BitsOfSigned
  <2>2. bits = [ok |-> TRUE, at |-> from + 2, value |-> Bits(n)]
    BY <1>1, <1>2, <1>4, <2>1
  <2>3. n = IF Bits(n) > MaxI64 THEN Bits(n) - MaxU64 - 1 ELSE Bits(n)
    BY UnitsFacts DEF Signed
  <2>4. PICK b, r : b = bits /\ r = Bits(n)
    OBVIOUS
  <2>5. /\ b = [ok |-> TRUE, at |-> from + 2, value |-> r]
        /\ n = IF r > MaxI64 THEN r - MaxU64 - 1 ELSE r
        /\ read = IF b.ok /\ b.value > MaxI64
                  THEN [b EXCEPT !.value = b.value - MaxU64 - 1] ELSE b
    BY <2>2, <2>3, <2>4 DEF ReadSigned
  <2> HIDE DEF read
  <2>6. CASE r > MaxI64
    BY <2>5, <2>6
  <2>7. CASE ~(r > MaxI64)
    BY <2>5, <2>7
  <2> QED
    BY <2>6, <2>7 DEF read
<1> QED
  BY <1>3, <1>4

(* A text or blob after its size.                                          *)
LEMMA SizedRead ==
  ASSUME NEW units \in Seq(Units), NEW size, NEW limit \in Nat,
         size.ok => size.at \in Nat /\ size.value \in Nat
  PROVE  LET read == ReadSized(units, size, limit)
         IN /\ read.ok => /\ size.ok /\ read.value \in Seq(Units)
                          /\ Len(read.value) = size.value /\ size.value <= limit
                          /\ read.at = size.at + size.value
                          /\ StandsAt(read.value, units, size.at)
            /\ \A v \in Seq(Units) :
                 /\ size.ok /\ Len(v) = size.value /\ size.value <= limit
                 /\ StandsAt(v, units, size.at)
                 => read = [ok |-> TRUE, at |-> size.at + size.value, value |-> v]
<1> DEFINE read == ReadSized(units, size, limit)
           fits == size.ok /\ size.value <= limit /\ size.at + size.value <= Len(units)
           part == SubSeq(units, size.at + 1, size.at + size.value)
<1>1. Len(units) \in Nat
  BY LenProperties
<1>2. CASE fits
  <2>1. size.at \in Nat /\ size.value \in Nat
    BY <1>2
  <2>2. read = [ok |-> TRUE, at |-> size.at + size.value, value |-> part]
    BY <1>2 DEF ReadSized, Has
  <2>3. \A i \in (size.at + 1)..(size.at + size.value) : units[i] \in Units
    BY <1>1, <1>2, <2>1, ElementOfSeq
  <2>4. /\ part \in Seq(Units) /\ Len(part) = size.value
        /\ \A i \in 1..size.value : part[i] = units[size.at + i]
    <3>1. size.at + 1 \in Int /\ size.at + size.value \in Int
      BY <2>1
    <3>2. /\ part \in Seq(Units)
          /\ Len(part) = IF size.at + 1 <= size.at + size.value
                         THEN (size.at + size.value) - (size.at + 1) + 1 ELSE 0
          /\ \A i \in 1..((size.at + size.value) - (size.at + 1) + 1) :
               part[i] = units[(size.at + 1) + i - 1]
      BY <2>3, <3>1, SubSeqProperties
    <3>3. (size.at + size.value) - (size.at + 1) + 1 = size.value
      BY <2>1
    <3>4. ASSUME NEW i \in 1..size.value PROVE (size.at + 1) + i - 1 = size.at + i
      BY <2>1
    <3>5. (size.at + 1 <= size.at + size.value) <=> size.value # 0
      BY <2>1
    <3> QED
      BY <3>2, <3>3, <3>4, <3>5
  <2>5. StandsAt(part, units, size.at)
    BY <1>2, <2>4 DEF StandsAt
  <2>6. ASSUME NEW v \in Seq(Units), Len(v) = size.value, StandsAt(v, units, size.at)
        PROVE  v = part
    <3>1. \A i \in 1..Len(v) : v[i] = part[i]
      BY <2>4, <2>6 DEF StandsAt
    <3> QED
      BY <2>4, <2>6, <3>1, SeqEqual
  <2>7. PICK p, r : p = part /\ r = read
    OBVIOUS
  <2>8. /\ r = [ok |-> TRUE, at |-> size.at + size.value, value |-> p]
        /\ p \in Seq(Units) /\ Len(p) = size.value /\ StandsAt(p, units, size.at)
    BY <2>2, <2>4, <2>5, <2>7
  <2>9. ASSUME NEW v \in Seq(Units), Len(v) = size.value, StandsAt(v, units, size.at)
        PROVE  v = p
    BY <2>6, <2>7, <2>9
  <2> HIDE DEF part, read
  <2>10. /\ r.ok /\ r.value = p /\ r.at = size.at + size.value
    BY <2>8
  <2> QED
    BY <1>2, <2>7, <2>8, <2>9, <2>10 DEF read
<1>3. CASE ~fits
  <2>1. read = Short
    BY <1>3 DEF ReadSized, Has
  <2>2. ~read.ok
    BY <2>1 DEF Short
  <2> QED
    BY <1>3, <2>2 DEF StandsAt
<1> QED
  BY <1>2, <1>3

(* A text longer than a reader takes can be written but not read.          *)
Readable == {field \in Field : field[1] = "string" => Len(field[2]) <= MaxStringSize}

(* What was read is a field that stands there; a field that stands there   *)
(* is what was read.                                                       *)
ReadsWhatStands(read, kind, units, from) ==
  /\ read.ok => /\ <<kind, read.value>> \in Readable
                /\ StandsAt(Encoded(<<kind, read.value>>), units, from)
                /\ read.at = from + Len(Encoded(<<kind, read.value>>))
  /\ \A value :
       <<kind, value>> \in Readable /\ StandsAt(Encoded(<<kind, value>>), units, from)
         => read.ok /\ read.value = value

LEMMA ReadableField ==
  ASSUME NEW kind, NEW value
  PROVE  /\ <<kind, value>> \in Readable => <<kind, value>> \in Field
         /\ <<"string", value>> \in Readable <=>
              value \in Texts /\ Len(value) <= MaxStringSize
         /\ kind # "string" => (<<kind, value>> \in Readable <=> <<kind, value>> \in Field)
BY FieldTypes DEF Readable

LEMMA NumberRead ==
  ASSUME NEW units \in Seq(Units), NEW from \in Nat, NEW kind \in {"u32", "u64", "i64"}
  PROVE  ReadsWhatStands(Read1(units, from, kind), kind, units, from)
<1>1. CASE kind = "u32"
  <2>1. PICK read : read = Read1(units, from, "u32")
    OBVIOUS
  <2>2. /\ read.ok => /\ read.value \in Units /\ read.at = from + 1
                      /\ StandsAt(<<read.value>>, units, from)
        /\ \A u : StandsAt(<<u>>, units, from) =>
                    read = [ok |-> TRUE, at |-> from + 1, value |-> u]
    BY <2>1, ReadOfKind, UnitRead
  <2>3. \A u : Encoded(<<"u32", u>>) = <<u>> /\ Len(<<u>>) = 1
    BY EncodedOfKind
  <2>4. \A u : <<"u32", u>> \in Readable <=> u \in Units
    BY FieldTypes, ReadableField
  <2>5. ASSUME read.ok
        PROVE  /\ <<"u32", read.value>> \in Readable
               /\ StandsAt(Encoded(<<"u32", read.value>>), units, from)
               /\ read.at = from + Len(Encoded(<<"u32", read.value>>))
    BY <2>2, <2>3, <2>4, <2>5
  <2>6. ASSUME NEW v, <<"u32", v>> \in Readable,
               StandsAt(Encoded(<<"u32", v>>), units, from)
        PROVE  read.ok /\ read.value = v
    <3>1. v \in Units
      BY <2>4, <2>6
    <3> QED
      BY <2>2, <2>3, <2>6, <3>1
  <2> QED
    BY <1>1, <2>1, <2>5, <2>6 DEF ReadsWhatStands
<1>2. CASE kind = "u64"
  <2>1. PICK read : read = Read1(units, from, "u64")
    OBVIOUS
  <2>2. /\ read.ok => /\ read.value \in Unsigned /\ read.at = from + 2
                      /\ StandsAt(Halves(read.value), units, from)
        /\ \A n \in Unsigned : StandsAt(Halves(n), units, from) =>
                    read = [ok |-> TRUE, at |-> from + 2, value |-> n]
    BY <2>1, ReadOfKind, UnsignedRead
  <2>3. \A n \in Unsigned : Encoded(<<"u64", n>>) = Halves(n) /\ Len(Halves(n)) = 2
    BY EncodedOfKind, HalvesOfUnsigned
  <2>4. \A n : <<"u64", n>> \in Readable <=> n \in Unsigned
    BY FieldTypes, ReadableField
  <2>5. ASSUME read.ok
        PROVE  /\ <<"u64", read.value>> \in Readable
               /\ StandsAt(Encoded(<<"u64", read.value>>), units, from)
               /\ read.at = from + Len(Encoded(<<"u64", read.value>>))
    BY <2>2, <2>3, <2>4, <2>5
  <2>6. ASSUME NEW v, <<"u64", v>> \in Readable,
               StandsAt(Encoded(<<"u64", v>>), units, from)
        PROVE  read.ok /\ read.value = v
    <3>1. v \in Unsigned
      BY <2>4, <2>6
    <3> QED
      BY <2>2, <2>3, <2>6, <3>1
  <2> QED
    BY <1>2, <2>1, <2>5, <2>6 DEF ReadsWhatStands
<1>3. CASE kind = "i64"
  <2>1. PICK read : read = Read1(units, from, "i64")
    OBVIOUS
  <2>2. /\ read.ok => /\ read.value \in Signed /\ read.at = from + 2
                      /\ StandsAt(Encoded(<<"i64", read.value>>), units, from)
        /\ \A n \in Signed : StandsAt(Encoded(<<"i64", n>>), units, from) =>
                    read = [ok |-> TRUE, at |-> from + 2, value |-> n]
    <3>1. read = ReadSigned(units, from)
      BY <2>1, ReadOfKind
    <3> QED
      BY <3>1, SignedRead
  <2>3. \A n \in Signed : Len(Encoded(<<"i64", n>>)) = 2
    BY EncodedOfKind, BitsOfSigned, HalvesOfUnsigned
  <2>4. \A n : <<"i64", n>> \in Readable <=> n \in Signed
    BY FieldTypes, ReadableField
  <2>5. ASSUME read.ok
        PROVE  /\ <<"i64", read.value>> \in Readable
               /\ StandsAt(Encoded(<<"i64", read.value>>), units, from)
               /\ read.at = from + Len(Encoded(<<"i64", read.value>>))
    BY <2>2, <2>3, <2>4, <2>5
  <2>6. ASSUME NEW v, <<"i64", v>> \in Readable,
               StandsAt(Encoded(<<"i64", v>>), units, from)
        PROVE  read.ok /\ read.value = v
    <3>1. v \in Signed
      BY <2>4, <2>6
    <3> QED
      BY <2>2, <2>3, <2>6, <3>1
  <2> QED
    BY <1>3, <2>1, <2>5, <2>6 DEF ReadsWhatStands
<1> QED
  BY <1>1, <1>2, <1>3

LEMMA TextRead ==
  ASSUME NEW units \in Seq(Units), NEW from \in Nat
  PROVE  ReadsWhatStands(Read1(units, from, "string"), "string", units, from)
<1>1. PICK read : read = Read1(units, from, "string")
  OBVIOUS
<1>2. PICK size : size = ReadUnsigned(units, from, 1)
  OBVIOUS
<1>3. /\ size.ok => /\ size.value \in Units /\ size.at = from + 1
                    /\ StandsAt(<<size.value>>, units, from)
      /\ \A u : StandsAt(<<u>>, units, from) =>
                  size = [ok |-> TRUE, at |-> from + 1, value |-> u]
  BY <1>2, UnitRead
<1>4. size.ok => size.at \in Nat /\ size.value \in Nat
  BY <1>3, UnitsFacts DEF Units
<1>5. /\ read.ok => /\ size.ok /\ read.value \in Seq(Units)
                    /\ Len(read.value) = size.value /\ size.value <= MaxStringSize
                    /\ read.at = size.at + size.value
                    /\ StandsAt(read.value, units, size.at)
      /\ \A v \in Seq(Units) :
           /\ size.ok /\ Len(v) = size.value /\ size.value <= MaxStringSize
           /\ StandsAt(v, units, size.at)
           => read = [ok |-> TRUE, at |-> size.at + size.value, value |-> v]
  <2>1. read = ReadSized(units, size, MaxStringSize)
    BY <1>1, <1>2, ReadOfKind
  <2>2. MaxStringSize \in Nat
    BY UnitsFacts
  <2> QED
    BY <1>4, <2>1, <2>2, SizedRead
<1>6. \A v : Encoded(<<"string", v>>) = <<Len(v)>> \o v
  BY EncodedOfKind
<1>7. \A v : <<"string", v>> \in Readable <=> v \in Texts /\ Len(v) <= MaxStringSize
  BY ReadableField
<1>8. ASSUME NEW v \in Seq(Units), Len(v) \in Units
      PROVE  /\ Len(<<Len(v)>> \o v) = 1 + Len(v)
             /\ StandsAt(<<Len(v)>> \o v, units, from) <=>
                  StandsAt(<<Len(v)>>, units, from) /\ StandsAt(v, units, from + 1)
  <2>1. <<Len(v)>> \in Seq(Units) /\ Len(<<Len(v)>>) = 1
    BY <1>8
  <2>2. Len(<<Len(v)>> \o v) = 1 + Len(v)
    BY <2>1, ConcatProperties
  <2> QED
    BY <2>1, <2>2, StandsConcat
<1>9. ASSUME read.ok
      PROVE  /\ <<"string", read.value>> \in Readable
             /\ StandsAt(Encoded(<<"string", read.value>>), units, from)
             /\ read.at = from + Len(Encoded(<<"string", read.value>>))
  <2>1. /\ read.value \in Seq(Units) /\ Len(read.value) = size.value /\ size.value \in Units
        /\ size.at = from + 1 /\ read.at = size.at + size.value
        /\ size.value <= MaxStringSize
        /\ StandsAt(<<size.value>>, units, from) /\ StandsAt(read.value, units, from + 1)
    BY <1>3, <1>5, <1>9
  <2>2. read.value \in Texts
    BY <2>1 DEF Texts
  <2>3. size.value \in Nat
    BY <2>1, UnitsFacts DEF Units
  <2>4. PICK v : v = read.value
    OBVIOUS
  <2>5. Encoded(<<"string", v>>) = <<Len(v)>> \o v /\ <<"string", v>> \in Readable
    BY <1>6, <1>7, <2>1, <2>2, <2>4
  <2>6. v \in Seq(Units) /\ Len(v) \in Units /\ Len(v) = size.value
    BY <2>1, <2>4
  <2>7. Len(<<Len(v)>> \o v) = 1 + Len(v) /\ StandsAt(<<Len(v)>> \o v, units, from)
    BY <1>8, <2>1, <2>4, <2>6
  <2>8. read.at = from + (1 + Len(v))
    <3>1. PICK n : n = size.value
      OBVIOUS
    <3>2. n \in Nat /\ read.at = (from + 1) + n /\ Len(v) = n
      BY <2>1, <2>3, <2>6, <3>1
    <3>3. (from + 1) + n = from + (1 + n)
      BY <3>2
    <3> QED
      BY <3>2, <3>3
  <2> QED
    BY <2>4, <2>5, <2>7, <2>8
<1>10. ASSUME NEW v, <<"string", v>> \in Readable,
              StandsAt(Encoded(<<"string", v>>), units, from)
       PROVE  read.ok /\ read.value = v
  <2>1. v \in Seq(Units) /\ Len(v) \in Units /\ Len(v) <= MaxStringSize
    BY <1>7, <1>10 DEF Texts
  <2>2. StandsAt(<<Len(v)>>, units, from) /\ StandsAt(v, units, from + 1)
    BY <1>6, <1>8, <1>10, <2>1
  <2> QED
    BY <1>3, <1>5, <2>1, <2>2
<1> QED
  BY <1>1, <1>9, <1>10 DEF ReadsWhatStands

LEMMA BlobRead ==
  ASSUME NEW units \in Seq(Units), NEW from \in Nat
  PROVE  ReadsWhatStands(Read1(units, from, "blob"), "blob", units, from)
<1>1. PICK read : read = Read1(units, from, "blob")
  OBVIOUS
<1>2. PICK size : size = ReadUnsigned(units, from, 2)
  OBVIOUS
<1>3. /\ size.ok => /\ size.value \in Unsigned /\ size.at = from + 2
                    /\ StandsAt(Halves(size.value), units, from)
      /\ \A u \in Unsigned : StandsAt(Halves(u), units, from) =>
                  size = [ok |-> TRUE, at |-> from + 2, value |-> u]
  BY <1>2, UnsignedRead
<1>4. size.ok => size.at \in Nat /\ size.value \in Nat
  BY <1>3, UnitsFacts DEF Unsigned
<1>5. /\ read.ok => /\ size.ok /\ read.value \in Seq(Units)
                    /\ Len(read.value) = size.value /\ size.value <= MaxU64
                    /\ read.at = size.at + size.value
                    /\ StandsAt(read.value, units, size.at)
      /\ \A v \in Seq(Units) :
           /\ size.ok /\ Len(v) = size.value /\ size.value <= MaxU64
           /\ StandsAt(v, units, size.at)
           => read = [ok |-> TRUE, at |-> size.at + size.value, value |-> v]
  <2>1. read = ReadSized(units, size, MaxU64)
    BY <1>1, <1>2, ReadOfKind
  <2>2. MaxU64 \in Nat
    BY UnitsFacts
  <2> QED
    BY <1>4, <2>1, <2>2, SizedRead
<1>6. \A v : Encoded(<<"blob", v>>) = Halves(Len(v)) \o v
  BY EncodedOfKind
<1>7. \A v : <<"blob", v>> \in Readable <=> v \in Objects
  BY ReadableField, FieldTypes
<1>8. ASSUME NEW v \in Seq(Units), Len(v) \in Unsigned
      PROVE  /\ Len(Halves(Len(v)) \o v) = 2 + Len(v)
             /\ StandsAt(Halves(Len(v)) \o v, units, from) <=>
                  StandsAt(Halves(Len(v)), units, from) /\ StandsAt(v, units, from + 2)
  <2>1. Halves(Len(v)) \in Seq(Units) /\ Len(Halves(Len(v))) = 2
    BY <1>8, HalvesOfUnsigned
  <2>2. Len(Halves(Len(v)) \o v) = 2 + Len(v)
    <3>1. PICK h : h = Halves(Len(v))
      OBVIOUS
    <3>2. h \in Seq(Units) /\ Len(h) = 2
      BY <2>1, <3>1
    <3>3. Len(h \o v) = Len(h) + Len(v)
      BY <3>2, ConcatProperties
    <3> QED
      BY <3>1, <3>2, <3>3
  <2> QED
    BY <2>1, <2>2, StandsConcat
<1>9. ASSUME read.ok
      PROVE  /\ <<"blob", read.value>> \in Readable
             /\ StandsAt(Encoded(<<"blob", read.value>>), units, from)
             /\ read.at = from + Len(Encoded(<<"blob", read.value>>))
  <2>1. /\ read.value \in Seq(Units) /\ Len(read.value) = size.value /\ size.value \in Unsigned
        /\ size.at = from + 2 /\ read.at = size.at + size.value
        /\ size.value <= MaxU64
        /\ StandsAt(Halves(size.value), units, from) /\ StandsAt(read.value, units, from + 2)
    BY <1>3, <1>5, <1>9
  <2>2. read.value \in Objects
    BY <2>1 DEF Objects
  <2>3. size.value \in Nat
    BY <2>1, UnitsFacts DEF Unsigned
  <2>4. PICK v : v = read.value
    OBVIOUS
  <2>5. Encoded(<<"blob", v>>) = Halves(Len(v)) \o v /\ <<"blob", v>> \in Readable
    BY <1>6, <1>7, <2>1, <2>2, <2>4
  <2>6. v \in Seq(Units) /\ Len(v) \in Unsigned /\ Len(v) = size.value
    BY <2>1, <2>4
  <2>7. Len(Halves(Len(v)) \o v) = 2 + Len(v) /\ StandsAt(Halves(Len(v)) \o v, units, from)
    BY <1>8, <2>1, <2>4, <2>6
  <2>8. read.at = from + (2 + Len(v))
    <3>1. PICK n : n = size.value
      OBVIOUS
    <3>2. n \in Nat /\ read.at = (from + 2) + n /\ Len(v) = n
      BY <2>1, <2>3, <2>6, <3>1
    <3>3. (from + 2) + n = from + (2 + n)
      BY <3>2
    <3> QED
      BY <3>2, <3>3
  <2> QED
    BY <2>4, <2>5, <2>7, <2>8
<1>10. ASSUME NEW v, <<"blob", v>> \in Readable,
              StandsAt(Encoded(<<"blob", v>>), units, from)
       PROVE  read.ok /\ read.value = v
  <2>1. v \in Seq(Units) /\ Len(v) \in Unsigned /\ Len(v) <= MaxU64
    <3>1. v \in Objects
      BY <1>7, <1>10
    <3>2. v \in Seq(Units) /\ Len(v) <= MaxU64 /\ Len(v) \in Nat
      BY <3>1 DEF Objects
    <3> QED
      BY <3>2, UnitsFacts DEF Unsigned
  <2>2. StandsAt(Halves(Len(v)), units, from) /\ StandsAt(v, units, from + 2)
    BY <1>6, <1>8, <1>10, <2>1
  <2> QED
    BY <1>3, <1>5, <2>1, <2>2
<1> QED
  BY <1>1, <1>9, <1>10 DEF ReadsWhatStands

(* Reading a field is the inverse of writing it.                           *)
LEMMA FieldRead ==
  ASSUME NEW units \in Seq(Units), NEW from \in Nat,
         NEW kind \in {"u32", "u64", "i64", "string", "blob"}
  PROVE  ReadsWhatStands(Read1(units, from, kind), kind, units, from)
BY NumberRead, TextRead, BlobRead

(***************************************************************************)
(* Writing lists of fields.                                                *)
(***************************************************************************)
LEMMA JointOfOne ==
  ASSUME NEW S, NEW piece \in Seq(S)
  PROVE  Joint(<<piece>>) = piece
<1>1. PICK pieces : pieces = <<piece>>
  OBVIOUS
<1>2. pieces \in Seq(Seq(S)) /\ Len(pieces) = 1 /\ pieces[1] = piece /\ 1 \in 1..Len(pieces)
  BY <1>1
<1>3. Joint(pieces) = JointUpTo(pieces)[1] /\ JointUpTo(pieces)[0] = <<>>
  BY <1>2, JointStarts
<1>4. JointUpTo(pieces)[1] = JointUpTo(pieces)[0] \o piece
  <2>1. JointUpTo(pieces)[1] = JointUpTo(pieces)[1 - 1] \o pieces[1]
    BY <1>2, JointGoesOn
  <2> QED
    BY <1>2, <2>1
<1>5. <<>> \o piece = piece
  BY ConcatEmptySeq
<1> QED
  BY <1>1, <1>3, <1>4, <1>5

EncodedEach(fields) == [k \in DOMAIN fields |-> Encoded(fields[k])]

LEMMA EncodedPieces ==
  ASSUME NEW fields \in Seq(Field)
  PROVE  /\ EncodedEach(fields) \in Seq(Seq(Units))
         /\ Len(EncodedEach(fields)) = Len(fields)
         /\ WrittenUnits(fields) = Joint(EncodedEach(fields))
<1>1. DOMAIN fields = 1..Len(fields) /\ Len(fields) \in Nat
  BY LenProperties
<1>2. \A k \in 1..Len(fields) : Encoded(fields[k]) \in Seq(Units)
  BY ElementOfSeq, EncodedIsUnits
<1>3. EncodedEach(fields) \in [1..Len(fields) -> Seq(Units)]
  BY <1>1, <1>2 DEF EncodedEach
<1>4. WrittenUnits(fields) = Joint(EncodedEach(fields))
  BY DEF WrittenUnits, EncodedEach
<1> QED
  BY <1>1, <1>3, <1>4

LEMMA WrittenIsUnits ==
  ASSUME NEW fields \in Seq(Field)
  PROVE  WrittenUnits(fields) \in Seq(Units) /\ Len(WrittenUnits(fields)) \in Nat
BY EncodedPieces, JointIsList, LenProperties

LEMMA WrittenConcat ==
  ASSUME NEW a \in Seq(Field), NEW b \in Seq(Field)
  PROVE  WrittenUnits(a \o b) = WrittenUnits(a) \o WrittenUnits(b)
<1>1. PICK c \in Seq(Field) : c = a \o b
  BY ConcatProperties
<1>2. /\ Len(c) = Len(a) + Len(b) /\ Len(a) \in Nat /\ Len(b) \in Nat
      /\ DOMAIN a = 1..Len(a) /\ DOMAIN b = 1..Len(b) /\ DOMAIN c = 1..Len(c)
      /\ \A i \in 1..(Len(a) + Len(b)) : c[i] = IF i <= Len(a) THEN a[i] ELSE b[i - Len(a)]
  BY <1>1, ConcatProperties, LenProperties
<1>3. PICK p, q, r : p = EncodedEach(a) /\ q = EncodedEach(b) /\ r = EncodedEach(c)
  OBVIOUS
<1>4. /\ p \in Seq(Seq(Units)) /\ q \in Seq(Seq(Units)) /\ r \in Seq(Seq(Units))
      /\ Len(p) = Len(a) /\ Len(q) = Len(b) /\ Len(r) = Len(a) + Len(b)
  BY <1>2, <1>3, EncodedPieces
<1>5. /\ \A k \in 1..Len(a) : p[k] = Encoded(a[k])
      /\ \A k \in 1..Len(b) : q[k] = Encoded(b[k])
      /\ \A k \in 1..(Len(a) + Len(b)) : r[k] = Encoded(c[k])
  BY <1>2, <1>3 DEF EncodedEach
<1>6. ASSUME NEW k \in 1..Len(r)
      PROVE  r[k] = (p \o q)[k]
  <2>1. k \in 1..(Len(p) + Len(q)) /\ (p \o q)[k] = IF k <= Len(p) THEN p[k] ELSE q[k - Len(p)]
    <3>1. p \in Seq(Seq(Units)) /\ q \in Seq(Seq(Units)) /\ k \in 1..(Len(p) + Len(q))
      BY <1>2, <1>4
    <3> QED
      BY <3>1, ConcatProperties
  <2>2. CASE k <= Len(p)
    BY <1>2, <1>4, <1>5, <2>1, <2>2
  <2>3. CASE k > Len(p)
    <3>1. k - Len(a) \in 1..Len(b) /\ ~(k <= Len(a))
      BY <1>2, <1>4, <2>1, <2>3
    <3> QED
      BY <1>2, <1>4, <1>5, <2>1, <3>1
  <2> QED
    BY <1>2, <1>4, <2>1, <2>2, <2>3
<1>7. r = p \o q
  <2>1. p \o q \in Seq(Seq(Units)) /\ Len(p \o q) = Len(r)
    <3>1. Len(p \o q) = Len(p) + Len(q) /\ p \o q \in Seq(Seq(Units))
      BY <1>4, ConcatProperties
    <3> QED
      BY <1>4, <3>1
  <2> QED
    BY <1>4, <1>6, <2>1, SeqEqual
<1>8. Joint(r) = Joint(p) \o Joint(q)
  BY <1>4, <1>7, JointConcat
<1> QED
  BY <1>1, <1>3, <1>8, EncodedPieces

LEMMA WrittenOne ==
  ASSUME NEW field \in Field
  PROVE  WrittenUnits(<<field>>) = Encoded(field) /\ <<field>> \in Seq(Field)
<1>1. PICK one : one = <<field>>
  OBVIOUS
<1>2. DOMAIN one = 1..1 /\ one[1] = field /\ one \in Seq(Field)
  <2> HIDE DEF Field
  <2> QED
    BY <1>1
<1>3. EncodedEach(one) = <<Encoded(field)>>
  BY <1>2 DEF EncodedEach
<1>4. Joint(<<Encoded(field)>>) = Encoded(field)
  BY EncodedIsUnits, JointOfOne
<1> QED
  BY <1>1, <1>2, <1>3, <1>4, EncodedPieces

LEMMA WrittenNone ==
  WrittenUnits(<<>>) = <<>> /\ <<>> \in Seq(Field)
<1>1. DOMAIN <<>> = {}
  OBVIOUS
<1>2. EncodedEach(<<>>) = <<>>
  BY <1>1 DEF EncodedEach
<1>3. <<>> \in Seq(Field)
  BY EmptySeq
<1>4. WrittenUnits(<<>>) = Joint(EncodedEach(<<>>))
  BY <1>3, EncodedPieces
<1> QED
  BY <1>2, <1>3, <1>4, JointOfNone

LEMMA WrittenAppend ==
  ASSUME NEW fields \in Seq(Field), NEW field \in Field
  PROVE  WrittenUnits(Append(fields, field)) = WrittenUnits(fields) \o Encoded(field)
<1>1. Append(fields, field) = fields \o <<field>>
  BY AppendIsConcat
<1> QED
  BY <1>1, WrittenOne, WrittenConcat

(***************************************************************************)
(* Reading lists of fields.                                                *)
(***************************************************************************)
Kinds == {"u32", "u64", "i64", "string", "blob"}
Values == {field[2] : field \in Field}
Results == [ok : {TRUE}, value : Seq(Values), at : Nat] \cup {Short}

ReadAllUpTo(units, from, kinds) ==
  CHOOSE f : f = [k \in 0..Len(kinds) |->
                    IF k = 0 THEN NothingRead(from) ELSE ReadNext(units, f[k - 1], kinds[k])]

LEMMA ReadNextResult ==
  ASSUME NEW units \in Seq(Units), NEW kind \in Kinds, NEW before \in Results
  PROVE  ReadNext(units, before, kind) \in Results
<1>1. PICK one : one = Read1(units, before.at, kind)
  OBVIOUS
<1>2. CASE before.ok /\ one.ok
  <2>1. before.at \in Nat /\ before.value \in Seq(Values)
    <3>1. before # Short
      BY <1>2 DEF Short
    <3>2. before \in [ok : {TRUE}, value : Seq(Values), at : Nat]
      BY <3>1 DEF Results
    <3> QED
      BY <3>2
  <2>2. /\ <<kind, one.value>> \in Field
        /\ one.at = before.at + Len(Encoded(<<kind, one.value>>))
    BY <1>1, <1>2, <2>1, FieldRead, ReadableField DEF ReadsWhatStands, Kinds
  <2>3. one.value \in Values
    <3>1. PICK field \in Field : field = <<kind, one.value>>
      BY <2>2
    <3>2. field[2] = one.value
      BY <3>1
    <3> QED
      BY <3>2 DEF Values
  <2>4. one.at \in Nat
    <3>1. Len(Encoded(<<kind, one.value>>)) \in Nat
      BY <2>2, EncodedIsUnits, LenProperties
    <3> QED
      BY <2>1, <2>2, <3>1
  <2>5. Append(before.value, one.value) \in Seq(Values)
    BY <2>1, <2>3, AppendProperties
  <2> QED
    BY <1>1, <1>2, <2>4, <2>5 DEF ReadNext, Results
<1>3. CASE ~(before.ok /\ one.ok)
  BY <1>1, <1>3 DEF ReadNext, Results
<1> QED
  BY <1>2, <1>3

LEMMA ReadAllIterates ==
  ASSUME NEW units \in Seq(Units), NEW from \in Nat, NEW kinds \in Seq(Kinds)
  PROVE  /\ ReadAllUpTo(units, from, kinds)[0] = NothingRead(from)
         /\ \A k \in 1..Len(kinds) :
              ReadAllUpTo(units, from, kinds)[k] =
                ReadNext(units, ReadAllUpTo(units, from, kinds)[k - 1], kinds[k])
         /\ ReadAll(units, from, kinds) = ReadAllUpTo(units, from, kinds)[Len(kinds)]
<1>1. PICK n : n = Len(kinds) /\ n \in Nat /\ \A k \in 1..n : kinds[k] \in Kinds
  BY LenProperties
<1> DEFINE Is(f) == f = [k \in 0..n |->
                           IF k = 0 THEN NothingRead(from) ELSE ReadNext(units, f[k - 1], kinds[k])]
           step == [k \in 1..n |-> [v \in Results |-> ReadNext(units, v, kinds[k])]]
<1>2. step \in [1..n -> [Results -> Results]]
  BY <1>1, ReadNextResult
<1>3. NothingRead(from) \in Results
  BY EmptySeq DEF NothingRead, Results
<1>4. PICK g \in [0..n -> Results] : Iterates(g, NothingRead(from), n, step)
  <2> HIDE DEF step
  <2>1. n \in Nat
    BY <1>1
  <2> QED
    BY <2>1, <1>2, <1>3, IterationExists
<1>5. \A k \in 0..n :
        g[k] = IF k = 0 THEN NothingRead(from) ELSE ReadNext(units, g[k - 1], kinds[k])
  <2>1. ASSUME NEW k \in 1..n
        PROVE  step[k][g[k - 1]] = ReadNext(units, g[k - 1], kinds[k])
    <3>1. k - 1 \in 0..n
      BY <1>1, <2>1
    <3> QED
      BY <3>1
  <2> HIDE DEF step
  <2>2. ASSUME NEW k \in 0..n, k # 0
        PROVE  g[k] = ReadNext(units, g[k - 1], kinds[k])
    <3>1. k \in 1..n
      BY <1>1, <2>2
    <3> QED
      BY <1>4, <2>1, <3>1 DEF Iterates
  <2> QED
    BY <1>4, <2>2 DEF Iterates
<1>6. Is(g)
  <2>1. g = [k \in 0..n |-> g[k]]
    BY <1>4
  <2> QED
    BY <1>5, <2>1, Zenon
<1>7. Is(ReadAllUpTo(units, from, kinds))
  BY <1>1, <1>6, Zenon DEF ReadAllUpTo
<1>8. PICK f : f = ReadAllUpTo(units, from, kinds)
  OBVIOUS
<1>9. \A k \in 0..n :
        f[k] = IF k = 0 THEN NothingRead(from) ELSE ReadNext(units, f[k - 1], kinds[k])
  BY <1>7, <1>8, Zenon
<1>10. ReadAll(units, from, kinds) = f[n]
  BY <1>1, <1>8 DEF ReadAll, ReadAllUpTo
<1> HIDE DEF Is, step
<1>11. f[0] = NothingRead(from)
  BY <1>1, <1>9
<1>12. ASSUME NEW k \in 1..n
       PROVE  f[k] = ReadNext(units, f[k - 1], kinds[k])
  <2>1. k \in 0..n /\ k # 0
    BY <1>1
  <2> QED
    BY <1>9, <2>1
<1> QED
  BY <1>1, <1>8, <1>10, <1>11, <1>12

LEMMA ReadAllFirst ==
  ASSUME NEW units \in Seq(Units), NEW from \in Nat, NEW kinds \in Seq(Kinds)
  PROVE  /\ ReadAllUpTo(units, from, kinds)[0] = NothingRead(from)
         /\ ReadAll(units, from, kinds) = ReadAllUpTo(units, from, kinds)[Len(kinds)]
BY ReadAllIterates

LEMMA ReadAllNext ==
  ASSUME NEW units \in Seq(Units), NEW from \in Nat, NEW kinds \in Seq(Kinds),
         NEW k \in 1..Len(kinds)
  PROVE  ReadAllUpTo(units, from, kinds)[k] =
           ReadNext(units, ReadAllUpTo(units, from, kinds)[k - 1], kinds[k])
BY ReadAllIterates

(* The fields of these kinds and values.                                   *)
Paired(kinds, values) == [k \in DOMAIN values |-> <<kinds[k], values[k]>>]

(* So much of a list of fields was read.                                   *)
Progress(units, from, kinds, k, read) ==
  /\ read.value \in Seq(Values) /\ Len(read.value) = k
  /\ Paired(kinds, read.value) \in Seq(Readable)
  /\ StandsAt(WrittenUnits(Paired(kinds, read.value)), units, from)
  /\ read.at = from + Len(WrittenUnits(Paired(kinds, read.value)))

LEMMA ReadableLists ==
  ASSUME NEW fields \in Seq(Readable)
  PROVE  fields \in Seq(Field)
BY SeqMonotonic DEF Readable

LEMMA PairedAppend ==
  ASSUME NEW kinds, NEW values \in Seq(Values), NEW value
  PROVE  Paired(kinds, Append(values, value))
           = Append(Paired(kinds, values), <<kinds[Len(values) + 1], value>>)
<1> DEFINE S == Values \cup {value}
           more == Append(values, value)
           T == {<<kinds[k], v>> : k \in 1..(Len(values) + 1), v \in S}
<1>1. values \in Seq(S) /\ value \in S /\ Len(values) \in Nat
  BY SeqMonotonic, LenProperties
<1>2. /\ more \in Seq(S) /\ Len(more) = Len(values) + 1
      /\ \A i \in 1..Len(values) : more[i] = values[i]
      /\ more[Len(values) + 1] = value
  BY <1>1, AppendProperties
<1>3. DOMAIN more = 1..(Len(values) + 1) /\ DOMAIN values = 1..Len(values)
  BY <1>1, <1>2, LenProperties
<1>4. \A k \in 1..Len(values) : values[k] \in S
  BY <1>1, ElementOfSeq
<1> HIDE DEF more, S
<1>5. Paired(kinds, values) \in Seq(T) /\ Len(Paired(kinds, values)) = Len(values)
  BY <1>1, <1>3, <1>4 DEF Paired
<1>6. <<kinds[Len(values) + 1], value>> \in T
  BY <1>1
<1>7. Paired(kinds, more) \in Seq(T) /\ Len(Paired(kinds, more)) = Len(values) + 1
  BY <1>1, <1>2, <1>3, <1>4 DEF Paired
<1>8. PICK p, q, e : /\ p = Paired(kinds, values) /\ q = Paired(kinds, more)
                     /\ e = <<kinds[Len(values) + 1], value>>
  OBVIOUS
<1>9. /\ \A i \in 1..Len(values) : p[i] = <<kinds[i], values[i]>>
      /\ \A i \in 1..(Len(values) + 1) : q[i] = <<kinds[i], more[i]>>
  BY <1>3, <1>8 DEF Paired
<1> HIDE DEF T
<1>10. /\ Append(p, e) \in Seq(T) /\ Len(Append(p, e)) = Len(values) + 1
       /\ \A i \in 1..Len(values) : Append(p, e)[i] = p[i]
       /\ Append(p, e)[Len(values) + 1] = e
  BY <1>5, <1>6, <1>8, AppendProperties
<1>11. ASSUME NEW i \in 1..(Len(values) + 1)
       PROVE  Append(p, e)[i] = q[i]
  <2>1. CASE i = Len(values) + 1
    BY <1>2, <1>8, <1>9, <1>10, <2>1
  <2>2. CASE i # Len(values) + 1
    <3>1. i \in 1..Len(values)
      BY <1>1, <2>2
    <3> QED
      BY <1>2, <1>9, <1>10, <3>1
  <2> QED
    BY <2>1, <2>2
<1>12. Append(p, e) = q
  BY <1>7, <1>8, <1>10, <1>11, SeqEqual
<1> QED
  BY <1>8, <1>12 DEF more

LEMMA ProgressNext ==
  ASSUME NEW units \in Seq(Units), NEW from \in Nat, NEW kinds \in Seq(Kinds),
         NEW k \in 1..Len(kinds), NEW before, before.ok,
         Progress(units, from, kinds, k - 1, before),
         ReadNext(units, before, kinds[k]).ok
  PROVE  Progress(units, from, kinds, k, ReadNext(units, before, kinds[k]))
<1>1. PICK one, next, fields : /\ one = Read1(units, before.at, kinds[k])
                               /\ next = ReadNext(units, before, kinds[k])
                               /\ fields = Paired(kinds, before.value)
  OBVIOUS
<1>2. /\ before.value \in Seq(Values) /\ Len(before.value) = k - 1
      /\ fields \in Seq(Readable) /\ fields \in Seq(Field)
      /\ StandsAt(WrittenUnits(fields), units, from)
      /\ before.at = from + Len(WrittenUnits(fields))
  BY <1>1, ReadableLists DEF Progress
<1>3. Len(WrittenUnits(fields)) \in Nat /\ WrittenUnits(fields) \in Seq(Units)
  BY <1>2, WrittenIsUnits
<1>4. before.at \in Nat /\ kinds[k] \in Kinds
  BY <1>2, <1>3, ElementOfSeq
<1>5. /\ one.ok
      /\ next = [ok |-> TRUE, value |-> Append(before.value, one.value), at |-> one.at]
  BY <1>1 DEF ReadNext, Short
<1>6. PICK field : field = <<kinds[k], one.value>>
  OBVIOUS
<1>7. /\ field \in Readable /\ StandsAt(Encoded(field), units, before.at)
      /\ one.at = before.at + Len(Encoded(field))
  <2>1. PICK kind, place : kind = kinds[k] /\ place = before.at
    OBVIOUS
  <2>2. kind \in {"u32", "u64", "i64", "string", "blob"} /\ place \in Nat
    BY <1>4, <2>1 DEF Kinds
  <2>3. ReadsWhatStands(Read1(units, place, kind), kind, units, place)
    BY <2>2, FieldRead
  <2>4. one = Read1(units, place, kind) /\ one.ok
    BY <1>1, <1>5, <2>1
  <2> QED
    BY <1>6, <2>1, <2>3, <2>4 DEF ReadsWhatStands
<1>8. field \in Field /\ Encoded(field) \in Seq(Units) /\ Len(Encoded(field)) \in Nat
  BY <1>7, EncodedIsUnits, LenProperties DEF Readable
<1>9. one.value \in Values
  <2>1. field[2] = one.value
    BY <1>6
  <2> QED
    BY <1>8, <2>1 DEF Values
<1>10. /\ next.value \in Seq(Values) /\ Len(next.value) = k
  <2>1. k \in Nat
    BY LenProperties
  <2> QED
    BY <1>2, <1>5, <1>9, <2>1, AppendProperties
<1>11. Paired(kinds, next.value) = Append(fields, field)
  <2>1. (k - 1) + 1 = k
    BY LenProperties
  <2> QED
    BY <1>1, <1>2, <1>5, <1>6, <2>1, PairedAppend, SMTT(30)
<1>12. Append(fields, field) \in Seq(Readable)
  BY <1>2, <1>7, AppendProperties
<1>13. WrittenUnits(Append(fields, field)) = WrittenUnits(fields) \o Encoded(field)
  BY <1>2, <1>8, WrittenAppend
<1>14. /\ StandsAt(WrittenUnits(Append(fields, field)), units, from)
       /\ Len(WrittenUnits(Append(fields, field)))
            = Len(WrittenUnits(fields)) + Len(Encoded(field))
  BY <1>2, <1>3, <1>7, <1>8, <1>13, StandsConcat, ConcatProperties
<1>15. next.at = from + Len(WrittenUnits(Append(fields, field)))
  BY <1>2, <1>3, <1>5, <1>7, <1>8, <1>14
<1> QED
  BY <1>1, <1>10, <1>11, <1>12, <1>14, <1>15 DEF Progress

(* What ReadAll returns was written there.                                 *)
LEMMA ReadAllSound ==
  ASSUME NEW units \in Seq(Units), NEW from \in 0..Len(units), NEW kinds \in Seq(Kinds),
         ReadAll(units, from, kinds).ok
  PROVE  Progress(units, from, kinds, Len(kinds), ReadAll(units, from, kinds))
<1>1. PICK f : f = ReadAllUpTo(units, from, kinds)
  OBVIOUS
<1>2. Len(kinds) \in Nat /\ from \in Nat /\ Len(units) \in Nat
  BY LenProperties
<1>3. /\ f[0] = NothingRead(from) /\ ReadAll(units, from, kinds) = f[Len(kinds)]
      /\ \A k \in 1..Len(kinds) : f[k] = ReadNext(units, f[k - 1], kinds[k])
  BY <1>1, <1>2, ReadAllFirst, ReadAllNext
<1> DEFINE G == {k \in 0..Len(kinds) : f[k].ok => Progress(units, from, kinds, k, f[k])}
<1>4. 0 \in G
  <2>1. <<>> \in Seq(Values) /\ <<>> \in Seq(Readable) /\ Len(<<>>) = 0
    BY EmptySeq
  <2>2. Paired(kinds, <<>>) = <<>>
    BY DEF Paired
  <2>3. WrittenUnits(<<>>) = <<>>
    BY WrittenNone
  <2>4. StandsAt(<<>>, units, from) /\ from = from + Len(<<>>)
    BY <1>2, <2>1 DEF StandsAt
  <2>5. f[0].value = <<>> /\ f[0].at = from
    BY <1>3 DEF NothingRead
  <2>6. Progress(units, from, kinds, 0, f[0])
    BY <2>1, <2>2, <2>3, <2>4, <2>5 DEF Progress
  <2> QED
    BY <1>2, <2>6
<1>5. ASSUME NEW k \in 1..Len(kinds), k - 1 \in G
      PROVE  k \in G
  <2>1. f[k] = ReadNext(units, f[k - 1], kinds[k])
    BY <1>3
  <2>2. ASSUME f[k].ok
        PROVE  Progress(units, from, kinds, k, f[k])
    <3>1. PICK before : before = f[k - 1]
      OBVIOUS
    <3>2. before.ok
      BY <2>1, <2>2, <3>1 DEF ReadNext, Short
    <3>3. Progress(units, from, kinds, k - 1, before)
      BY <1>5, <3>1, <3>2
    <3>4. ReadNext(units, before, kinds[k]).ok
      BY <2>1, <2>2, <3>1
    <3>5. Progress(units, from, kinds, k, ReadNext(units, before, kinds[k]))
      BY <1>2, <3>2, <3>3, <3>4, ProgressNext
    <3> QED
      BY <2>1, <3>1, <3>5
  <2>3. k \in 0..Len(kinds)
    BY <1>2
  <2> QED
    BY <2>2, <2>3
<1>6. Len(kinds) \in G
  <2> HIDE DEF G
  <2>1. Inductive(G, Len(kinds))
    BY <1>4, <1>5 DEF Inductive
  <2>2. 0..Len(kinds) \subseteq G
    BY <1>2, <2>1, NumberInduction
  <2> QED
    BY <1>2, <2>2
<1> QED
  BY <1>3, <1>6

KindsOf(fields) == [k \in DOMAIN fields |-> fields[k][1]]

LEMMA KindsOfFields ==
  ASSUME NEW fields \in Seq(Readable)
  PROVE  /\ KindsOf(fields) \in Seq(Kinds) /\ Len(KindsOf(fields)) = Len(fields)
         /\ DOMAIN fields = 1..Len(fields) /\ Len(fields) \in Nat
         /\ \A k \in 1..Len(fields) : /\ KindsOf(fields)[k] = fields[k][1]
                                      /\ fields[k] = <<fields[k][1], fields[k][2]>>
                                      /\ fields[k] \in Readable
<1>1. DOMAIN fields = 1..Len(fields) /\ Len(fields) \in Nat
  BY LenProperties
<1>2. ASSUME NEW k \in 1..Len(fields)
      PROVE  fields[k] \in Readable /\ fields[k][1] \in Kinds
               /\ fields[k] = <<fields[k][1], fields[k][2]>>
  <2>1. fields[k] \in Readable
    BY ElementOfSeq
  <2>2. fields[k] \in Field
    BY <2>1 DEF Readable
  <2> QED
    BY <2>1, <2>2, KindOfField DEF Kinds
<1> QED
  BY <1>1, <1>2 DEF KindsOf

(* A part of a list.                                                       *)
LEMMA Prefix ==
  ASSUME NEW S, NEW list \in Seq(S), NEW k \in 0..Len(list)
  PROVE  /\ SubSeq(list, 1, k) \in Seq(S) /\ Len(SubSeq(list, 1, k)) = k
         /\ \A i \in 1..k : SubSeq(list, 1, k)[i] = list[i]
<1>1. Len(list) \in Nat /\ \A i \in 1..k : list[i] \in S
  BY LenProperties, ElementOfSeq
<1>2. 1 \in Int /\ k \in Int
  BY <1>1
<1>3. /\ SubSeq(list, 1, k) \in Seq(S)
      /\ Len(SubSeq(list, 1, k)) = IF 1 <= k THEN k - 1 + 1 ELSE 0
      /\ \A i \in 1..(k - 1 + 1) : SubSeq(list, 1, k)[i] = list[1 + i - 1]
  BY <1>1, <1>2, SubSeqProperties
<1>4. k - 1 + 1 = k /\ \A i \in 1..k : 1 + i - 1 = i
  BY <1>1
<1>5. (IF 1 <= k THEN k - 1 + 1 ELSE 0) = k
  BY <1>1
<1> QED
  BY <1>3, <1>4, <1>5

LEMMA WrittenSplit ==
  ASSUME NEW fields \in Seq(Field), NEW k \in 1..Len(fields)
  PROVE  \E rest \in Seq(Units) :
           WrittenUnits(fields) =
             (WrittenUnits(SubSeq(fields, 1, k - 1)) \o Encoded(fields[k])) \o rest
<1>1. Len(fields) \in Nat /\ k - 1 \in 0..Len(fields) /\ k \in 0..Len(fields)
        /\ fields[k] \in Field
  BY LenProperties, ElementOfSeq
<1>2. PICK a, b, c : /\ a = SubSeq(fields, 1, k - 1) /\ b = SubSeq(fields, 1, k)
                     /\ c = SubSeq(fields, k + 1, Len(fields))
  OBVIOUS
<1>3. a \in Seq(Field) /\ b \in Seq(Field)
  BY <1>1, <1>2, Prefix
<1>4. c \in Seq(Field)
  <2>1. \A i \in (k + 1)..Len(fields) : fields[i] \in Field
    BY <1>1, ElementOfSeq
  <2> QED
    BY <1>1, <1>2, <2>1, SubSeqProperties
<1>5. b \o c = fields
  <2>1. /\ 1 \in 1..(Len(fields) + 1) /\ k \in (1 - 1)..Len(fields)
        /\ Len(fields) \in k..Len(fields)
    BY <1>1
  <2>2. SubSeq(fields, 1, k) \o SubSeq(fields, k + 1, Len(fields))
          = SubSeq(fields, 1, Len(fields))
    BY <2>1, ConcatAdjacentSubSeq
  <2> QED
    BY <1>2, <2>2, SubSeqFull
<1>6. b = Append(a, fields[k])
  <2>1. SubSeq(fields, 1, k) = SubSeq(fields, 1, k - 1) \o <<fields[k]>>
    <3>1. 1 \in 1..Len(fields) /\ k \in 1..Len(fields)
      BY <1>1
    <3> QED
      BY <3>1, SubSeqRecursiveSecond
  <2> QED
    BY <1>1, <1>2, <1>3, <2>1, AppendIsConcat
<1>7. WrittenUnits(fields) = WrittenUnits(b) \o WrittenUnits(c)
  BY <1>3, <1>4, <1>5, WrittenConcat
<1>8. WrittenUnits(b) = WrittenUnits(a) \o Encoded(fields[k])
  BY <1>1, <1>3, <1>6, WrittenAppend
<1>9. WrittenUnits(c) \in Seq(Units)
  BY <1>4, WrittenIsUnits
<1> QED
  BY <1>2, <1>7, <1>8, <1>9

(* What was written is what ReadAll returns.                               *)
LEMMA ReadAllComplete ==
  ASSUME NEW units \in Seq(Units), NEW from \in Nat, NEW fields \in Seq(Readable),
         StandsAt(WrittenUnits(fields), units, from)
  PROVE  LET read == ReadAll(units, from, KindsOf(fields))
         IN /\ read.ok
            /\ Len(read.value) = Len(fields)
            /\ \A k \in 1..Len(fields) : read.value[k] = fields[k][2]
            /\ read.at = from + Len(WrittenUnits(fields))
<1>1. PICK n, kinds, f : /\ n = Len(fields) /\ kinds = KindsOf(fields)
                         /\ f = ReadAllUpTo(units, from, kinds)
  OBVIOUS
<1>2. /\ kinds \in Seq(Kinds) /\ Len(kinds) = n /\ n \in Nat
      /\ \A k \in 1..n : /\ kinds[k] = fields[k][1] /\ fields[k] \in Readable
                         /\ fields[k] = <<fields[k][1], fields[k][2]>>
  BY <1>1, KindsOfFields
<1>3. /\ f[0] = NothingRead(from) /\ ReadAll(units, from, kinds) = f[n]
      /\ \A k \in 1..n : f[k] = ReadNext(units, f[k - 1], kinds[k])
  BY <1>1, <1>2, ReadAllFirst, ReadAllNext
<1>4. fields \in Seq(Field) /\ WrittenUnits(fields) \in Seq(Units)
  BY ReadableLists, WrittenIsUnits
<1>5. from \in 0..Len(units) /\ Len(units) \in Nat
  <2>1. Len(WrittenUnits(fields)) \in Nat /\ Len(units) \in Nat
    BY <1>4, LenProperties
  <2>2. from + Len(WrittenUnits(fields)) <= Len(units)
    BY DEF StandsAt
  <2> QED
    BY <2>1, <2>2
<1> DEFINE G == {k \in 0..n : /\ f[k].ok /\ Progress(units, from, kinds, k, f[k])
                              /\ Paired(kinds, f[k].value) = SubSeq(fields, 1, k)}
<1>6. 0 \in G
  <2>1. <<>> \in Seq(Values) /\ <<>> \in Seq(Readable) /\ Len(<<>>) = 0
    BY EmptySeq
  <2>2. Paired(kinds, <<>>) = <<>>
    BY DEF Paired
  <2>3. WrittenUnits(<<>>) = <<>>
    BY WrittenNone
  <2>4. StandsAt(<<>>, units, from) /\ from = from + Len(<<>>)
    BY <1>5, <2>1 DEF StandsAt
  <2>5. f[0].value = <<>> /\ f[0].at = from /\ f[0].ok
    BY <1>3 DEF NothingRead
  <2>6. Progress(units, from, kinds, 0, f[0])
    BY <2>1, <2>2, <2>3, <2>4, <2>5 DEF Progress
  <2>7. SubSeq(fields, 1, 0) = <<>>
    BY SubSeqEmpty
  <2>8. Paired(kinds, f[0].value) = SubSeq(fields, 1, 0) /\ f[0].ok
    BY <2>2, <2>5, <2>7
  <2>9. 0 \in 0..n
    BY <1>2
  <2> QED
    BY <2>6, <2>8, <2>9
<1>7. ASSUME NEW k \in 1..n, k - 1 \in G
      PROVE  k \in G
  <2>1. PICK before, after : before = f[k - 1] /\ after = f[k]
    OBVIOUS
  <2>2. PICK one : one = Read1(units, before.at, kinds[k])
    OBVIOUS
  <2>3. PICK prefix : prefix = SubSeq(fields, 1, k - 1)
    OBVIOUS
  <2>4. /\ before.ok /\ Progress(units, from, kinds, k - 1, before)
        /\ Paired(kinds, before.value) = prefix
    BY <1>7, <2>1, <2>3
  <2>5. /\ prefix \in Seq(Field) /\ before.at = from + Len(WrittenUnits(prefix))
        /\ before.value \in Seq(Values) /\ Len(before.value) = k - 1
    BY <2>4, ReadableLists DEF Progress
  <2>6. PICK rest \in Seq(Units) :
          WrittenUnits(fields) = (WrittenUnits(prefix) \o Encoded(fields[k])) \o rest
    BY <1>1, <1>4, <2>3, WrittenSplit
  <2>7. /\ WrittenUnits(prefix) \in Seq(Units) /\ Len(WrittenUnits(prefix)) \in Nat
        /\ Encoded(fields[k]) \in Seq(Units)
    BY <1>2, <2>5, WrittenIsUnits, EncodedIsUnits DEF Readable
  <2>8. StandsAt(Encoded(fields[k]), units, before.at)
    <3>1. PICK p, e : p = WrittenUnits(prefix) /\ e = Encoded(fields[k])
      OBVIOUS
    <3>2. p \in Seq(Units) /\ e \in Seq(Units) /\ p \o e \in Seq(Units)
      BY <2>7, <3>1, ConcatProperties
    <3>3. StandsAt((p \o e) \o rest, units, from)
      BY <2>6, <3>1
    <3>4. StandsAt(p \o e, units, from)
      BY <3>2, <3>3, StandsConcat
    <3>5. StandsAt(e, units, from + Len(p))
      BY <3>2, <3>4, StandsConcat
    <3> QED
      BY <2>5, <3>1, <3>5
  <2>9. one.ok /\ one.value = fields[k][2]
    <3>1. before.at \in Nat
      BY <2>5, <2>7
    <3>2. kinds[k] \in Kinds
      BY <1>2, ElementOfSeq
    <3>3. ReadsWhatStands(one, kinds[k], units, before.at)
      BY <2>2, <3>1, <3>2, FieldRead DEF Kinds
    <3>4. PICK value : value = fields[k][2]
      OBVIOUS
    <3>5. <<kinds[k], value>> = fields[k] /\ fields[k] \in Readable
      BY <1>2, <3>4
    <3> QED
      BY <2>8, <3>3, <3>4, <3>5 DEF ReadsWhatStands
  <2>10. /\ after = ReadNext(units, before, kinds[k])
         /\ after.ok /\ after.value = Append(before.value, one.value)
    <3>1. after = ReadNext(units, before, kinds[k])
      BY <1>3, <2>1
    <3> QED
      BY <2>2, <2>4, <2>9, <3>1 DEF ReadNext
  <2>11. Progress(units, from, kinds, k, after)
    BY <1>2, <1>5, <2>4, <2>10, ProgressNext
  <2>12. Paired(kinds, after.value) = SubSeq(fields, 1, k)
    <3>1. Paired(kinds, after.value) = Append(prefix, <<kinds[k], one.value>>)
      <4>1. (k - 1) + 1 = k
        BY <1>2
      <4> QED
        BY <2>4, <2>5, <2>10, <4>1, PairedAppend, SMTT(30)
    <3>2. <<kinds[k], one.value>> = fields[k]
      BY <1>2, <2>9
    <3>3. SubSeq(fields, 1, k) = prefix \o <<fields[k]>>
      <4>1. 1 \in 1..Len(fields) /\ k \in 1..Len(fields)
        BY <1>1, <1>2
      <4> QED
        BY <2>3, <4>1, SubSeqRecursiveSecond
    <3>4. fields[k] \in Field
      BY <1>2 DEF Readable
    <3>5. Append(prefix, fields[k]) = prefix \o <<fields[k]>>
      BY <2>5, <3>4, AppendIsConcat
    <3> QED
      BY <3>1, <3>2, <3>3, <3>5
  <2>13. k \in 0..n
    BY <1>2
  <2> QED
    BY <2>1, <2>10, <2>11, <2>12, <2>13
<1>8. n \in G
  <2> HIDE DEF G
  <2>1. Inductive(G, n)
    BY <1>6, <1>7 DEF Inductive
  <2>2. 0..n \subseteq G
    BY <1>2, <2>1, NumberInduction
  <2> QED
    BY <1>2, <2>2
<1>9. PICK read : read = f[n]
  OBVIOUS
<1>10. /\ read.ok /\ Progress(units, from, kinds, n, read)
       /\ Paired(kinds, read.value) = fields
  BY <1>1, <1>8, <1>9, SubSeqFull
<1>11. /\ Len(read.value) = n /\ DOMAIN read.value = 1..n
       /\ read.at = from + Len(WrittenUnits(fields))
  BY <1>10, LenProperties DEF Progress
<1>12. ASSUME NEW k \in 1..n
       PROVE  read.value[k] = fields[k][2]
  <2>1. fields[k] = <<kinds[k], read.value[k]>>
    BY <1>10, <1>11 DEF Paired
  <2> QED
    BY <2>1
<1> QED
  BY <1>1, <1>3, <1>9, <1>10, <1>11, <1>12

(***************************************************************************)
(* What is written of an artifact are fields.                              *)
(***************************************************************************)
(* Fields with no text longer than a limit.                                *)
Limited(L) == {field \in Field : field[1] = "string" => Len(field[2]) <= L}

LEMMA LimitedIsField ==
  ASSUME NEW L, NEW fields \in Seq(Limited(L))
  PROVE  fields \in Seq(Field)
BY SeqMonotonic DEF Limited

LEMMA LimitedIsReadable ==
  Limited(MaxStringSize) = Readable
BY DEF Limited, Readable

LEMMA LimitedNumbers ==
  ASSUME NEW L, NEW n
  PROVE  /\ n \in Units => U32(n) \in Limited(L)
         /\ n \in Unsigned => U64(n) \in Limited(L)
         /\ n \in Signed => I64(n) \in Limited(L)
         /\ n \in Objects => Blob(n) \in Limited(L)
<1>1. /\ n \in Units => U32(n) \in Field
      /\ n \in Unsigned => U64(n) \in Field
      /\ n \in Signed => I64(n) \in Field
      /\ n \in Objects => Blob(n) \in Field
  BY FieldTypes DEF U32, U64, I64, Blob
<1>2. U32(n)[1] # "string" /\ U64(n)[1] # "string" /\ I64(n)[1] # "string"
        /\ Blob(n)[1] # "string"
  BY DEF U32, U64, I64, Blob
<1> QED
  BY <1>1, <1>2 DEF Limited

LEMMA LimitedText ==
  ASSUME NEW L, NEW text \in Texts, Len(text) <= L
  PROVE  String(text) \in Limited(L)
<1>1. String(text) \in Field /\ String(text)[2] = text
  BY FieldTypes DEF String
<1> QED
  BY <1>1 DEF Limited

LEMMA SignedList ==
  ASSUME NEW L, NEW list \in Seq(Signed)
  PROVE  I64s(list) \in Seq(Limited(L)) /\ Len(I64s(list)) = Len(list)
<1>1. DOMAIN list = 1..Len(list) /\ Len(list) \in Nat
  BY LenProperties
<1>2. \A k \in 1..Len(list) : I64(list[k]) \in Limited(L)
  BY ElementOfSeq, LimitedNumbers
<1> HIDE DEF Limited
<1> QED
  BY <1>1, <1>2 DEF I64s

LEMMA SincePart ==
  ASSUME NEW S, NEW first, NEW version, NEW fields \in Seq(S)
  PROVE  Since(first, version, fields) \in Seq(S)
BY EmptySeq DEF Since

(* Every piece of the list is a list.                                      *)
LEMMA JointOfEach ==
  ASSUME NEW S, NEW list, NEW T, list \in Seq(T), NEW piece,
         piece = [k \in DOMAIN list |-> piece[k]],
         \A k \in 1..Len(list) : piece[k] \in Seq(S)
  PROVE  piece \in Seq(Seq(S)) /\ Len(piece) = Len(list) /\ Joint(piece) \in Seq(S)
<1>1. DOMAIN list = 1..Len(list) /\ Len(list) \in Nat
  BY LenProperties
<1>2. piece \in [1..Len(list) -> Seq(S)]
  BY <1>1
<1>3. piece \in Seq(Seq(S)) /\ Len(piece) = Len(list)
  BY <1>1, <1>2
<1> QED
  BY <1>3, JointIsList

LEMMA ArgumentFields ==
  ASSUME NEW L, NEW a \in ArgumentRecord, Len(a.name) <= L, NEW version
  PROVE  Argument(a, version) \in Seq(Limited(L))
<1> DEFINE F == Limited(L)
<1>1. /\ a.uid \in Signed /\ a.name \in Texts /\ a.type \in Units /\ a.access \in Units
      /\ a.storage \in Units /\ a.offsetUid \in Signed /\ a.sequenceUid \in Signed
      /\ a.divisor \in Signed /\ a.alignment \in Unsigned /\ a.size \in Unsigned
      /\ a.dims \in Seq(Signed) /\ Len(a.dims) \in Units /\ a.strides \in Seq(Signed)
  <2>1. /\ a.uid \in Signed /\ a.name \in Texts /\ a.type \in 0..19
        /\ a.access \in kRead..kReadWrite /\ a.storage \in 0..kRaggedBatchPrefix
        /\ a.offsetUid \in Signed /\ a.sequenceUid \in Signed
        /\ a.divisor \in Signed /\ a.alignment \in Unsigned /\ a.size \in Unsigned
        /\ a.dims \in Lists(Signed) /\ a.strides \in Lists(Signed)
    BY DEF ArgumentRecord
  <2>2. Base \in Nat /\ Base > 20 /\ Units = 0..(Base - 1)
    BY UnitsAssumption DEF Units
  <2>3. a.access \in Units /\ a.storage \in Units
    BY <2>1, <2>2 DEF kRead, kReadWrite, kRaggedBatchPrefix
  <2>4. a.type \in Units
    <3>1. 0..19 \subseteq Units
      BY <2>2
    <3> QED
      BY <2>1, <3>1
  <2> QED
    BY <2>1, <2>3, <2>4 DEF Lists
<1>2. /\ I64(a.uid) \in F /\ String(a.name) \in F /\ U32(a.type) \in F /\ U32(a.access) \in F
      /\ U32(a.storage) \in F /\ I64(a.offsetUid) \in F /\ I64(a.sequenceUid) \in F
      /\ I64(a.divisor) \in F /\ U64(a.alignment) \in F /\ U64(a.size) \in F
      /\ U32(Len(a.dims)) \in F
  BY <1>1, LimitedNumbers, LimitedText
<1>3. I64s(a.dims) \in Seq(F) /\ I64s(a.strides) \in Seq(F)
  BY <1>1, SignedList
<1> HIDE DEF F
<1>4. /\ <<I64(a.uid), String(a.name), U32(a.type), U32(a.access)>> \in Seq(F)
      /\ <<U32(a.storage), I64(a.offsetUid), I64(a.sequenceUid)>> \in Seq(F)
      /\ <<I64(a.divisor)>> \in Seq(F)
      /\ <<U64(a.alignment), U64(a.size), U32(Len(a.dims))>> \in Seq(F)
  BY <1>2
<1>5. /\ Since(4, version, <<U32(a.storage), I64(a.offsetUid), I64(a.sequenceUid)>>) \in Seq(F)
      /\ Since(5, version, <<I64(a.divisor)>>) \in Seq(F)
  BY <1>4, SincePart
<1>6. Argument(a, version) \in Seq(F)
  BY <1>3, <1>4, <1>5, ConcatProperties DEF Argument
<1> QED
  BY <1>6 DEF F

(* A signed value takes two units.                                         *)
LEMMA SignedUnits ==
  ASSUME NEW list \in Seq(Signed)
  PROVE  Len(WrittenUnits(I64s(list))) = 2 * Len(list)
<1>1. PICK fields, n : fields = I64s(list) /\ n = Len(list)
  OBVIOUS
<1>2. /\ fields \in Seq(Field) /\ Len(fields) = n /\ n \in Nat
      /\ \A k \in 1..n : fields[k] = I64(list[k]) /\ list[k] \in Signed
  <2>1. fields \in Seq(Limited(0)) /\ Len(fields) = n
    BY <1>1, SignedList
  <2>2. n \in Nat /\ DOMAIN list = 1..n /\ \A k \in 1..n : list[k] \in Signed
    BY <1>1, LenProperties, ElementOfSeq
  <2>3. \A k \in 1..n : fields[k] = I64(list[k])
    BY <1>1, <2>2 DEF I64s
  <2> QED
    BY <2>1, <2>2, <2>3, LimitedIsField
<1> DEFINE W(k) == WrittenUnits(SubSeq(fields, 1, k))
           G == {k \in 0..n : Len(W(k)) = 2 * k}
<1>3. 0 \in G
  <2>1. SubSeq(fields, 1, 0) = <<>>
    BY SubSeqEmpty
  <2>2. W(0) = <<>>
    BY <2>1, WrittenNone
  <2>3. Len(<<>>) = 2 * 0
    BY EmptySeq
  <2>4. 0 \in 0..n
    BY <1>2
  <2> HIDE DEF W
  <2> QED
    BY <2>2, <2>3, <2>4
<1>4. ASSUME NEW k \in 1..n, k - 1 \in G
      PROVE  k \in G
  <2>1. PICK a : a = SubSeq(fields, 1, k - 1)
    OBVIOUS
  <2>2. a \in Seq(Field) /\ fields[k] \in Field /\ 1 \in 1..Len(fields) /\ k \in 1..Len(fields)
    <3>1. k - 1 \in 0..Len(fields) /\ k \in 1..Len(fields) /\ 1 \in 1..Len(fields)
      BY <1>2
    <3> QED
      BY <1>2, <2>1, <3>1, Prefix, ElementOfSeq
  <2>3. SubSeq(fields, 1, k) = a \o <<fields[k]>>
    BY <1>2, <2>1, <2>2, SubSeqRecursiveSecond
  <2>4. W(k) = WrittenUnits(a) \o Encoded(fields[k])
    BY <2>2, <2>3, WrittenConcat, WrittenOne
  <2>5. Len(Encoded(fields[k])) = 2
    <3>1. fields[k] = <<"i64", list[k]>> /\ list[k] \in Signed
      BY <1>2 DEF I64
    <3> QED
      BY <3>1, EncodedOfKind, BitsOfSigned, HalvesOfUnsigned
  <2>6. WrittenUnits(a) \in Seq(Units) /\ Encoded(fields[k]) \in Seq(Units)
    BY <2>2, WrittenIsUnits, EncodedIsUnits
  <2>7. Len(W(k)) = Len(WrittenUnits(a)) + Len(Encoded(fields[k]))
    BY <2>4, <2>6, ConcatProperties
  <2>8. Len(WrittenUnits(a)) = 2 * (k - 1)
    BY <1>4, <2>1
  <2>9. 2 * (k - 1) + 2 = 2 * k /\ k \in 0..n
    BY <1>2
  <2> HIDE DEF W
  <2> QED
    BY <2>5, <2>7, <2>8, <2>9
<1>5. n \in G
  <2> HIDE DEF G
  <2>1. Inductive(G, n)
    BY <1>3, <1>4 DEF Inductive
  <2>2. 0..n \subseteq G
    BY <1>2, <2>1, NumberInduction
  <2> QED
    BY <1>2, <2>2
<1>6. SubSeq(fields, 1, n) = fields
  BY <1>2, SubSeqFull
<1> QED
  BY <1>1, <1>5, <1>6

ConvolutionList(conv) ==
  conv.uids \o conv.x \o conv.w \o conv.y \o conv.padded
    \o conv.pre \o conv.post \o conv.stride \o conv.dilation

LEMMA ListOfArray ==
  ASSUME NEW S, NEW n \in Nat, NEW array \in [1..n -> S]
  PROVE  array \in Seq(S) /\ Len(array) = n
OBVIOUS

LEMMA ShortArrays ==
  ASSUME NEW S
  PROVE  /\ \A a \in [1..2 -> S] : a \in Seq(S) /\ Len(a) = 2
         /\ \A a \in [1..3 -> S] : a \in Seq(S) /\ Len(a) = 3
         /\ \A a \in [1..4 -> S] : a \in Seq(S) /\ Len(a) = 4
<1>1. 2 \in Nat /\ 3 \in Nat /\ 4 \in Nat
  OBVIOUS
<1>2. \A a \in [1..2 -> S] : a \in Seq(S) /\ Len(a) = 2
  BY <1>1, ListOfArray
<1>3. \A a \in [1..3 -> S] : a \in Seq(S) /\ Len(a) = 3
  BY <1>1, ListOfArray
<1>4. \A a \in [1..4 -> S] : a \in Seq(S) /\ Len(a) = 4
  BY <1>1, ListOfArray
<1> QED
  BY <1>2, <1>3, <1>4

LEMMA ConcatLengths ==
  ASSUME NEW S, NEW a \in Seq(S), NEW b \in Seq(S)
  PROVE  a \o b \in Seq(S) /\ Len(a \o b) = Len(a) + Len(b)
BY ConcatProperties

LEMMA ConvolutionLists ==
  ASSUME NEW conv \in ConvolutionRecord
  PROVE  /\ ConvolutionList(conv) \in Seq(Signed) /\ Len(ConvolutionList(conv)) = 27
         /\ Convolution(conv) = I64s(ConvolutionList(conv))
<1>1. /\ conv.uids \in [1..3 -> Signed] /\ conv.x \in Shape /\ conv.w \in Shape
      /\ conv.y \in Shape /\ conv.padded \in Shape /\ conv.pre \in Pair
      /\ conv.post \in Pair /\ conv.stride \in Pair /\ conv.dilation \in Pair
  BY DEF ConvolutionRecord
<1>2. /\ conv.uids \in Seq(Signed) /\ Len(conv.uids) = 3
      /\ conv.x \in Seq(Signed) /\ Len(conv.x) = 4
      /\ conv.w \in Seq(Signed) /\ Len(conv.w) = 4
      /\ conv.y \in Seq(Signed) /\ Len(conv.y) = 4
      /\ conv.padded \in Seq(Signed) /\ Len(conv.padded) = 4
      /\ conv.pre \in Seq(Signed) /\ Len(conv.pre) = 2
      /\ conv.post \in Seq(Signed) /\ Len(conv.post) = 2
      /\ conv.stride \in Seq(Signed) /\ Len(conv.stride) = 2
      /\ conv.dilation \in Seq(Signed) /\ Len(conv.dilation) = 2
  BY <1>1, ShortArrays DEF Shape, Pair
<1> DEFINE l1 == conv.uids \o conv.x
           l2 == l1 \o conv.w
           l3 == l2 \o conv.y
           l4 == l3 \o conv.padded
           l5 == l4 \o conv.pre
           l6 == l5 \o conv.post
           l7 == l6 \o conv.stride
           l8 == l7 \o conv.dilation
<1>3. l1 \in Seq(Signed) /\ Len(l1) = 7
  <2>1. l1 \in Seq(Signed) /\ Len(l1) = Len(conv.uids) + Len(conv.x)
    BY <1>2, ConcatLengths
  <2> QED
    BY <1>2, <2>1
<1> HIDE DEF l1
<1>4. l2 \in Seq(Signed) /\ Len(l2) = 11
  <2>1. l2 \in Seq(Signed) /\ Len(l2) = Len(l1) + Len(conv.w)
    BY <1>2, <1>3, ConcatLengths
  <2> QED
    BY <1>2, <1>3, <2>1
<1> HIDE DEF l2
<1>5. l3 \in Seq(Signed) /\ Len(l3) = 15
  <2>1. l3 \in Seq(Signed) /\ Len(l3) = Len(l2) + Len(conv.y)
    BY <1>2, <1>4, ConcatLengths
  <2> QED
    BY <1>2, <1>4, <2>1
<1> HIDE DEF l3
<1>6. l4 \in Seq(Signed) /\ Len(l4) = 19
  <2>1. l4 \in Seq(Signed) /\ Len(l4) = Len(l3) + Len(conv.padded)
    BY <1>2, <1>5, ConcatLengths
  <2> QED
    BY <1>2, <1>5, <2>1
<1> HIDE DEF l4
<1>7. l5 \in Seq(Signed) /\ Len(l5) = 21
  <2>1. l5 \in Seq(Signed) /\ Len(l5) = Len(l4) + Len(conv.pre)
    BY <1>2, <1>6, ConcatLengths
  <2> QED
    BY <1>2, <1>6, <2>1
<1> HIDE DEF l5
<1>8. l6 \in Seq(Signed) /\ Len(l6) = 23
  <2>1. l6 \in Seq(Signed) /\ Len(l6) = Len(l5) + Len(conv.post)
    BY <1>2, <1>7, ConcatLengths
  <2> QED
    BY <1>2, <1>7, <2>1
<1> HIDE DEF l6
<1>9. l7 \in Seq(Signed) /\ Len(l7) = 25
  <2>1. l7 \in Seq(Signed) /\ Len(l7) = Len(l6) + Len(conv.stride)
    BY <1>2, <1>8, ConcatLengths
  <2> QED
    BY <1>2, <1>8, <2>1
<1> HIDE DEF l7
<1>10. l8 \in Seq(Signed) /\ Len(l8) = 27
  <2>1. l8 \in Seq(Signed) /\ Len(l8) = Len(l7) + Len(conv.dilation)
    BY <1>2, <1>9, ConcatLengths
  <2> QED
    BY <1>2, <1>9, <2>1
<1>11. l8 = ConvolutionList(conv)
  BY DEF ConvolutionList, l1, l2, l3, l4, l5, l6, l7
<1> QED
  BY <1>10, <1>11 DEF Convolution, ConvolutionList

LEMMA ConvolutionFieldsWritten ==
  ASSUME NEW L, NEW conv \in ConvolutionRecord
  PROVE  /\ Convolution(conv) \in Seq(Limited(L))
         /\ WrittenUnits(Convolution(conv)) \in Seq(Units)
         /\ Len(WrittenUnits(Convolution(conv))) = 54
<1>1. PICK list \in Seq(Signed) : Len(list) = 27 /\ Convolution(conv) = I64s(list)
  BY ConvolutionLists
<1>2. I64s(list) \in Seq(Limited(L)) /\ Len(WrittenUnits(I64s(list))) = 2 * 27
  BY <1>1, SignedList, SignedUnits
<1>3. WrittenUnits(I64s(list)) \in Seq(Units)
  BY <1>2, LimitedIsField, WrittenIsUnits
<1> QED
  BY <1>1, <1>2, <1>3

(* The lists of fields, field by field.                                    *)
LEMMA U32sOfThree ==
  ASSUME NEW a, NEW b, NEW c
  PROVE  U32s(<<a, b, c>>) = <<U32(a), U32(b), U32(c)>>
BY DEF U32s

LEMMA StringsOfFive ==
  ASSUME NEW a, NEW b, NEW c, NEW d, NEW e
  PROVE  Strings(<<a, b, c, d, e>>)
           = <<String(a), String(b), String(c), String(d), String(e)>>
BY DEF Strings

LEMMA ThreeAndTwo ==
  ASSUME NEW a, NEW b, NEW c, NEW d, NEW e
  PROVE  <<a, b, c>> \o <<d, e>> = <<a, b, c, d, e>>
<1> DEFINE S == {a, b, c, d, e}
           s == <<a, b, c>>
           t == <<d, e>>
           u == <<a, b, c, d, e>>
<1>1. s \in Seq(S) /\ t \in Seq(S) /\ u \in Seq(S) /\ Len(s) = 3 /\ Len(t) = 2 /\ Len(u) = 5
  OBVIOUS
<1>2. /\ s[1] = u[1] /\ s[2] = u[2] /\ s[3] = u[3] /\ t[1] = u[4] /\ t[2] = u[5]
  OBVIOUS
<1> HIDE DEF S, s, t, u
<1>3. s \o t \in Seq(S) /\ Len(s \o t) = 5 /\ \A k \in 1..5 : (s \o t)[k] = u[k]
  <2>1. /\ s \o t \in Seq(S) /\ Len(s \o t) = Len(s) + Len(t)
        /\ \A k \in 1..Len(s) + Len(t) : (s \o t)[k] = IF k <= Len(s) THEN s[k] ELSE t[k - Len(s)]
    BY <1>1, ConcatProperties
  <2> QED
    BY <1>1, <1>2, <2>1
<1>4. s \o t = u
  BY <1>1, <1>3, SeqEqual
<1> QED
  BY <1>4 DEF s, t, u

LEMMA ThreeAndFive ==
  ASSUME NEW a, NEW b, NEW c, NEW d, NEW e, NEW f, NEW g, NEW h
  PROVE  <<a, b, c>> \o <<d, e, f, g, h>> = <<a, b, c, d, e, f, g, h>>
<1> DEFINE S == {a, b, c, d, e, f, g, h}
           s == <<a, b, c>>
           t == <<d, e, f, g, h>>
           u == <<a, b, c, d, e, f, g, h>>
<1>1. s \in Seq(S) /\ t \in Seq(S) /\ u \in Seq(S) /\ Len(s) = 3 /\ Len(t) = 5 /\ Len(u) = 8
  OBVIOUS
<1>2. /\ s[1] = u[1] /\ s[2] = u[2] /\ s[3] = u[3] /\ t[1] = u[4] /\ t[2] = u[5]
      /\ t[3] = u[6] /\ t[4] = u[7] /\ t[5] = u[8]
  OBVIOUS
<1> HIDE DEF S, s, t, u
<1>3. s \o t \in Seq(S) /\ Len(s \o t) = 8 /\ \A k \in 1..8 : (s \o t)[k] = u[k]
  <2>1. /\ s \o t \in Seq(S) /\ Len(s \o t) = Len(s) + Len(t)
        /\ \A k \in 1..Len(s) + Len(t) :
             (s \o t)[k] = IF k <= Len(s) THEN s[k] ELSE t[k - Len(s)]
    BY <1>1, ConcatProperties
  <2>2. PICK r, m, n : r = s \o t /\ m = Len(s) /\ n = Len(t)
    OBVIOUS
  <2>3. \A k \in 1..8 : r[k] = IF k <= 3 THEN s[k] ELSE t[k - 3]
    <3>1. \A k \in 1..m + n : r[k] = IF k <= m THEN s[k] ELSE t[k - m]
      BY <2>1, <2>2
    <3>2. m = 3 /\ n = 5 /\ m + n = 8
      BY <1>1, <2>2
    <3> QED
      BY <3>1, <3>2
  <2>4. r[1] = s[1] /\ r[2] = s[2] /\ r[3] = s[3] /\ r[4] = t[1]
    BY <2>3
  <2>5. r[5] = t[2] /\ r[6] = t[3] /\ r[7] = t[4] /\ r[8] = t[5]
    BY <2>3
  <2>6. \A k \in 1..8 : k \in 1..4 \/ k \in 5..8
    OBVIOUS
  <2>7. \A k \in 1..4 : r[k] = u[k]
    BY <1>2, <2>4
  <2>8. \A k \in 5..8 : r[k] = u[k]
    BY <1>2, <2>5
  <2>9. \A k \in 1..8 : r[k] = u[k]
    BY <2>6, <2>7, <2>8
  <2>10. Len(r) = 8 /\ r \in Seq(S)
    <3>1. Len(r) = m + n /\ r \in Seq(S)
      BY <2>1, <2>2
    <3>2. m = 3 /\ n = 5
      BY <1>1, <2>2
    <3> QED
      BY <3>1, <3>2
  <2> QED
    BY <2>2, <2>9, <2>10
<1>4. s \o t = u
  BY <1>1, <1>3, SeqEqual
<1> QED
  BY <1>4 DEF s, t, u

LEMMA HeaderList ==
  ASSUME NEW c, NEW version
  PROVE  Header(c, version) =
           <<U32(Magic), U32(version), U32(EndianMarker), String(<<1>>), String(<<2>>),
             String(<<3>>), String(c.triple), String(c.function)>>
<1>1. PICK e, f, g, h, i : e = <<1>> /\ f = <<2>> /\ g = <<3>> /\ h = c.triple /\ i = c.function
  OBVIOUS
<1>2. PICK p, q, r : p = U32(Magic) /\ q = U32(version) /\ r = U32(EndianMarker)
  OBVIOUS
<1>3. PICK s, t, u, v, w : /\ s = String(e) /\ t = String(f) /\ u = String(g)
                           /\ v = String(h) /\ w = String(i)
  OBVIOUS
<1>4. Producers \o <<h, i>> = <<e, f, g, h, i>>
  <2>1. Producers = <<e, f, g>>
    BY <1>1 DEF Producers
  <2> QED
    BY <2>1, ThreeAndTwo
<1>5. U32s(<<Magic, version, EndianMarker>>) = <<p, q, r>>
  BY <1>2, U32sOfThree
<1>6. Strings(<<e, f, g, h, i>>) = <<s, t, u, v, w>>
  BY <1>3, StringsOfFive
<1>7. <<p, q, r>> \o <<s, t, u, v, w>> = <<p, q, r, s, t, u, v, w>>
  BY ThreeAndFive
<1>8. Header(c, version) = U32s(<<Magic, version, EndianMarker>>) \o Strings(Producers \o <<h, i>>)
  BY <1>1 DEF Header
<1>9. Header(c, version) = <<p, q, r, s, t, u, v, w>>
  BY <1>4, <1>5, <1>6, <1>7, <1>8
<1> QED
  BY <1>1, <1>2, <1>3, <1>9

LEMMA HeaderFields ==
  ASSUME NEW L \in Nat, L >= 1, NEW c, c.triple \in Texts, c.function \in Texts,
         Len(c.triple) <= L, Len(c.function) <= L, NEW version \in 1..kArtifactFormatVersion
  PROVE  Header(c, version) \in Seq(Limited(L))
<1> DEFINE F == Limited(L)
<1>1. Magic \in Units /\ version \in Units /\ EndianMarker \in Units
  BY UnitsFacts DEF Units, Magic, EndianMarker, kArtifactFormatVersion
<1>2. /\ <<1>> \in Texts /\ Len(<<1>>) <= L /\ <<2>> \in Texts /\ Len(<<2>>) <= L
      /\ <<3>> \in Texts /\ Len(<<3>>) <= L
  BY UnitsFacts DEF Texts, Units
<1>3. /\ U32(Magic) \in F /\ U32(version) \in F /\ U32(EndianMarker) \in F
      /\ String(<<1>>) \in F /\ String(<<2>>) \in F /\ String(<<3>>) \in F
      /\ String(c.triple) \in F /\ String(c.function) \in F
  BY <1>1, <1>2, LimitedNumbers, LimitedText
<1> HIDE DEF F
<1>4. <<U32(Magic), U32(version), U32(EndianMarker), String(<<1>>), String(<<2>>),
        String(<<3>>), String(c.triple), String(c.function)>> \in Seq(F)
  BY <1>3
<1>5. Header(c, version) \in Seq(F)
  BY <1>4, HeaderList
<1> QED
  BY <1>5 DEF F

LEMMA CountedFields ==
  ASSUME NEW L, NEW list \in Lists(Signed)
  PROVE  <<U32(Len(list))>> \o I64s(list) \in Seq(Limited(L))
<1>1. list \in Seq(Signed) /\ Len(list) \in Units
  BY DEF Lists
<1>2. U32(Len(list)) \in Limited(L) /\ I64s(list) \in Seq(Limited(L))
  BY <1>1, LimitedNumbers, SignedList
<1> HIDE DEF Limited
<1> QED
  BY <1>2, ConcatProperties

LEMMA OverridesFields ==
  ASSUME NEW L, NEW c, c.policy \in Units, c.roles \in Lists(Signed), c.axes \in Lists(Signed),
         NEW version
  PROVE  Overrides(c, version) \in Seq(Limited(L))
<1>1. PICK d, o : /\ d = (IF c.dynamic THEN 1 ELSE 0) /\ o = (IF c.override THEN 1 ELSE 0)
  OBVIOUS
<1>2. U32(d) \in Limited(L) /\ U32(o) \in Limited(L) /\ U32(c.policy) \in Limited(L)
  <2>1. d \in Units /\ o \in Units
    BY <1>1, UnitsFacts DEF Units
  <2> QED
    BY <2>1, LimitedNumbers
<1>3. U32s(<<d, o, c.policy>>) \in Seq(Limited(L))
  <2>1. U32s(<<d, o, c.policy>>) = <<U32(d), U32(o), U32(c.policy)>>
    BY U32sOfThree
  <2>2. <<U32(d), U32(o), U32(c.policy)>> \in Seq(Limited(L))
    <3> HIDE DEF Limited
    <3> QED
      BY <1>2
  <2> QED
    BY <2>1, <2>2
<1>4. /\ Since(6, version, <<U32(Len(c.roles))>> \o I64s(c.roles)) \in Seq(Limited(L))
      /\ Since(10, version, <<U32(Len(c.axes))>> \o I64s(c.axes)) \in Seq(Limited(L))
  BY CountedFields, SincePart
<1> QED
  BY <1>1, <1>3, <1>4, ConcatProperties DEF Overrides

LEMMA TableFields ==
  ASSUME NEW L, NEW c, c.arguments \in Lists(ArgumentRecord), NEW version,
         \A k \in 1..Len(c.arguments) : Len(c.arguments[k].name) <= L
  PROVE  ArgumentTable(c, version) \in Seq(Limited(L))
<1>1. PICK list : list = c.arguments
  OBVIOUS
<1>2. list \in Seq(ArgumentRecord) /\ Len(list) \in Units
  BY <1>1 DEF Lists
<1>3. PICK pieces : pieces = [k \in DOMAIN list |-> Argument(list[k], version)]
  OBVIOUS
<1>4. /\ DOMAIN list = 1..Len(list) /\ Len(list) \in Nat
      /\ \A k \in 1..Len(list) : list[k] \in ArgumentRecord
  BY <1>2, LenProperties, ElementOfSeq
<1>5. \A k \in 1..Len(list) : pieces[k] \in Seq(Limited(L))
  BY <1>1, <1>3, <1>4, ArgumentFields
<1>6. Joint(pieces) \in Seq(Limited(L))
  <2>1. pieces = [k \in DOMAIN list |-> pieces[k]]
    BY <1>3
  <2> QED
    BY <1>2, <1>5, <2>1, JointOfEach
<1>7. <<U32(Len(list))>> \in Seq(Limited(L))
  <2>1. U32(Len(list)) \in Limited(L)
    BY <1>2, LimitedNumbers
  <2> HIDE DEF Limited
  <2> QED
    BY <2>1
<1> QED
  BY <1>1, <1>3, <1>6, <1>7, ConcatProperties DEF ArgumentTable

LEMMA AdapterFields ==
  ASSUME NEW L, NEW c, c.adapter \in {ConvAdapter, GenericAdapter},
         c.conv \in ConvolutionRecord
  PROVE  Adapter(c) \in Seq(Limited(L))
<1>1. PICK blob : blob = IF c.adapter = ConvAdapter
                         THEN WrittenUnits(Convolution(c.conv)) ELSE <<>>
  OBVIOUS
<1>2. blob \in Objects
  <2>1. CASE c.adapter = ConvAdapter
    <3>1. blob \in Seq(Units) /\ Len(blob) = 54
      BY <1>1, <2>1, ConvolutionFieldsWritten
    <3>2. 54 <= MaxU64
      BY UnitsAssumption
    <3> QED
      BY <3>1, <3>2 DEF Objects
  <2>2. CASE c.adapter # ConvAdapter
    <3>1. blob \in Seq(Units) /\ Len(blob) = 0 /\ 0 <= MaxU64
      BY <1>1, <2>2, EmptySeq, UnitsFacts
    <3> QED
      BY <3>1 DEF Objects
  <2> QED
    BY <2>1, <2>2
<1>3. c.adapter \in Units
  BY UnitsFacts DEF Units, ConvAdapter, GenericAdapter
<1>4. U32(c.adapter) \in Limited(L) /\ Blob(blob) \in Limited(L)
  BY <1>2, <1>3, LimitedNumbers
<1>5. Adapter(c) = <<U32(c.adapter), Blob(blob)>>
  BY <1>1 DEF Adapter
<1> HIDE DEF Limited
<1> QED
  BY <1>4, <1>5

LEMMA AllocationFields ==
  ASSUME NEW L, NEW a \in AllocationRecord, Len(a.name) <= L
  PROVE  Allocation(a) \in Seq(Limited(L))
<1>1. /\ a.name \in Texts /\ a.offset \in Unsigned /\ a.size \in Unsigned
      /\ a.alignment \in Unsigned /\ a.start \in Unsigned /\ a.end \in Unsigned
  BY DEF AllocationRecord
<1>2. PICK n, o, s, g, b, e : /\ n = String(a.name) /\ o = U64(a.offset) /\ s = U64(a.size)
                              /\ g = U64(a.alignment) /\ b = U64(a.start) /\ e = U64(a.end)
  OBVIOUS
<1>3. /\ n \in Limited(L) /\ o \in Limited(L) /\ s \in Limited(L) /\ g \in Limited(L)
      /\ b \in Limited(L) /\ e \in Limited(L)
  BY <1>1, <1>2, LimitedNumbers, LimitedText
<1>4. <<n, o, s, g, b, e>> \in Seq(Limited(L))
  <2> HIDE DEF Limited
  <2> QED
    BY <1>3
<1> QED
  BY <1>2, <1>4 DEF Allocation

PlanRecord ==
  [size : Unsigned, alignment : Unsigned, allocations : Lists(AllocationRecord)]

LEMMA PlanFields ==
  ASSUME NEW L, NEW plan \in PlanRecord,
         \A k \in 1..Len(plan.allocations) : Len(plan.allocations[k].name) <= L
  PROVE  Plan(plan) \in Seq(Limited(L))
<1>1. PICK list : list = plan.allocations
  OBVIOUS
<1>2. /\ list \in Seq(AllocationRecord) /\ Len(list) \in Units
      /\ plan.size \in Unsigned /\ plan.alignment \in Unsigned
  BY <1>1 DEF PlanRecord, Lists
<1>3. PICK pieces : pieces = [k \in DOMAIN list |-> Allocation(list[k])]
  OBVIOUS
<1>4. /\ DOMAIN list = 1..Len(list) /\ Len(list) \in Nat
      /\ \A k \in 1..Len(list) : list[k] \in AllocationRecord
  BY <1>2, LenProperties, ElementOfSeq
<1>5. \A k \in 1..Len(list) : pieces[k] \in Seq(Limited(L))
  BY <1>1, <1>3, <1>4, AllocationFields
<1>6. Joint(pieces) \in Seq(Limited(L))
  <2>1. pieces = [k \in DOMAIN list |-> pieces[k]]
    BY <1>3
  <2> QED
    BY <1>2, <1>5, <2>1, JointOfEach
<1>7. <<U64(plan.size), U64(plan.alignment), U32(Len(list))>> \in Seq(Limited(L))
  <2>1. /\ U64(plan.size) \in Limited(L) /\ U64(plan.alignment) \in Limited(L)
        /\ U32(Len(list)) \in Limited(L)
    BY <1>2, LimitedNumbers
  <2> HIDE DEF Limited
  <2> QED
    BY <2>1
<1> QED
  BY <1>1, <1>3, <1>6, <1>7, ConcatProperties DEF Plan

LEMMA NumericFields ==
  ASSUME NEW L
  PROVE  NumericContract \in Seq(Limited(L))
<1>1. 1 \in Unsigned /\ 2 \in Unsigned /\ 3 \in Units
  BY UnitsFacts DEF Unsigned, Units
<1>2. U64(1) \in Limited(L) /\ U64(2) \in Limited(L) /\ U32(3) \in Limited(L)
  BY <1>1, LimitedNumbers
<1>3. NumericContract = <<U64(1), U64(2), U32(3)>>
  BY DEF NumericContract, Tolerances
<1> HIDE DEF Limited
<1>4. <<U64(1), U64(2), U32(3)>> \in Seq(Limited(L))
  BY <1>2
<1> QED
  BY <1>3, <1>4

LEMMA VariantFields ==
  ASSUME NEW L, NEW c, NEW v \in 1..3, c.variants[v] \in VariantRecord,
         Len(c.variants[v].symbol) <= L, Len(c.variants[v].features) <= L
  PROVE  Variant(c, v) \in Seq(Limited(L))
<1>1. /\ c.variants[v].symbol \in Texts /\ c.variants[v].features \in Texts
      /\ c.variants[v].object \in Objects /\ v - 1 \in Units
  BY UnitsFacts DEF VariantRecord, Units
<1>2. PICK n, s, f, o : /\ n = U32(v - 1) /\ s = String(c.variants[v].symbol)
                        /\ f = String(c.variants[v].features) /\ o = Blob(c.variants[v].object)
  OBVIOUS
<1>3. n \in Limited(L) /\ s \in Limited(L) /\ f \in Limited(L) /\ o \in Limited(L)
  BY <1>1, <1>2, LimitedNumbers, LimitedText
<1>4. <<n, s, f, o>> \in Seq(Limited(L))
  <2> HIDE DEF Limited
  <2> QED
    BY <1>3
<1> QED
  BY <1>2, <1>4 DEF Variant

(* What an artifact is made of; the texts of a version are no longer than  *)
(* a limit.                                                                *)
ShortTexts(c, L) == \A text \in TextsOf(c) : Len(text) <= L

LEMMA ArtifactParts ==
  ASSUME NEW c \in Artifact
  PROVE  /\ c.version \in 1..kArtifactFormatVersion
         /\ c.triple \in Texts /\ c.function \in Texts
         /\ c.policy \in Units /\ c.policy \in 0..8
         /\ c.roles \in Lists(Signed) /\ c.axes \in Lists(Signed)
         /\ c.arguments \in Lists(ArgumentRecord)
         /\ c.adapter \in {ConvAdapter, GenericAdapter} /\ c.conv \in ConvolutionRecord
         /\ c.plan \in PlanRecord
         /\ c.variants \in [1..3 -> VariantRecord]
<1>1. MaximumPolicy(kArtifactFormatVersion) = 8
  BY DEF MaximumPolicy, kArtifactFormatVersion
<1>2. c.policy \in 0..8
  BY <1>1 DEF Artifact
<1>3. c.policy \in Units
  BY <1>2, UnitsFacts DEF Units
<1>4. /\ c.version \in 1..kArtifactFormatVersion
      /\ c.triple \in Texts /\ c.function \in Texts
      /\ c.roles \in Lists(Signed) /\ c.axes \in Lists(Signed)
      /\ c.arguments \in Lists(ArgumentRecord)
  BY DEF Artifact
<1>5. /\ c.adapter \in {ConvAdapter, GenericAdapter} /\ c.conv \in ConvolutionRecord
      /\ c.plan \in PlanRecord
      /\ c.variants \in [1..3 -> VariantRecord]
  BY DEF Artifact, PlanRecord
<1> QED
  BY <1>2, <1>3, <1>4, <1>5

LEMMA ShortParts ==
  ASSUME NEW c \in Artifact, NEW L, ShortTexts(c, L)
  PROVE  /\ Len(c.triple) <= L /\ Len(c.function) <= L
         /\ \A k \in 1..Len(c.arguments) : Len(c.arguments[k].name) <= L
         /\ \A k \in 1..Len(c.plan.allocations) : Len(c.plan.allocations[k].name) <= L
         /\ \A v \in 1..3 : /\ Len(c.variants[v].symbol) <= L
                            /\ Len(c.variants[v].features) <= L
<1>1. c.triple \in TextsOf(c) /\ c.function \in TextsOf(c)
  BY DEF TextsOf
<1>2. ASSUME NEW k \in 1..Len(c.arguments)
      PROVE  c.arguments[k].name \in TextsOf(c)
  <2>1. c.arguments \in Seq(ArgumentRecord)
    BY ArtifactParts DEF Lists
  <2>2. c.arguments[k] \in Items(c.arguments)
    BY <2>1, LenProperties DEF Items
  <2> QED
    BY <2>2 DEF TextsOf
<1>3. ASSUME NEW k \in 1..Len(c.plan.allocations)
      PROVE  c.plan.allocations[k].name \in TextsOf(c)
  <2>1. c.plan \in PlanRecord
    BY ArtifactParts
  <2>2. c.plan.allocations \in Seq(AllocationRecord)
    BY <2>1 DEF Lists, PlanRecord
  <2>3. c.plan.allocations[k] \in Items(c.plan.allocations)
    BY <2>2, LenProperties DEF Items
  <2> QED
    BY <2>3 DEF TextsOf
<1>4. ASSUME NEW v \in 1..3
      PROVE  c.variants[v].symbol \in TextsOf(c) /\ c.variants[v].features \in TextsOf(c)
  BY DEF TextsOf
<1> QED
  BY <1>1, <1>2, <1>3, <1>4 DEF ShortTexts

LEMMA MetadataFields ==
  ASSUME NEW L \in Nat, L >= 1, NEW c \in Artifact, ShortTexts(c, L),
         NEW version \in 1..kArtifactFormatVersion
  PROVE  Metadata(c, version) \in Seq(Limited(L))
<1>1. Header(c, version) \in Seq(Limited(L))
  BY ArtifactParts, ShortParts, HeaderFields
<1>2. Convolution(c.conv) \in Seq(Limited(L))
  BY ArtifactParts, ConvolutionFieldsWritten
<1>3. Since(3, version, Overrides(c, version)) \in Seq(Limited(L))
  <2>1. Overrides(c, version) \in Seq(Limited(L))
    BY ArtifactParts, OverridesFields
  <2> QED
    BY <2>1, SincePart
<1>4. ArgumentTable(c, version) \in Seq(Limited(L))
  BY ArtifactParts, ShortParts, TableFields
<1>5. Adapter(c) \in Seq(Limited(L))
  BY ArtifactParts, AdapterFields
<1> HIDE DEF Limited
<1> QED
  BY <1>1, <1>2, <1>3, <1>4, <1>5, ConcatProperties DEF Metadata

VariantsWritten(c, order) == Joint([k \in DOMAIN order |-> Variant(c, order[k])])

LEMMA VariantsFields ==
  ASSUME NEW L, NEW c, NEW order \in Seq(1..3), c.variants \in [1..3 -> VariantRecord],
         \A v \in 1..3 : /\ Len(c.variants[v].symbol) <= L
                         /\ Len(c.variants[v].features) <= L
  PROVE  VariantsWritten(c, order) \in Seq(Limited(L))
<1>1. PICK pieces : pieces = [k \in DOMAIN order |-> Variant(c, order[k])]
  OBVIOUS
<1>2. /\ DOMAIN order = 1..Len(order) /\ Len(order) \in Nat
      /\ \A k \in 1..Len(order) : order[k] \in 1..3
  BY LenProperties, ElementOfSeq
<1>3. \A k \in 1..Len(order) : pieces[k] \in Seq(Limited(L))
  BY <1>1, <1>2, VariantFields
<1>4. pieces = [k \in DOMAIN order |-> pieces[k]]
  BY <1>1
<1>5. Joint(pieces) \in Seq(Limited(L))
  BY <1>3, <1>4, JointOfEach
<1> QED
  BY <1>1, <1>5 DEF VariantsWritten

(***************************************************************************)
(* What the readers of the sections take.                                  *)
(***************************************************************************)
(* These fields stand in the units, up to the next.                        *)
Taken(units, from, fields, next) ==
  /\ fields \in Seq(Readable)
  /\ StandsAt(WrittenUnits(fields), units, from)
  /\ next = from + Len(WrittenUnits(fields))

LEMMA TakenConcat ==
  ASSUME NEW units \in Seq(Units), NEW from \in Nat, NEW a, NEW b, NEW next, NEW last,
         Taken(units, from, a, next), Taken(units, next, b, last)
  PROVE  Taken(units, from, a \o b, last)
<1>1. a \in Seq(Readable) /\ b \in Seq(Readable)
  BY DEF Taken
<1>2. a \in Seq(Field) /\ b \in Seq(Field)
  BY <1>1, ReadableLists
<1>3. PICK p, q : p = WrittenUnits(a) /\ q = WrittenUnits(b)
  OBVIOUS
<1>4. p \in Seq(Units) /\ q \in Seq(Units)
  BY <1>2, <1>3, WrittenIsUnits
<1>5. WrittenUnits(a \o b) = p \o q
  BY <1>2, <1>3, WrittenConcat
<1>6. /\ StandsAt(p, units, from) /\ next = from + Len(p)
      /\ StandsAt(q, units, next) /\ last = next + Len(q)
  BY <1>3 DEF Taken
<1>7. StandsAt(p \o q, units, from)
  BY <1>4, <1>6, StandsConcat
<1>8. Len(p \o q) = Len(p) + Len(q) /\ Len(p) \in Nat /\ Len(q) \in Nat
  BY <1>4, ConcatLengths, LenProperties
<1>9. last = from + Len(p \o q)
  BY <1>6, <1>8
<1>10. a \o b \in Seq(Readable)
  BY <1>1, ConcatProperties
<1> QED
  BY <1>5, <1>7, <1>9, <1>10 DEF Taken

LEMMA TakenEnd ==
  ASSUME NEW units \in Seq(Units), NEW from \in Nat, NEW fields, NEW next,
         Taken(units, from, fields, next)
  PROVE  next \in 0..Len(units)
<1>1. PICK p : p = WrittenUnits(fields)
  OBVIOUS
<1>2. fields \in Seq(Field)
  BY ReadableLists DEF Taken
<1>3. p \in Seq(Units)
  BY <1>1, <1>2, WrittenIsUnits
<1>4. Len(p) \in Nat /\ Len(units) \in Nat /\ from + Len(p) <= Len(units) /\ next = from + Len(p)
  BY <1>1, <1>3, LenProperties DEF Taken, StandsAt
<1> QED
  BY <1>4

LEMMA NothingTaken ==
  ASSUME NEW units \in Seq(Units), NEW from \in 0..Len(units)
  PROVE  Taken(units, from, <<>>, from)
<1>1. WrittenUnits(<<>>) = <<>> /\ Len(<<>>) = 0 /\ <<>> \in Seq(Readable)
  BY WrittenNone, EmptySeq
<1>2. Len(units) \in Nat
  BY LenProperties
<1>3. StandsAt(<<>>, units, from)
  BY <1>1, <1>2 DEF StandsAt
<1>4. from = from + 0
  BY <1>2
<1> QED
  BY <1>1, <1>3, <1>4 DEF Taken

LEMMA ReadTaken ==
  ASSUME NEW units \in Seq(Units), NEW from \in 0..Len(units), NEW kinds \in Seq(Kinds),
         NEW read, read = ReadAll(units, from, kinds), read.ok
  PROVE  /\ read.value \in Seq(Values) /\ Len(read.value) = Len(kinds)
         /\ Taken(units, from, Paired(kinds, read.value), read.at)
         /\ read.at \in 0..Len(units)
         /\ \A k \in 1..Len(kinds) : <<kinds[k], read.value[k]>> \in Readable
<1>1. Progress(units, from, kinds, Len(kinds), read)
  BY ReadAllSound
<1>2. PICK value, fields : value = read.value /\ fields = Paired(kinds, value)
  OBVIOUS
<1>3. /\ value \in Seq(Values) /\ Len(value) = Len(kinds)
      /\ Taken(units, from, fields, read.at)
  BY <1>1, <1>2 DEF Progress, Taken
<1>4. from \in Nat
  BY LenProperties
<1>5. read.at \in 0..Len(units)
  BY <1>3, <1>4, TakenEnd
<1>6. DOMAIN value = 1..Len(kinds)
  BY <1>3, LenProperties
<1>7. fields = [k \in 1..Len(kinds) |-> <<kinds[k], value[k]>>] /\ fields \in Seq(Readable)
  BY <1>2, <1>3, <1>6 DEF Paired, Taken
<1>8. Len(fields) = Len(kinds)
  BY <1>7, LenProperties
<1>9. \A k \in 1..Len(kinds) : <<kinds[k], value[k]>> \in Readable
  BY <1>7, <1>8, ElementOfSeq
<1> QED
  BY <1>2, <1>3, <1>5, <1>9

LEMMA UnitTaken ==
  ASSUME NEW units \in Seq(Units), NEW from \in 0..Len(units),
         NEW read, read = ReadUnsigned(units, from, 1), read.ok
  PROVE  /\ read.value \in Units /\ Taken(units, from, <<U32(read.value)>>, read.at)
         /\ read.at \in 0..Len(units)
<1>1. from \in Nat
  BY LenProperties
<1>2. /\ read.value \in Units /\ read.at = from + 1
      /\ StandsAt(<<read.value>>, units, from)
  BY <1>1, UnitRead
<1>3. PICK u : u = read.value
  OBVIOUS
<1>4. U32(u) \in Readable /\ U32(u) \in Field
  BY <1>2, <1>3, LimitedNumbers, LimitedIsReadable DEF Readable
<1>5. WrittenUnits(<<U32(u)>>) = <<u>>
  BY <1>4, WrittenOne, EncodedOfKind DEF U32
<1>6. <<U32(u)>> \in Seq(Readable) /\ Len(<<u>>) = 1
  <2> HIDE DEF Readable
  <2> QED
    BY <1>4
<1>7. Taken(units, from, <<U32(u)>>, read.at)
  BY <1>2, <1>3, <1>5, <1>6 DEF Taken
<1> QED
  BY <1>1, <1>2, <1>3, <1>7, TakenEnd

LEMMA NumbersTaken ==
  ASSUME NEW units \in Seq(Units), NEW from \in 0..Len(units), NEW n \in Nat,
         NEW read, read = ReadI64s(units, from, n), read.ok
  PROVE  /\ read.value \in Seq(Signed) /\ Len(read.value) = n
         /\ Taken(units, from, I64s(read.value), read.at)
         /\ read.at \in 0..Len(units)
<1>1. PICK kinds : kinds = [k \in 1..n |-> "i64"]
  OBVIOUS
<1>2. kinds \in Seq(Kinds) /\ Len(kinds) = n
  BY <1>1 DEF Kinds
<1>3. read = ReadAll(units, from, kinds)
  BY <1>1 DEF ReadI64s
<1>4. PICK value : value = read.value
  OBVIOUS
<1>5. /\ value \in Seq(Values) /\ Len(value) = n
      /\ Taken(units, from, Paired(kinds, value), read.at)
      /\ read.at \in 0..Len(units)
      /\ \A k \in 1..n : <<kinds[k], value[k]>> \in Readable
  BY <1>2, <1>3, <1>4, ReadTaken
<1>6. \A k \in 1..n : value[k] \in Signed
  BY <1>1, <1>5, FieldTypes DEF Readable
<1>7. DOMAIN value = 1..n /\ value = [k \in 1..n |-> value[k]]
  BY <1>5, LenProperties
<1>8. value \in Seq(Signed)
  BY <1>6, <1>7
<1>9. Paired(kinds, value) = I64s(value)
  BY <1>1, <1>7 DEF Paired, I64s, I64
<1> QED
  BY <1>4, <1>5, <1>8, <1>9

LEMMA ListTaken ==
  ASSUME file.payload \in Seq(Units), NEW from \in 0..Len(file.payload),
         NEW first \in Nat, restored.version \in Nat,
         NEW read, read = ReadList(from, first), read.ok
  PROVE  /\ read.value \in Lists(Signed)
         /\ Taken(file.payload, from,
                  Since(first, restored.version, <<U32(Len(read.value))>> \o I64s(read.value)),
                  read.at)
         /\ read.at \in 0..Len(file.payload)
<1>1. CASE restored.version < first
  <2>1. read = NothingRead(from)
    BY <1>1 DEF ReadList
  <2>2. read.value = <<>> /\ read.at = from
    BY <2>1 DEF NothingRead
  <2>3. <<>> \in Lists(Signed)
    BY EmptySeq, UnitsFacts DEF Lists, Units
  <2>4. Taken(file.payload, from, <<>>, from)
    BY NothingTaken
  <2>5. Since(first, restored.version, <<U32(Len(read.value))>> \o I64s(read.value)) = <<>>
    BY <1>1 DEF Since
  <2> QED
    BY <2>2, <2>3, <2>4, <2>5
<1>2. CASE ~(restored.version < first)
  <2>1. PICK units, count : units = file.payload /\ count = ReadUnsigned(units, from, 1)
    OBVIOUS
  <2>2. /\ count.ok /\ count.value <= MaxEntries /\ read = ReadI64s(units, count.at, count.value)
    BY <1>2, <2>1 DEF ReadList, Short
  <2>3. /\ count.value \in Units /\ Taken(units, from, <<U32(count.value)>>, count.at)
        /\ count.at \in 0..Len(units)
    BY <2>1, <2>2, UnitTaken
  <2>4. count.value \in Nat
    BY <2>3, UnitsFacts DEF Units
  <2>5. /\ read.value \in Seq(Signed) /\ Len(read.value) = count.value
        /\ Taken(units, count.at, I64s(read.value), read.at)
        /\ read.at \in 0..Len(units)
    BY <2>1, <2>2, <2>3, <2>4, NumbersTaken
  <2>6. from \in Nat
    BY LenProperties
  <2>7. Taken(units, from, <<U32(Len(read.value))>> \o I64s(read.value), read.at)
    BY <2>1, <2>3, <2>5, <2>6, TakenConcat
  <2>8. Since(first, restored.version, <<U32(Len(read.value))>> \o I64s(read.value))
          = <<U32(Len(read.value))>> \o I64s(read.value)
    BY <1>2 DEF Since
  <2> QED
    BY <2>1, <2>3, <2>5, <2>7, <2>8 DEF Lists
<1> QED
  BY <1>1, <1>2

(* A list made of two others, element by element.                          *)
Joins(s, t, u) ==
  /\ Len(u) = Len(s) + Len(t)
  /\ \A k \in 1..Len(s) : u[k] = s[k]
  /\ \A k \in 1..Len(t) : u[Len(s) + k] = t[k]

LEMMA ListOfTwo ==
  ASSUME NEW S, NEW s \in Seq(S), NEW t \in Seq(S), NEW u \in Seq(S), Joins(s, t, u)
  PROVE  s \o t = u
<1> USE DEF Joins
<1>1. PICK m, n : m = Len(s) /\ n = Len(t) /\ m \in Nat /\ n \in Nat
  BY LenProperties
<1>2. /\ s \o t \in Seq(S) /\ Len(s \o t) = m + n
      /\ \A k \in 1..(m + n) : (s \o t)[k] = IF k <= m THEN s[k] ELSE t[k - m]
  BY <1>1, ConcatProperties
<1>3. ASSUME NEW k \in 1..(m + n)
      PROVE  (s \o t)[k] = u[k]
  <2>1. CASE k <= m
    <3>1. k \in 1..m
      BY <1>1, <2>1
    <3> QED
      BY <1>1, <1>2, <2>1, <3>1
  <2>2. CASE ~(k <= m)
    <3>1. PICK j : j = k - m
      OBVIOUS
    <3>2. j \in 1..n /\ k = m + j
      BY <1>1, <2>2, <3>1
    <3> QED
      BY <1>1, <1>2, <2>2, <3>1, <3>2
  <2> QED
    BY <2>1, <2>2
<1> QED
  BY <1>1, <1>2, <1>3, SeqEqual

LEMMA FourAndThree ==
  ASSUME NEW a, NEW b, NEW c, NEW d, NEW e, NEW f, NEW g
  PROVE  <<a, b, c, d>> \o <<e, f, g>> = <<a, b, c, d, e, f, g>>
<1> DEFINE S == {a, b, c, d, e, f, g}
           s == <<a, b, c, d>>
           t == <<e, f, g>>
           u == <<a, b, c, d, e, f, g>>
<1>1. s \in Seq(S) /\ t \in Seq(S) /\ u \in Seq(S) /\ Len(s) = 4 /\ Len(t) = 3 /\ Len(u) = 7
  OBVIOUS
<1>2. /\ u[1] = s[1] /\ u[2] = s[2] /\ u[3] = s[3] /\ u[4] = s[4]
      /\ u[5] = t[1] /\ u[6] = t[2] /\ u[7] = t[3]
  OBVIOUS
<1> HIDE DEF S, s, t, u
<1>3. Joins(s, t, u)
  BY <1>1, <1>2 DEF Joins
<1>4. s \o t = u
  BY <1>1, <1>3, ListOfTwo
<1> QED
  BY <1>4 DEF s, t, u

LEMMA SevenAndThree ==
  ASSUME NEW a, NEW b, NEW c, NEW d, NEW e, NEW f, NEW g, NEW h, NEW i, NEW j
  PROVE  <<a, b, c, d, e, f, g>> \o <<h, i, j>> = <<a, b, c, d, e, f, g, h, i, j>>
<1> DEFINE S == {a, b, c, d, e, f, g, h, i, j}
           s == <<a, b, c, d, e, f, g>>
           t == <<h, i, j>>
           u == <<a, b, c, d, e, f, g, h, i, j>>
<1>1. s \in Seq(S) /\ t \in Seq(S) /\ u \in Seq(S) /\ Len(s) = 7 /\ Len(t) = 3 /\ Len(u) = 10
  OBVIOUS
<1>2. /\ u[1] = s[1] /\ u[2] = s[2] /\ u[3] = s[3] /\ u[4] = s[4]
      /\ u[5] = s[5] /\ u[6] = s[6] /\ u[7] = s[7]
      /\ u[8] = t[1] /\ u[9] = t[2] /\ u[10] = t[3]
  OBVIOUS
<1> HIDE DEF S, s, t, u
<1>3. Joins(s, t, u)
  BY <1>1, <1>2 DEF Joins
<1>4. s \o t = u
  BY <1>1, <1>3, ListOfTwo
<1> QED
  BY <1>4 DEF s, t, u

LEMMA SevenAndFour ==
  ASSUME NEW a, NEW b, NEW c, NEW d, NEW e, NEW f, NEW g, NEW h, NEW i, NEW j, NEW k
  PROVE  (<<a, b, c, d, e, f, g>> \o <<h>>) \o <<i, j, k>>
           = <<a, b, c, d, e, f, g, h, i, j, k>>
<1> DEFINE S == {a, b, c, d, e, f, g, h, i, j, k}
           r == <<a, b, c, d, e, f, g>>
           s == <<a, b, c, d, e, f, g, h>>
           t == <<i, j, k>>
           u == <<a, b, c, d, e, f, g, h, i, j, k>>
<1>1. /\ r \in Seq(S) /\ s \in Seq(S) /\ t \in Seq(S) /\ u \in Seq(S)
      /\ <<h>> \in Seq(S) /\ Len(<<h>>) = 1
      /\ Len(r) = 7 /\ Len(s) = 8 /\ Len(t) = 3 /\ Len(u) = 11
  OBVIOUS
<1>2. /\ u[1] = s[1] /\ u[2] = s[2] /\ u[3] = s[3] /\ u[4] = s[4]
      /\ u[5] = s[5] /\ u[6] = s[6] /\ u[7] = s[7] /\ u[8] = s[8]
      /\ u[9] = t[1] /\ u[10] = t[2] /\ u[11] = t[3]
      /\ s[1] = r[1] /\ s[2] = r[2] /\ s[3] = r[3] /\ s[4] = r[4]
      /\ s[5] = r[5] /\ s[6] = r[6] /\ s[7] = r[7] /\ s[8] = h
  OBVIOUS
<1>3. PICK one : one = <<h>>
  OBVIOUS
<1>4. one[1] = h
  BY <1>3
<1> HIDE DEF S, r, s, t, u
<1>5. Joins(s, t, u)
  BY <1>1, <1>2 DEF Joins
<1>6. Joins(r, one, s)
  BY <1>1, <1>2, <1>3, <1>4 DEF Joins
<1>7. s \o t = u /\ r \o one = s
  BY <1>1, <1>3, <1>5, <1>6, ListOfTwo
<1> QED
  BY <1>3, <1>7 DEF r, s, t, u

LEMMA SignedConcat ==
  ASSUME NEW a \in Seq(Signed), NEW b \in Seq(Signed)
  PROVE  I64s(a \o b) = I64s(a) \o I64s(b)
<1>1. PICK c : c = a \o b /\ c \in Seq(Signed) /\ Len(c) = Len(a) + Len(b)
  BY ConcatProperties
<1>2. PICK p, q, r : p = I64s(a) /\ q = I64s(b) /\ r = I64s(c)
  OBVIOUS
<1>3. PICK m, n : m = Len(a) /\ n = Len(b) /\ m \in Nat /\ n \in Nat
  BY LenProperties
<1>4. \A k \in 1..(m + n) : c[k] = IF k <= m THEN a[k] ELSE b[k - m]
  BY <1>1, <1>3, ConcatProperties
<1>5. /\ p \in Seq(Limited(0)) /\ Len(p) = m /\ q \in Seq(Limited(0)) /\ Len(q) = n
      /\ r \in Seq(Limited(0)) /\ Len(r) = m + n
  BY <1>1, <1>2, <1>3, SignedList
<1>6. /\ \A k \in 1..m : p[k] = I64(a[k])
      /\ \A k \in 1..n : q[k] = I64(b[k])
      /\ \A k \in 1..(m + n) : r[k] = I64(c[k])
  <2>1. DOMAIN a = 1..m /\ DOMAIN b = 1..n /\ DOMAIN c = 1..(m + n)
    BY <1>1, <1>3, LenProperties
  <2> QED
    BY <1>2, <2>1 DEF I64s
<1>7. \A k \in 1..m : r[k] = p[k]
  <2> TAKE k \in 1..m
  <2>1. k \in 1..(m + n) /\ k <= m
    BY <1>3
  <2> QED
    BY <1>4, <1>6, <2>1
<1>8. \A k \in 1..n : r[m + k] = q[k]
  <2> TAKE k \in 1..n
  <2>1. m + k \in 1..(m + n) /\ ~(m + k <= m) /\ (m + k) - m = k
    BY <1>3
  <2> QED
    BY <1>4, <1>6, <2>1
<1> HIDE DEF Limited
<1>9. Joins(p, q, r)
  BY <1>5, <1>7, <1>8 DEF Joins
<1>10. p \o q = r
  BY <1>5, <1>9, ListOfTwo
<1> QED
  BY <1>1, <1>2, <1>10

(* The kinds of the fields of an entry before its extents, by version.     *)
EntryKinds(version) ==
  <<"i64", "string", "u32", "u32">> \o Since(4, version, <<"u32", "i64", "i64">>)
    \o Since(5, version, <<"i64">>) \o <<"u64", "u64", "u32">>

EntryHead(a, version) ==
  <<I64(a.uid), String(a.name), U32(a.type), U32(a.access)>>
    \o Since(4, version, <<U32(a.storage), I64(a.offsetUid), I64(a.sequenceUid)>>)
    \o Since(5, version, <<I64(a.divisor)>>)
    \o <<U64(a.alignment), U64(a.size), U32(Len(a.dims))>>

LEMMA EntryKindsAreKinds ==
  ASSUME NEW version
  PROVE  EntryKinds(version) \in Seq(Kinds)
<1>1. /\ <<"i64", "string", "u32", "u32">> \in Seq(Kinds)
      /\ <<"u64", "u64", "u32">> \in Seq(Kinds)
      /\ <<"u32", "i64", "i64">> \in Seq(Kinds) /\ <<"i64">> \in Seq(Kinds)
  BY DEF Kinds
<1> HIDE DEF Kinds
<1>2. /\ Since(4, version, <<"u32", "i64", "i64">>) \in Seq(Kinds)
      /\ Since(5, version, <<"i64">>) \in Seq(Kinds)
  BY <1>1, SincePart
<1> QED
  BY <1>1, <1>2, ConcatProperties DEF EntryKinds

LEMMA EntryKindsList ==
  ASSUME NEW version \in Nat
  PROVE  /\ version < 4 =>
              EntryKinds(version) = <<"i64", "string", "u32", "u32", "u64", "u64", "u32">>
         /\ version = 4 =>
              EntryKinds(version) =
                <<"i64", "string", "u32", "u32", "u32", "i64", "i64", "u64", "u64", "u32">>
         /\ version >= 5 =>
              EntryKinds(version) =
                <<"i64", "string", "u32", "u32", "u32", "i64", "i64", "i64", "u64", "u64", "u32">>
<1> DEFINE first == <<"i64", "string", "u32", "u32">>
           second == <<"u32", "i64", "i64">>
           last == <<"u64", "u64", "u32">>
<1>1. first \in Seq(Kinds)
  BY DEF Kinds
<1>2. EntryKinds(version)
        = ((first \o Since(4, version, second)) \o Since(5, version, <<"i64">>)) \o last
  BY DEF EntryKinds
<1>3. first \o <<>> = first
  BY <1>1, ConcatEmptySeq
<1>4. first \o second \in Seq(Kinds) /\ (first \o second) \o <<>> = first \o second
  <2>1. second \in Seq(Kinds)
    BY DEF Kinds
  <2> QED
    BY <1>1, <2>1, ConcatProperties, ConcatEmptySeq
<1>5. first \o last = <<"i64", "string", "u32", "u32", "u64", "u64", "u32">>
  BY FourAndThree
<1>6. first \o second = <<"i64", "string", "u32", "u32", "u32", "i64", "i64">>
  BY FourAndThree
<1>7. /\ (first \o second) \o last =
           <<"i64", "string", "u32", "u32", "u32", "i64", "i64", "u64", "u64", "u32">>
      /\ ((first \o second) \o <<"i64">>) \o last =
           <<"i64", "string", "u32", "u32", "u32", "i64", "i64", "i64", "u64", "u64", "u32">>
  <2>1. <<"i64", "string", "u32", "u32", "u32", "i64", "i64">> \o last
          = <<"i64", "string", "u32", "u32", "u32", "i64", "i64", "u64", "u64", "u32">>
    BY SevenAndThree
  <2>2. (<<"i64", "string", "u32", "u32", "u32", "i64", "i64">> \o <<"i64">>) \o last
          = <<"i64", "string", "u32", "u32", "u32", "i64", "i64", "i64", "u64", "u64", "u32">>
    BY SevenAndFour
  <2> HIDE DEF first, second, last
  <2> QED
    BY <1>6, <2>1, <2>2
<1>8. /\ version < 4 => Since(4, version, second) = <<>> /\ Since(5, version, <<"i64">>) = <<>>
      /\ version = 4 => Since(4, version, second) = second /\ Since(5, version, <<"i64">>) = <<>>
      /\ version >= 5 => /\ Since(4, version, second) = second
                         /\ Since(5, version, <<"i64">>) = <<"i64">>
  BY DEF Since
<1> HIDE DEF first, second, last
<1> QED
  BY <1>2, <1>3, <1>4, <1>5, <1>7, <1>8

LEMMA EntryHeadList ==
  ASSUME NEW a, NEW version \in Nat
  PROVE  /\ version < 4 =>
              EntryHead(a, version) =
                <<I64(a.uid), String(a.name), U32(a.type), U32(a.access),
                  U64(a.alignment), U64(a.size), U32(Len(a.dims))>>
         /\ version = 4 =>
              EntryHead(a, version) =
                <<I64(a.uid), String(a.name), U32(a.type), U32(a.access),
                  U32(a.storage), I64(a.offsetUid), I64(a.sequenceUid),
                  U64(a.alignment), U64(a.size), U32(Len(a.dims))>>
         /\ version >= 5 =>
              EntryHead(a, version) =
                <<I64(a.uid), String(a.name), U32(a.type), U32(a.access),
                  U32(a.storage), I64(a.offsetUid), I64(a.sequenceUid), I64(a.divisor),
                  U64(a.alignment), U64(a.size), U32(Len(a.dims))>>
<1>1. PICK p, q, r, s, t, u, v, w, x, y, z :
        /\ p = I64(a.uid) /\ q = String(a.name) /\ r = U32(a.type) /\ s = U32(a.access)
        /\ t = U32(a.storage) /\ u = I64(a.offsetUid) /\ v = I64(a.sequenceUid)
        /\ w = I64(a.divisor)
        /\ x = U64(a.alignment) /\ y = U64(a.size) /\ z = U32(Len(a.dims))
  OBVIOUS
<1> DEFINE first == <<p, q, r, s>>
           second == <<t, u, v>>
           last == <<x, y, z>>
           S == {p, q, r, s, t, u, v, w, x, y, z}
<1>2. EntryHead(a, version)
        = ((first \o Since(4, version, second)) \o Since(5, version, <<w>>)) \o last
  BY <1>1 DEF EntryHead
<1>3. first \in Seq(S) /\ second \in Seq(S)
  OBVIOUS
<1>4. /\ first \o last = <<p, q, r, s, x, y, z>>
      /\ first \o second = <<p, q, r, s, t, u, v>>
  BY FourAndThree
<1>5. /\ (first \o second) \o last = <<p, q, r, s, t, u, v, x, y, z>>
      /\ ((first \o second) \o <<w>>) \o last = <<p, q, r, s, t, u, v, w, x, y, z>>
  <2>1. <<p, q, r, s, t, u, v>> \o last = <<p, q, r, s, t, u, v, x, y, z>>
    BY SevenAndThree
  <2>2. (<<p, q, r, s, t, u, v>> \o <<w>>) \o last = <<p, q, r, s, t, u, v, w, x, y, z>>
    BY SevenAndFour
  <2> HIDE DEF first, second, last
  <2> QED
    BY <1>4, <2>1, <2>2
<1>6. /\ version < 4 => Since(4, version, second) = <<>> /\ Since(5, version, <<w>>) = <<>>
      /\ version = 4 => Since(4, version, second) = second /\ Since(5, version, <<w>>) = <<>>
      /\ version >= 5 => /\ Since(4, version, second) = second
                         /\ Since(5, version, <<w>>) = <<w>>
  BY DEF Since
<1> HIDE DEF first, second, last, S
<1>7. first \o <<>> = first /\ (first \o second) \o <<>> = first \o second
  BY <1>3, ConcatProperties, ConcatEmptySeq
<1>8. /\ version < 4 => EntryHead(a, version) = <<p, q, r, s, x, y, z>>
      /\ version = 4 => EntryHead(a, version) = <<p, q, r, s, t, u, v, x, y, z>>
      /\ version >= 5 => EntryHead(a, version) = <<p, q, r, s, t, u, v, w, x, y, z>>
  BY <1>2, <1>4, <1>5, <1>6, <1>7
<1> QED
  BY <1>1, <1>8

LEMMA EntryIsArgument ==
  ASSUME NEW a, NEW version
  PROVE  Argument(a, version) = (EntryHead(a, version) \o I64s(a.dims)) \o I64s(a.strides)
BY DEF Argument, EntryHead

(* Values of these kinds.                                                  *)
OfKinds(values, kinds) == \A k \in 1..Len(kinds) : <<kinds[k], values[k]>> \in Readable

(* The first fields of an entry are taken; version by version.             *)
HeadTypes(a) ==
  /\ a.uid \in Signed /\ a.name \in Texts /\ a.type \in Units /\ a.access \in Units
  /\ a.storage \in Units /\ a.offsetUid \in Signed /\ a.sequenceUid \in Signed
  /\ a.divisor \in Signed /\ a.alignment \in Unsigned /\ a.size \in Unsigned

LEMMA ShortHeadTaken ==
  ASSUME NEW v, NEW kinds, NEW dims, NEW strides, NEW version \in Nat, version < 4,
         kinds = EntryKinds(version), v \in Seq(Values), Len(v) = Len(kinds),
         OfKinds(v, kinds), Len(dims) = v[Len(v)],
         NEW a, a = ArgumentOf(v, dims, strides, version)
  PROVE  Paired(kinds, v) = EntryHead(a, version) /\ v[Len(v)] \in Units /\ HeadTypes(a)
<1>1. kinds = <<"i64", "string", "u32", "u32", "u64", "u64", "u32">>
  BY EntryKindsList
<1>2. Len(v) = 7 /\ DOMAIN v = 1..7
  BY <1>1, LenProperties
<1>3. /\ a.uid = v[1] /\ a.name = v[2] /\ a.type = v[3] /\ a.access = v[4]
      /\ a.alignment = v[5] /\ a.size = v[6] /\ Len(a.dims) = v[7] /\ a.storage = 0
      /\ a.offsetUid = 0 /\ a.sequenceUid = 0 /\ a.divisor = 1
  BY <1>2 DEF ArgumentOf
<1>4. /\ <<"i64", v[1]>> \in Field
      /\ <<"string", v[2]>> \in Field
      /\ <<"u32", v[3]>> \in Field
      /\ <<"u32", v[4]>> \in Field
      /\ <<"u64", v[5]>> \in Field
      /\ <<"u64", v[6]>> \in Field
      /\ <<"u32", v[7]>> \in Field
  <2>1. kinds[1] = "i64" /\ kinds[2] = "string" /\ kinds[3] = "u32" /\ kinds[4] = "u32"
    BY <1>1
  <2>2. kinds[5] = "u64" /\ kinds[6] = "u64" /\ kinds[7] = "u32"
    BY <1>1
  <2>3. \A k \in 1..7 : <<kinds[k], v[k]>> \in Field
    BY <1>2 DEF Readable, OfKinds
  <2>4. \A k \in 1..7 : \A kind : kind = kinds[k] => <<kind, v[k]>> \in Field
    BY <2>3
  <2>5. /\ 1 \in 1..7 /\ 2 \in 1..7 /\ 3 \in 1..7 /\ 4 \in 1..7
        /\ 5 \in 1..7 /\ 6 \in 1..7 /\ 7 \in 1..7
    OBVIOUS
  <2> QED
    BY <2>1, <2>2, <2>4, <2>5
<1>5. /\ v[1] \in Signed /\ v[2] \in Texts /\ v[3] \in Units /\ v[4] \in Units
      /\ v[5] \in Unsigned /\ v[6] \in Unsigned /\ v[7] \in Units
  BY <1>4, FieldTypes
<1>6. HeadTypes(a)
  <2>1. 0 \in Units /\ 0 \in Signed /\ 1 \in Signed
    BY UnitsFacts DEF Units, Signed
  <2> QED
    BY <1>3, <1>5, <2>1 DEF HeadTypes
<1>7. EntryHead(a, version) =
        <<I64(v[1]), String(v[2]), U32(v[3]), U32(v[4]), U64(v[5]), U64(v[6]),
          U32(v[7])>>
  BY <1>3, EntryHeadList
<1>8. Paired(kinds, v) =
        <<I64(v[1]), String(v[2]), U32(v[3]), U32(v[4]), U64(v[5]), U64(v[6]),
          U32(v[7])>>
  BY <1>1, <1>2 DEF Paired, I64, String, U32, U64
<1> QED
  BY <1>2, <1>5, <1>6, <1>7, <1>8

LEMMA MiddleHeadTaken ==
  ASSUME NEW v, NEW kinds, NEW dims, NEW strides, NEW version \in Nat, version >= 4, version < 5,
         kinds = EntryKinds(version), v \in Seq(Values), Len(v) = Len(kinds),
         OfKinds(v, kinds), Len(dims) = v[Len(v)],
         NEW a, a = ArgumentOf(v, dims, strides, version)
  PROVE  Paired(kinds, v) = EntryHead(a, version) /\ v[Len(v)] \in Units /\ HeadTypes(a)
<1>1. version = 4
  OBVIOUS
<1>2. kinds = <<"i64", "string", "u32", "u32", "u32", "i64", "i64", "u64", "u64", "u32">>
  BY <1>1, EntryKindsList
<1>3. Len(v) = 10 /\ DOMAIN v = 1..10
  BY <1>2, LenProperties
<1>4. /\ a.uid = v[1] /\ a.name = v[2] /\ a.type = v[3] /\ a.access = v[4]
      /\ a.storage = v[5] /\ a.offsetUid = v[6] /\ a.sequenceUid = v[7] /\ a.alignment = v[8]
      /\ a.size = v[9] /\ Len(a.dims) = v[10] /\ a.divisor = 1
  <2>1. a = [uid |-> v[1], name |-> v[2], type |-> v[3], access |-> v[4],
             storage |-> v[5], offsetUid |-> v[6], sequenceUid |-> v[7], divisor |-> 1,
             alignment |-> v[8], size |-> v[9], dims |-> dims, strides |-> strides]
    BY <1>3 DEF ArgumentOf
  <2> QED
    BY <1>3, <2>1
<1>5. /\ <<"i64", v[1]>> \in Field
      /\ <<"string", v[2]>> \in Field
      /\ <<"u32", v[3]>> \in Field
      /\ <<"u32", v[4]>> \in Field
      /\ <<"u32", v[5]>> \in Field
      /\ <<"i64", v[6]>> \in Field
      /\ <<"i64", v[7]>> \in Field
      /\ <<"u64", v[8]>> \in Field
      /\ <<"u64", v[9]>> \in Field
      /\ <<"u32", v[10]>> \in Field
  <2>1. /\ kinds[1] = "i64" /\ kinds[2] = "string" /\ kinds[3] = "u32"
        /\ kinds[4] = "u32" /\ kinds[5] = "u32"
    BY <1>2
  <2>2. /\ kinds[6] = "i64" /\ kinds[7] = "i64" /\ kinds[8] = "u64"
        /\ kinds[9] = "u64" /\ kinds[10] = "u32"
    BY <1>2
  <2>3. \A k \in 1..10 : <<kinds[k], v[k]>> \in Field
    BY <1>3 DEF Readable, OfKinds
  <2>4. \A k \in 1..10 : \A kind : kind = kinds[k] => <<kind, v[k]>> \in Field
    BY <2>3
  <2>5. /\ 1 \in 1..10 /\ 2 \in 1..10 /\ 3 \in 1..10 /\ 4 \in 1..10
        /\ 5 \in 1..10 /\ 6 \in 1..10 /\ 7 \in 1..10 /\ 8 \in 1..10
        /\ 9 \in 1..10 /\ 10 \in 1..10
    OBVIOUS
  <2> QED
    BY <2>1, <2>2, <2>4, <2>5
<1>6. /\ v[1] \in Signed /\ v[2] \in Texts /\ v[3] \in Units /\ v[4] \in Units
      /\ v[5] \in Units /\ v[6] \in Signed /\ v[7] \in Signed /\ v[8] \in Unsigned
      /\ v[9] \in Unsigned /\ v[10] \in Units
  BY <1>5, FieldTypes
<1>7. HeadTypes(a)
  <2>1. 0 \in Units /\ 0 \in Signed /\ 1 \in Signed
    BY UnitsFacts DEF Units, Signed
  <2> QED
    BY <1>4, <1>6, <2>1 DEF HeadTypes
<1>8. EntryHead(a, version) =
        <<I64(v[1]), String(v[2]), U32(v[3]), U32(v[4]), U32(v[5]), I64(v[6]),
          I64(v[7]), U64(v[8]), U64(v[9]), U32(v[10])>>
  BY <1>1, <1>4, EntryHeadList
<1>9. Paired(kinds, v) =
        <<I64(v[1]), String(v[2]), U32(v[3]), U32(v[4]), U32(v[5]), I64(v[6]),
          I64(v[7]), U64(v[8]), U64(v[9]), U32(v[10])>>
  BY <1>2, <1>3 DEF Paired, I64, String, U32, U64
<1> QED
  BY <1>3, <1>6, <1>7, <1>8, <1>9

LEMMA LongHeadTaken ==
  ASSUME NEW v, NEW kinds, NEW dims, NEW strides, NEW version \in Nat, version >= 5,
         kinds = EntryKinds(version), v \in Seq(Values), Len(v) = Len(kinds),
         OfKinds(v, kinds), Len(dims) = v[Len(v)],
         NEW a, a = ArgumentOf(v, dims, strides, version)
  PROVE  Paired(kinds, v) = EntryHead(a, version) /\ v[Len(v)] \in Units /\ HeadTypes(a)
<1>1. kinds = <<"i64", "string", "u32", "u32", "u32", "i64", "i64", "i64", "u64", "u64", "u32">>
  BY EntryKindsList
<1>2. Len(v) = 11 /\ DOMAIN v = 1..11
  BY <1>1, LenProperties
<1>3. /\ a.uid = v[1] /\ a.name = v[2] /\ a.type = v[3] /\ a.access = v[4]
      /\ a.storage = v[5] /\ a.offsetUid = v[6] /\ a.sequenceUid = v[7] /\ a.divisor = v[8]
      /\ a.alignment = v[9] /\ a.size = v[10] /\ Len(a.dims) = v[11]
  BY <1>2 DEF ArgumentOf
<1>4. /\ <<"i64", v[1]>> \in Field
      /\ <<"string", v[2]>> \in Field
      /\ <<"u32", v[3]>> \in Field
      /\ <<"u32", v[4]>> \in Field
      /\ <<"u32", v[5]>> \in Field
      /\ <<"i64", v[6]>> \in Field
      /\ <<"i64", v[7]>> \in Field
      /\ <<"i64", v[8]>> \in Field
      /\ <<"u64", v[9]>> \in Field
      /\ <<"u64", v[10]>> \in Field
      /\ <<"u32", v[11]>> \in Field
  <2>1. /\ kinds[1] = "i64" /\ kinds[2] = "string" /\ kinds[3] = "u32"
        /\ kinds[4] = "u32" /\ kinds[5] = "u32" /\ kinds[6] = "i64"
    BY <1>1
  <2>2. /\ kinds[7] = "i64" /\ kinds[8] = "i64" /\ kinds[9] = "u64"
        /\ kinds[10] = "u64" /\ kinds[11] = "u32"
    BY <1>1
  <2>3. \A k \in 1..11 : <<kinds[k], v[k]>> \in Field
    BY <1>2 DEF Readable, OfKinds
  <2>4. \A k \in 1..11 : \A kind : kind = kinds[k] => <<kind, v[k]>> \in Field
    BY <2>3
  <2>5. /\ 1 \in 1..11 /\ 2 \in 1..11 /\ 3 \in 1..11 /\ 4 \in 1..11
        /\ 5 \in 1..11 /\ 6 \in 1..11 /\ 7 \in 1..11 /\ 8 \in 1..11
        /\ 9 \in 1..11 /\ 10 \in 1..11 /\ 11 \in 1..11
    OBVIOUS
  <2> QED
    BY <2>1, <2>2, <2>4, <2>5
<1>5. /\ v[1] \in Signed /\ v[2] \in Texts /\ v[3] \in Units /\ v[4] \in Units
      /\ v[5] \in Units /\ v[6] \in Signed /\ v[7] \in Signed /\ v[8] \in Signed
      /\ v[9] \in Unsigned /\ v[10] \in Unsigned /\ v[11] \in Units
  BY <1>4, FieldTypes
<1>6. HeadTypes(a)
  <2>1. 0 \in Units /\ 0 \in Signed /\ 1 \in Signed
    BY UnitsFacts DEF Units, Signed
  <2> QED
    BY <1>3, <1>5, <2>1 DEF HeadTypes
<1>7. EntryHead(a, version) =
        <<I64(v[1]), String(v[2]), U32(v[3]), U32(v[4]), U32(v[5]), I64(v[6]),
          I64(v[7]), I64(v[8]), U64(v[9]), U64(v[10]), U32(v[11])>>
  BY <1>3, EntryHeadList
<1>8. Paired(kinds, v) =
        <<I64(v[1]), String(v[2]), U32(v[3]), U32(v[4]), U32(v[5]), I64(v[6]),
          I64(v[7]), I64(v[8]), U64(v[9]), U64(v[10]), U32(v[11])>>
  BY <1>1, <1>2 DEF Paired, I64, String, U32, U64
<1> QED
  BY <1>2, <1>5, <1>6, <1>7, <1>8

(* An entry of the argument table is taken whole.                          *)
IsEntry(a) ==
  a = [uid |-> a.uid, name |-> a.name, type |-> a.type, access |-> a.access,
       storage |-> a.storage, offsetUid |-> a.offsetUid, sequenceUid |-> a.sequenceUid,
       divisor |-> a.divisor, alignment |-> a.alignment, size |-> a.size,
       dims |-> a.dims, strides |-> a.strides]

LEMMA EntryTaken ==
  ASSUME NEW units \in Seq(Units), NEW from \in 0..Len(units), NEW version \in Nat,
         NEW read, read = ReadEntry(units, from, version), read.ok
  PROVE  /\ Taken(units, from, Argument(read.value, version), read.at)
         /\ read.at \in 0..Len(units)
         /\ HeadTypes(read.value)
         /\ read.value.dims \in Lists(Signed) /\ read.value.strides \in Lists(Signed)
         /\ IsEntry(read.value)
<1>1. PICK head, v, rank : /\ head = ArgumentHead(units, from, version)
                           /\ v = head.value /\ rank = v[Len(v)]
  OBVIOUS
<1>2. head.ok /\ rank \in 1..MaxEntries
  BY <1>1 DEF ReadEntry, Short
<1>3. PICK lists, list : lists = ReadI64s(units, head.at, 2 * rank) /\ list = lists.value
  OBVIOUS
<1>4. PICK dims, strides, a :
        /\ dims = SubSeq(list, 1, rank) /\ strides = SubSeq(list, rank + 1, 2 * rank)
        /\ a = ArgumentOf(v, dims, strides, version)
  OBVIOUS
<1>5. /\ lists.ok
      /\ read = [lists EXCEPT !.value = a]
  BY <1>1, <1>2, <1>3, <1>4 DEF ReadEntry, Short
<1>6. PICK kinds : kinds = EntryKinds(version) /\ kinds \in Seq(Kinds)
  BY EntryKindsAreKinds
<1>7. head = ReadAll(units, from, kinds)
  BY <1>1, <1>6 DEF ArgumentHead, EntryKinds
<1>8. /\ v \in Seq(Values) /\ Len(v) = Len(kinds)
      /\ Taken(units, from, Paired(kinds, v), head.at)
      /\ head.at \in 0..Len(units)
      /\ \A k \in 1..Len(kinds) : <<kinds[k], v[k]>> \in Readable
  BY <1>1, <1>2, <1>6, <1>7, ReadTaken
<1>9. rank \in Nat /\ MaxEntries \in Nat /\ 2 * rank \in Nat
  BY <1>2, UnitsFacts
<1>10. /\ list \in Seq(Signed) /\ Len(list) = 2 * rank
       /\ Taken(units, head.at, I64s(list), lists.at)
       /\ lists.at \in 0..Len(units)
  BY <1>3, <1>5, <1>8, <1>9, NumbersTaken
<1>11. /\ dims \in Seq(Signed) /\ Len(dims) = rank
       /\ strides \in Seq(Signed) /\ Len(strides) = rank
       /\ dims \o strides = list
  <2>1. \A k \in 1..(2 * rank) : list[k] \in Signed
    BY <1>10, ElementOfSeq
  <2>2. dims \in Seq(Signed) /\ Len(dims) = rank
    <3>1. \A k \in 1..rank : list[k] \in Signed
      BY <1>9, <2>1
    <3>2. /\ dims \in Seq(Signed)
          /\ Len(dims) = IF 1 <= rank THEN rank - 1 + 1 ELSE 0
      BY <1>4, <1>9, <3>1, SubSeqProperties
    <3> QED
      BY <1>2, <1>9, <3>2
  <2>3. strides \in Seq(Signed) /\ Len(strides) = rank
    <3>1. \A k \in (rank + 1)..(2 * rank) : list[k] \in Signed
      BY <1>9, <2>1
    <3>2. /\ strides \in Seq(Signed)
          /\ Len(strides) = IF rank + 1 <= 2 * rank THEN 2 * rank - (rank + 1) + 1 ELSE 0
      BY <1>4, <1>9, <3>1, SubSeqProperties
    <3> QED
      BY <1>2, <1>9, <3>2
  <2>4. SubSeq(list, 1, 2 * rank) = list
    BY <1>10, SubSeqFull
  <2>5. SubSeq(list, 1, rank) \o SubSeq(list, rank + 1, 2 * rank) = SubSeq(list, 1, 2 * rank)
    <3>1. /\ 1 \in 1..Len(list) + 1 /\ rank \in (1 - 1)..Len(list)
          /\ 2 * rank \in rank..Len(list)
      BY <1>9, <1>10
    <3> QED
      BY <1>10, <3>1, ConcatAdjacentSubSeq
  <2> QED
    BY <1>4, <2>2, <2>3, <2>4, <2>5
<1>12. rank = v[Len(v)] /\ Len(dims) = v[Len(v)]
  BY <1>1, <1>11
<1>13. OfKinds(v, kinds)
  BY <1>8 DEF OfKinds
<1>14. /\ v \in Seq(Values) /\ Len(v) = Len(kinds)
       /\ kinds = EntryKinds(version) /\ Len(dims) = v[Len(v)]
  BY <1>6, <1>8, <1>12
<1>15. a = ArgumentOf(v, dims, strides, version)
  BY <1>4
<1>16. Paired(kinds, v) = EntryHead(a, version) /\ HeadTypes(a)
  <2>1. version < 4 \/ (version >= 4 /\ version < 5) \/ version >= 5
    OBVIOUS
  <2>2. CASE version < 4
    BY <1>13, <1>14, <1>15, <2>2, ShortHeadTaken
  <2>3. CASE version >= 4 /\ version < 5
    BY <1>13, <1>14, <1>15, <2>3, MiddleHeadTaken
  <2>4. CASE version >= 5
    BY <1>13, <1>14, <1>15, <2>4, LongHeadTaken
  <2> QED
    BY <2>1, <2>2, <2>3, <2>4
<1>17. a.dims = dims /\ a.strides = strides
  BY <1>4 DEF ArgumentOf
<1>18. /\ I64s(list) = I64s(a.dims) \o I64s(a.strides)
       /\ I64s(a.dims) \in Seq(Limited(0)) /\ I64s(a.strides) \in Seq(Limited(0))
  BY <1>11, <1>17, SignedConcat, SignedList
<1>19. from \in Nat
  BY LenProperties
<1>20. Taken(units, from, EntryHead(a, version) \o I64s(list), lists.at)
  BY <1>8, <1>10, <1>16, <1>19, TakenConcat
<1>21. Argument(a, version) = EntryHead(a, version) \o I64s(list)
  <2>1. PICK p, q, r : p = EntryHead(a, version) /\ q = I64s(a.dims) /\ r = I64s(a.strides)
    OBVIOUS
  <2>2. p \in Seq(Field) /\ q \in Seq(Field) /\ r \in Seq(Field)
    <3>1. p \in Seq(Readable)
      BY <1>8, <1>16, <2>1 DEF Taken
    <3> QED
      BY <1>18, <2>1, <3>1, ReadableLists, LimitedIsField
  <2>3. (p \o q) \o r = p \o (q \o r)
    <3>1. Regroups(p, q, r)
      BY <2>2, Regrouped
    <3> QED
      BY <3>1 DEF Regroups
  <2> QED
    BY <1>18, <2>1, <2>3, EntryIsArgument
<1>22. read.value = a /\ read.at = lists.at
  <2>1. PICK all : all = [k \in 1..(2 * rank) |-> "i64"]
    OBVIOUS
  <2>2. all \in Seq(Kinds) /\ Len(all) = 2 * rank /\ Len(all) \in 1..Len(all) /\ head.at \in Nat
    BY <1>2, <1>8, <1>9, <2>1, LenProperties DEF Kinds
  <2>3. PICK before, kind : lists = ReadNext(units, before, kind)
    <3>1. lists = ReadAllUpTo(units, head.at, all)[Len(all)]
      BY <1>3, <2>1, <2>2, ReadAllFirst DEF ReadI64s
    <3> QED
      BY <2>2, <3>1, ReadAllNext
  <2>4. PICK one, next : lists = [ok |-> TRUE, value |-> one, at |-> next]
    BY <1>5, <2>3 DEF ReadNext, Short
  <2>5. read = [ok |-> TRUE, value |-> a, at |-> next]
    BY <1>5, <2>4
  <2> QED
    BY <2>4, <2>5
<1>23. dims \in Lists(Signed) /\ strides \in Lists(Signed)
  <2>1. rank \in Units
    BY <1>2, UnitsFacts DEF Units
  <2> QED
    BY <1>11, <2>1 DEF Lists
<1>24. IsEntry(a)
  BY <1>4 DEF ArgumentOf, IsEntry
<1> QED
  BY <1>10, <1>16, <1>17, <1>20, <1>21, <1>22, <1>23, <1>24

(* The parts of a list of values.                                          *)
LEMMA PartOfList ==
  ASSUME NEW S, NEW list \in Seq(S), NEW m \in 1..Len(list), NEW n \in m..Len(list),
         NEW k, k = n - m + 1
  PROVE  SubSeq(list, m, n) \in [1..k -> S]
<1>1. Len(list) \in Nat /\ m \in Int /\ n \in Int /\ m <= n
  BY LenProperties
<1>2. \A i \in m..n : list[i] \in S
  BY <1>1, ElementOfSeq
<1>3. SubSeq(list, m, n) \in Seq(S) /\ Len(SubSeq(list, m, n)) = IF m <= n THEN n - m + 1 ELSE 0
  BY <1>1, <1>2, SubSeqProperties
<1>4. Len(SubSeq(list, m, n)) = k
  BY <1>1, <1>3
<1> QED
  BY <1>3, <1>4, LenProperties

LEMMA ConvolutionTaken ==
  ASSUME NEW v \in Seq(Signed), Len(v) = 27, NEW conv, conv = ConvolutionOf(v)
  PROVE  conv \in ConvolutionRecord /\ Convolution(conv) = I64s(v)
<1>1. /\ conv.uids = SubSeq(v, 1, 3)
      /\ conv.x = SubSeq(v, 4, 7)
      /\ conv.w = SubSeq(v, 8, 11)
      /\ conv.y = SubSeq(v, 12, 15)
      /\ conv.padded = SubSeq(v, 16, 19)
      /\ conv.pre = SubSeq(v, 20, 21)
      /\ conv.post = SubSeq(v, 22, 23)
      /\ conv.stride = SubSeq(v, 24, 25)
      /\ conv.dilation = SubSeq(v, 26, 27)
  BY DEF ConvolutionOf
<1>2. /\ conv.uids \in [1..3 -> Signed]
      /\ conv.x \in [1..4 -> Signed]
      /\ conv.w \in [1..4 -> Signed]
      /\ conv.y \in [1..4 -> Signed]
      /\ conv.padded \in [1..4 -> Signed]
      /\ conv.pre \in [1..2 -> Signed]
      /\ conv.post \in [1..2 -> Signed]
      /\ conv.stride \in [1..2 -> Signed]
      /\ conv.dilation \in [1..2 -> Signed]
  <2>1. conv.uids \in [1..3 -> Signed]
    <3>1. 1 \in 1..Len(v) /\ 3 \in 1..Len(v) /\ 3 = 3 - 1 + 1
      OBVIOUS
    <3>2. SubSeq(v, 1, 3) \in [1..3 -> Signed]
      BY <3>1, PartOfList
    <3> QED
      BY <1>1, <3>2
  <2>2. conv.x \in [1..4 -> Signed]
    <3>1. 4 \in 1..Len(v) /\ 7 \in 4..Len(v) /\ 4 = 7 - 4 + 1
      OBVIOUS
    <3>2. SubSeq(v, 4, 7) \in [1..4 -> Signed]
      BY <3>1, PartOfList
    <3> QED
      BY <1>1, <3>2
  <2>3. conv.w \in [1..4 -> Signed]
    <3>1. 8 \in 1..Len(v) /\ 11 \in 8..Len(v) /\ 4 = 11 - 8 + 1
      OBVIOUS
    <3>2. SubSeq(v, 8, 11) \in [1..4 -> Signed]
      BY <3>1, PartOfList
    <3> QED
      BY <1>1, <3>2
  <2>4. conv.y \in [1..4 -> Signed]
    <3>1. 12 \in 1..Len(v) /\ 15 \in 12..Len(v) /\ 4 = 15 - 12 + 1
      OBVIOUS
    <3>2. SubSeq(v, 12, 15) \in [1..4 -> Signed]
      BY <3>1, PartOfList
    <3> QED
      BY <1>1, <3>2
  <2>5. conv.padded \in [1..4 -> Signed]
    <3>1. 16 \in 1..Len(v) /\ 19 \in 16..Len(v) /\ 4 = 19 - 16 + 1
      OBVIOUS
    <3>2. SubSeq(v, 16, 19) \in [1..4 -> Signed]
      BY <3>1, PartOfList
    <3> QED
      BY <1>1, <3>2
  <2>6. conv.pre \in [1..2 -> Signed]
    <3>1. 20 \in 1..Len(v) /\ 21 \in 20..Len(v) /\ 2 = 21 - 20 + 1
      OBVIOUS
    <3>2. SubSeq(v, 20, 21) \in [1..2 -> Signed]
      BY <3>1, PartOfList
    <3> QED
      BY <1>1, <3>2
  <2>7. conv.post \in [1..2 -> Signed]
    <3>1. 22 \in 1..Len(v) /\ 23 \in 22..Len(v) /\ 2 = 23 - 22 + 1
      OBVIOUS
    <3>2. SubSeq(v, 22, 23) \in [1..2 -> Signed]
      BY <3>1, PartOfList
    <3> QED
      BY <1>1, <3>2
  <2>8. conv.stride \in [1..2 -> Signed]
    <3>1. 24 \in 1..Len(v) /\ 25 \in 24..Len(v) /\ 2 = 25 - 24 + 1
      OBVIOUS
    <3>2. SubSeq(v, 24, 25) \in [1..2 -> Signed]
      BY <3>1, PartOfList
    <3> QED
      BY <1>1, <3>2
  <2>9. conv.dilation \in [1..2 -> Signed]
    <3>1. 26 \in 1..Len(v) /\ 27 \in 26..Len(v) /\ 2 = 27 - 26 + 1
      OBVIOUS
    <3>2. SubSeq(v, 26, 27) \in [1..2 -> Signed]
      BY <3>1, PartOfList
    <3> QED
      BY <1>1, <3>2
  <2> QED
    BY <2>1, <2>2, <2>3, <2>4, <2>5, <2>6, <2>7, <2>8, <2>9
<1>3. conv \in ConvolutionRecord
  <2>1. conv = [uids |-> conv.uids, x |-> conv.x, w |-> conv.w, y |-> conv.y,
                padded |-> conv.padded, pre |-> conv.pre, post |-> conv.post,
                stride |-> conv.stride, dilation |-> conv.dilation]
    BY DEF ConvolutionOf
  <2> QED
    BY <1>2, <2>1 DEF ConvolutionRecord, Shape, Pair
<1>4. ConvolutionList(conv) = v
  <2>1. SubSeq(v, 1, 3) \o SubSeq(v, 4, 7) = SubSeq(v, 1, 7)
    <3>1. 1 \in 1..Len(v) + 1 /\ 3 \in (1 - 1)..Len(v) /\ 7 \in 3..Len(v)
      OBVIOUS
    <3>2. SubSeq(v, 1, 3) \o SubSeq(v, 3 + 1, 7) = SubSeq(v, 1, 7)
      BY <3>1, ConcatAdjacentSubSeq
    <3>3. 3 + 1 = 4
      OBVIOUS
    <3> QED
      BY <3>2, <3>3
  <2>2. SubSeq(v, 1, 7) \o SubSeq(v, 8, 11) = SubSeq(v, 1, 11)
    <3>1. 1 \in 1..Len(v) + 1 /\ 7 \in (1 - 1)..Len(v) /\ 11 \in 7..Len(v)
      OBVIOUS
    <3>2. SubSeq(v, 1, 7) \o SubSeq(v, 7 + 1, 11) = SubSeq(v, 1, 11)
      BY <3>1, ConcatAdjacentSubSeq
    <3>3. 7 + 1 = 8
      OBVIOUS
    <3> QED
      BY <3>2, <3>3
  <2>3. SubSeq(v, 1, 11) \o SubSeq(v, 12, 15) = SubSeq(v, 1, 15)
    <3>1. 1 \in 1..Len(v) + 1 /\ 11 \in (1 - 1)..Len(v) /\ 15 \in 11..Len(v)
      OBVIOUS
    <3>2. SubSeq(v, 1, 11) \o SubSeq(v, 11 + 1, 15) = SubSeq(v, 1, 15)
      BY <3>1, ConcatAdjacentSubSeq
    <3>3. 11 + 1 = 12
      OBVIOUS
    <3> QED
      BY <3>2, <3>3
  <2>4. SubSeq(v, 1, 15) \o SubSeq(v, 16, 19) = SubSeq(v, 1, 19)
    <3>1. 1 \in 1..Len(v) + 1 /\ 15 \in (1 - 1)..Len(v) /\ 19 \in 15..Len(v)
      OBVIOUS
    <3>2. SubSeq(v, 1, 15) \o SubSeq(v, 15 + 1, 19) = SubSeq(v, 1, 19)
      BY <3>1, ConcatAdjacentSubSeq
    <3>3. 15 + 1 = 16
      OBVIOUS
    <3> QED
      BY <3>2, <3>3
  <2>5. SubSeq(v, 1, 19) \o SubSeq(v, 20, 21) = SubSeq(v, 1, 21)
    <3>1. 1 \in 1..Len(v) + 1 /\ 19 \in (1 - 1)..Len(v) /\ 21 \in 19..Len(v)
      OBVIOUS
    <3>2. SubSeq(v, 1, 19) \o SubSeq(v, 19 + 1, 21) = SubSeq(v, 1, 21)
      BY <3>1, ConcatAdjacentSubSeq
    <3>3. 19 + 1 = 20
      OBVIOUS
    <3> QED
      BY <3>2, <3>3
  <2>6. SubSeq(v, 1, 21) \o SubSeq(v, 22, 23) = SubSeq(v, 1, 23)
    <3>1. 1 \in 1..Len(v) + 1 /\ 21 \in (1 - 1)..Len(v) /\ 23 \in 21..Len(v)
      OBVIOUS
    <3>2. SubSeq(v, 1, 21) \o SubSeq(v, 21 + 1, 23) = SubSeq(v, 1, 23)
      BY <3>1, ConcatAdjacentSubSeq
    <3>3. 21 + 1 = 22
      OBVIOUS
    <3> QED
      BY <3>2, <3>3
  <2>7. SubSeq(v, 1, 23) \o SubSeq(v, 24, 25) = SubSeq(v, 1, 25)
    <3>1. 1 \in 1..Len(v) + 1 /\ 23 \in (1 - 1)..Len(v) /\ 25 \in 23..Len(v)
      OBVIOUS
    <3>2. SubSeq(v, 1, 23) \o SubSeq(v, 23 + 1, 25) = SubSeq(v, 1, 25)
      BY <3>1, ConcatAdjacentSubSeq
    <3>3. 23 + 1 = 24
      OBVIOUS
    <3> QED
      BY <3>2, <3>3
  <2>8. SubSeq(v, 1, 25) \o SubSeq(v, 26, 27) = SubSeq(v, 1, 27)
    <3>1. 1 \in 1..Len(v) + 1 /\ 25 \in (1 - 1)..Len(v) /\ 27 \in 25..Len(v)
      OBVIOUS
    <3>2. SubSeq(v, 1, 25) \o SubSeq(v, 25 + 1, 27) = SubSeq(v, 1, 27)
      BY <3>1, ConcatAdjacentSubSeq
    <3>3. 25 + 1 = 26
      OBVIOUS
    <3> QED
      BY <3>2, <3>3
  <2>9. SubSeq(v, 1, 27) = v
    BY SubSeqFull
  <2>10. ConvolutionList(conv)
           = (((((((SubSeq(v, 1, 3) \o SubSeq(v, 4, 7)) \o SubSeq(v, 8, 11))
               \o SubSeq(v, 12, 15)) \o SubSeq(v, 16, 19)) \o SubSeq(v, 20, 21))
               \o SubSeq(v, 22, 23)) \o SubSeq(v, 24, 25)) \o SubSeq(v, 26, 27)
    BY <1>1 DEF ConvolutionList
  <2> QED
    BY <2>1, <2>2, <2>3, <2>4, <2>5, <2>6, <2>7, <2>8, <2>9, <2>10
<1> QED
  BY <1>3, <1>4, ConvolutionLists

(***************************************************************************)
(* What has been read of a file, as fields.                                *)
(***************************************************************************)
Entries(c) == [k \in DOMAIN c.arguments |-> Argument(c.arguments[k], c.version)]
Allocated(plan) == [k \in DOMAIN plan.allocations |-> Allocation(plan.allocations[k])]

Opening(c) == Header(c, c.version) \o Since(3, c.version, Overrides(c, c.version))

PlanHead(plan, count) == <<U64(plan.size), U64(plan.alignment), U32(count)>>

FieldsRead ==
  CASE phase = "header" -> <<>>
    [] phase \in {"overrides", "legacy"} -> Header(restored, restored.version)
    [] phase = "arguments" -> Opening(restored)
    [] phase = "argument" ->
         (Opening(restored) \o <<U32(Len(restored.arguments) + left)>>)
           \o Joint(Entries(restored))
    [] phase = "adapter" -> Opening(restored) \o ArgumentTable(restored, restored.version)
    [] phase = "plan" -> Metadata(restored, restored.version)
    [] phase = "allocation" ->
         (Metadata(restored, restored.version)
           \o PlanHead(restored.plan, Len(restored.plan.allocations) + left))
           \o Joint(Allocated(restored.plan))
    [] phase = "numeric" -> Metadata(restored, restored.version) \o Plan(restored.plan)
    [] OTHER ->
         ((Metadata(restored, restored.version) \o Plan(restored.plan)) \o NumericContract)
           \o VariantsWritten(restored, seen)

(* What a reader holds.  The argument table of version 1 is made up.       *)
LegacyTables == {LegacyArguments(conv) : conv \in ConvolutionRecord}

Readout ==
  [version : 1..kArtifactFormatVersion, triple : Texts, function : Texts,
   dynamic : BOOLEAN, override : BOOLEAN, policy : Units,
   roles : Lists(Signed), axes : Lists(Signed),
   arguments : Lists(ArgumentRecord) \cup LegacyTables,
   adapter : {ConvAdapter, GenericAdapter}, conv : ConvolutionRecord,
   plan : PlanRecord, variants : [1..3 -> VariantRecord]]

Before(section) ==
  CASE section = "arguments" -> {"header", "overrides", "legacy", "arguments"}
    [] section = "plan" ->
         {"header", "overrides", "legacy", "arguments", "argument", "adapter", "plan"}
    [] section = "variant" ->
         {"header", "overrides", "legacy", "arguments", "argument", "adapter", "plan",
          "allocation", "numeric"}

(* Where a reader is.                                                      *)
PlaceInv ==
  /\ file.payload \in Seq(Units) /\ restored \in Readout
  /\ left \in Nat /\ seen \in Seq(1..3)
  /\ phase \in Before("variant") \cup {"variant", "contract", "accepted", "refused"}
  /\ phase = "header" => at = 0
  /\ phase = "overrides" => restored.version >= 3
  /\ phase = "legacy" => restored.version = 1
  /\ phase \in {"arguments", "argument", "adapter"} => restored.version >= 2
  /\ restored.version >= 2 => restored.arguments \in Lists(ArgumentRecord)
  /\ phase \in Before("arguments") => restored.arguments = <<>>
  /\ phase \in Before("plan") => restored.plan.allocations = <<>>
  /\ phase \in Before("variant") => seen = <<>>
  /\ phase \in {"argument", "allocation", "variant"} => left > 0
  /\ phase = "argument" => Len(restored.arguments) + left \in Units
  /\ phase = "allocation" => Len(restored.plan.allocations) + left \in Units
  /\ phase = "variant" => Len(seen) + left = 3

ReadInv ==
  /\ PlaceInv
  /\ phase # "refused" => Taken(file.payload, 0, FieldsRead, at)
  /\ phase = "accepted" => at = Len(file.payload) /\ ContractValid(restored)

LEMMA ArtifactTexts ==
  ASSUME NEW c \in Artifact
  PROVE  ShortTexts(c, Base - 1)
<1>1. /\ c.triple \in Texts /\ c.function \in Texts
      /\ c.arguments \in Seq(ArgumentRecord) /\ c.plan \in PlanRecord
      /\ c.variants \in [1..3 -> VariantRecord]
  BY ArtifactParts DEF Lists
<1>2. c.plan.allocations \in Seq(AllocationRecord)
  BY <1>1 DEF PlanRecord, Lists
<1>3. \A a \in Items(c.arguments) : a.name \in Texts
  <2>1. \A k \in 1..Len(c.arguments) : c.arguments[k] \in ArgumentRecord
    BY <1>1, ElementOfSeq
  <2>2. \A a \in ArgumentRecord : a.name \in Texts
    BY DEF ArgumentRecord
  <2> QED
    BY <2>1, <2>2 DEF Items
<1>4. \A a \in Items(c.plan.allocations) : a.name \in Texts
  <2>1. \A k \in 1..Len(c.plan.allocations) : c.plan.allocations[k] \in AllocationRecord
    BY <1>2, ElementOfSeq
  <2>2. \A a \in AllocationRecord : a.name \in Texts
    BY DEF AllocationRecord
  <2> QED
    BY <2>1, <2>2 DEF Items
<1>5. \A v \in 1..3 : c.variants[v].symbol \in Texts /\ c.variants[v].features \in Texts
  BY <1>1 DEF VariantRecord
<1>6. \A text \in TextsOf(c) : text \in Texts
  BY <1>1, <1>3, <1>4, <1>5 DEF TextsOf
<1>7. \A text \in Texts : Len(text) <= Base - 1
  BY UnitsFacts DEF Texts, Units
<1> QED
  BY <1>6, <1>7 DEF ShortTexts

Everything(c, version, order) ==
  ((Metadata(c, version) \o Plan(c.plan)) \o NumericContract) \o VariantsWritten(c, order)

LEMMA EverythingFields ==
  ASSUME NEW L \in Nat, L >= 1, NEW c \in Artifact, ShortTexts(c, L),
         NEW version \in 1..kArtifactFormatVersion, NEW order \in Seq(1..3)
  PROVE  /\ Metadata(c, version) \in Seq(Limited(L)) /\ Plan(c.plan) \in Seq(Limited(L))
         /\ NumericContract \in Seq(Limited(L)) /\ VariantsWritten(c, order) \in Seq(Limited(L))
         /\ Everything(c, version, order) \in Seq(Limited(L))
<1>1. Metadata(c, version) \in Seq(Limited(L))
  BY MetadataFields
<1>2. Plan(c.plan) \in Seq(Limited(L))
  BY ArtifactParts, ShortParts, PlanFields
<1>3. NumericContract \in Seq(Limited(L))
  BY NumericFields
<1>4. VariantsWritten(c, order) \in Seq(Limited(L))
  BY ArtifactParts, ShortParts, VariantsFields
<1> HIDE DEF Limited
<1>5. (Metadata(c, version) \o Plan(c.plan)) \o NumericContract \in Seq(Limited(L))
  BY <1>1, <1>2, <1>3, ConcatProperties
<1> QED
  BY <1>1, <1>2, <1>3, <1>4, <1>5, ConcatProperties DEF Everything

LEMMA SerializedUnits ==
  ASSUME NEW c \in Artifact, NEW version \in 1..kArtifactFormatVersion,
         NEW order \in Seq(1..3)
  PROVE  /\ Serialized(c, version, order) = WrittenUnits(Everything(c, version, order))
         /\ Serialized(c, version, order) \in Seq(Units)
<1>1. Serialized(c, version, order) = WrittenUnits(Everything(c, version, order))
  BY DEF Serialized, Everything, VariantsWritten
<1>2. PICK L : L = Base - 1 /\ L \in Nat /\ L >= 1
  BY UnitsFacts
<1>3. Everything(c, version, order) \in Seq(Limited(L))
  BY <1>2, ArtifactTexts, EverythingFields
<1>4. Everything(c, version, order) \in Seq(Field)
  BY <1>3, LimitedIsField
<1> QED
  BY <1>1, <1>4, WrittenIsUnits

LEMMA DamagedIsUnits ==
  ASSUME NEW units \in Seq(Units), NEW d \in Damages(units)
  PROVE  d.payload \in Seq(Units)
<1>1. Len(units) \in Nat /\ DOMAIN units = 1..Len(units)
  BY LenProperties
<1>2. SubSeq(units, 1, Len(units) - 1) \in Seq(Units)
  <2>1. \A i \in 1..(Len(units) - 1) : units[i] \in Units
    BY <1>1, ElementOfSeq
  <2> QED
    BY <1>1, <2>1, SubSeqProperties
<1>3. 0 \in Units
  BY UnitsFacts DEF Units
<1>4. Append(units, 0) \in Seq(Units)
  BY <1>3, AppendProperties
<1>5. ASSUME NEW k \in DOMAIN units, NEW u \in Units
      PROVE  [units EXCEPT ![k] = u] \in Seq(Units)
  <2>1. units \in [1..Len(units) -> Units]
    BY <1>1, ElementOfSeq
  <2>2. [units EXCEPT ![k] = u] \in [1..Len(units) -> Units]
    BY <1>1, <2>1
  <2> QED
    BY <1>1, <2>2
<1>6. ASSUME NEW k \in DOMAIN units
      PROVE  [units EXCEPT ![k] = Base - 1 - @] \in Seq(Units)
  <2>1. units[k] \in Units
    BY <1>1, ElementOfSeq
  <2>2. PICK u : u = Base - 1 - units[k]
    OBVIOUS
  <2>3. u \in Units
    BY <2>1, <2>2, UnitsFacts DEF Units
  <2> QED
    BY <1>5, <2>2, <2>3
<1>7. ASSUME NEW e \in UNION {{<<k, u>> : u \in NewUnits(units[k]) \ {units[k]}} :
                                k \in DOMAIN units}
      PROVE  [units EXCEPT ![e[1]] = e[2]] \in Seq(Units)
  <2>1. PICK k \in DOMAIN units : \E u \in NewUnits(units[k]) : e = <<k, u>>
    BY <1>7
  <2>2. PICK u \in NewUnits(units[k]) : e = <<k, u>>
    BY <2>1
  <2>3. units[k] \in Units
    BY <1>1, ElementOfSeq
  <2>4. u \in Units
    BY <2>3, UnitsAssumption
  <2>5. e[1] = k /\ e[2] = u
    BY <2>2
  <2> QED
    BY <1>5, <2>4, <2>5
<1>8. CASE d \in {[kind |-> "none", payload |-> units, sum |-> units],
                  [kind |-> "cut", payload |-> SubSeq(units, 1, Len(units) - 1), sum |-> units],
                  [kind |-> "extended", payload |-> Append(units, 0), sum |-> Append(units, 0)]}
  <2>1. d.payload = units \/ d.payload = SubSeq(units, 1, Len(units) - 1)
          \/ d.payload = Append(units, 0)
    BY <1>8
  <2> QED
    BY <1>2, <1>4, <2>1
<1>9. CASE \E k \in DOMAIN units :
             d = [kind |-> "flipped", payload |-> [units EXCEPT ![k] = Base - 1 - @], sum |-> units]
  <2>1. PICK k \in DOMAIN units :
          d = [kind |-> "flipped", payload |-> [units EXCEPT ![k] = Base - 1 - @], sum |-> units]
    BY <1>9
  <2>2. d.payload = [units EXCEPT ![k] = Base - 1 - @]
    BY <2>1
  <2> QED
    BY <1>6, <2>2
<1>10. CASE \E e \in UNION {{<<k, u>> : u \in NewUnits(units[k]) \ {units[k]}} :
                            k \in DOMAIN units} :
              d = [kind |-> "edited", payload |-> [units EXCEPT ![e[1]] = e[2]],
                   sum |-> [units EXCEPT ![e[1]] = e[2]]]
  <2>1. PICK e \in UNION {{<<k, u>> : u \in NewUnits(units[k]) \ {units[k]}} :
                         k \in DOMAIN units} :
          d = [kind |-> "edited", payload |-> [units EXCEPT ![e[1]] = e[2]],
               sum |-> [units EXCEPT ![e[1]] = e[2]]]
    BY <1>10
  <2>2. d.payload = [units EXCEPT ![e[1]] = e[2]]
    BY <2>1
  <2> QED
    BY <1>7, <2>2
<1> QED
  BY <1>8, <1>9, <1>10 DEF Damages

(***************************************************************************)
(* The invariant holds of every file.                                      *)
(***************************************************************************)
LEMMA VersionReplaced ==
  ASSUME NEW c \in Artifact, NEW version \in 1..kArtifactFormatVersion
  PROVE  [c EXCEPT !.version = version] \in Artifact
BY DEF Artifact

LEMMA EmptyTypes ==
  /\ EmptyInfo \in Readout
  /\ EmptyInfo.arguments = <<>> /\ EmptyInfo.plan.allocations = <<>>
  /\ NoConvolution \in ConvolutionRecord /\ NoVariant \in VariantRecord
<1>1. /\ <<>> \in Texts /\ <<>> \in Objects /\ \A S : <<>> \in Lists(S)
  <2>1. \A S : <<>> \in Seq(S) /\ Len(<<>>) = 0
    BY EmptySeq
  <2>2. 0 \in Units /\ 0 <= MaxU64
    BY UnitsFacts DEF Units
  <2> QED
    BY <2>1, <2>2 DEF Texts, Objects, Lists
<1>2. NoVariant \in VariantRecord
  BY <1>1 DEF NoVariant, VariantRecord
<1>3. NoConvolution \in ConvolutionRecord
  <2>1. 0 \in Signed /\ 1 \in Signed
    BY UnitsFacts DEF Signed
  <2>2. /\ <<0, 0, 0>> \in [1..3 -> Signed] /\ <<0, 0>> \in [1..2 -> Signed]
        /\ <<0, 0, 0, 0>> \in [1..4 -> Signed] /\ <<1, 1>> \in [1..2 -> Signed]
    <3> HIDE DEF Signed
    <3> QED
      BY <2>1
  <2> QED
    BY <2>2 DEF NoConvolution, ConvolutionRecord, Shape, Pair
<1>4. EmptyInfo.plan \in PlanRecord
  <2>1. 0 \in Unsigned /\ kWorkspaceAlignment \in Unsigned
    BY UnitsFacts DEF Unsigned, kWorkspaceAlignment
  <2> QED
    BY <1>1, <2>1 DEF EmptyInfo, PlanRecord
<1>5. /\ EmptyInfo.version \in 1..kArtifactFormatVersion /\ EmptyInfo.policy \in Units
      /\ EmptyInfo.adapter \in {ConvAdapter, GenericAdapter}
      /\ EmptyInfo.variants \in [1..3 -> VariantRecord]
  BY <1>2, UnitsFacts DEF EmptyInfo, kArtifactFormatVersion, Units
<1>6. EmptyInfo.dynamic \in BOOLEAN /\ EmptyInfo.override \in BOOLEAN
  BY DEF EmptyInfo
<1>7. /\ EmptyInfo.triple = <<>> /\ EmptyInfo.function = <<>> /\ EmptyInfo.roles = <<>>
      /\ EmptyInfo.axes = <<>> /\ EmptyInfo.arguments = <<>>
      /\ EmptyInfo.conv = NoConvolution /\ EmptyInfo.plan.allocations = <<>>
  BY DEF EmptyInfo
<1>8. EmptyInfo =
        [version |-> EmptyInfo.version, triple |-> EmptyInfo.triple,
         function |-> EmptyInfo.function, dynamic |-> EmptyInfo.dynamic,
         override |-> EmptyInfo.override, policy |-> EmptyInfo.policy,
         roles |-> EmptyInfo.roles, axes |-> EmptyInfo.axes,
         arguments |-> EmptyInfo.arguments, adapter |-> EmptyInfo.adapter,
         conv |-> EmptyInfo.conv, plan |-> EmptyInfo.plan, variants |-> EmptyInfo.variants]
  BY DEF EmptyInfo
<1>9. EmptyInfo \in Readout
  BY <1>1, <1>3, <1>4, <1>5, <1>6, <1>7, <1>8 DEF Readout
<1> QED
  BY <1>2, <1>3, <1>7, <1>9

(* The files there are.                                                    *)
LEMMA FilesWritten ==
  ASSUME FormatInit
  PROVE  /\ compiled \in Artifact /\ file.payload \in Seq(Units)
         /\ compiled.adapter = GenericAdapter => compiled.conv = NoConvolution
         /\ ValidCompilation(compiled) /\ Expressible(compiled, compiled.version)
         /\ damage = "none" => file.sum = file.payload
         /\ \E order \in [1..3 -> 1..3] :
              /\ Items(order) = 1..3
              /\ damage = "none" =>
                   file.payload = Serialized(compiled, compiled.version, order)
<1>1. PICK c \in Contracts : \E version \in 1..kArtifactFormatVersion, order \in Orders(c) :
        /\ compiled = [c EXCEPT !.version = version]
        /\ ValidCompilation(compiled) /\ Expressible(compiled, version)
        /\ \E d \in Damages(Serialized(compiled, version, order)) :
             damage = d.kind /\ file = [payload |-> d.payload, sum |-> d.sum]
  BY DEF FormatInit
<1>2. PICK version \in 1..kArtifactFormatVersion, order \in Orders(c) :
        /\ compiled = [c EXCEPT !.version = version]
        /\ ValidCompilation(compiled) /\ Expressible(compiled, version)
        /\ \E d \in Damages(Serialized(compiled, version, order)) :
             damage = d.kind /\ file = [payload |-> d.payload, sum |-> d.sum]
  BY <1>1
<1>3. PICK d \in Damages(Serialized(compiled, version, order)) :
        damage = d.kind /\ file = [payload |-> d.payload, sum |-> d.sum]
  BY <1>2
<1>4. /\ c \in Artifact /\ order \in [1..3 -> 1..3] /\ Items(order) = 1..3
      /\ c.adapter = GenericAdapter => c.conv = NoConvolution
  BY ContractsAssumption
<1>5. compiled \in Artifact
  BY <1>2, <1>4, VersionReplaced
<1>6. /\ compiled.version = version
      /\ compiled.adapter = c.adapter /\ compiled.conv = c.conv
  BY <1>2, <1>4 DEF Artifact
<1>7. order \in Seq(1..3)
  BY <1>4, ListOfArray
<1>8. PICK units \in Seq(Units) : units = Serialized(compiled, version, order)
  BY <1>5, <1>7, SerializedUnits
<1>9. d.payload \in Seq(Units)
  BY <1>3, <1>8, DamagedIsUnits
<1>10. damage = "none" => file.sum = file.payload /\ file.payload = units
  <2>1. d \in Damages(units) /\ damage = d.kind /\ file.payload = d.payload /\ file.sum = d.sum
    BY <1>3, <1>8
  <2>2. d.kind = "none" => d.payload = units /\ d.sum = units
    BY <2>1 DEF Damages
  <2> QED
    BY <2>1, <2>2
<1> QED
  BY <1>2, <1>3, <1>4, <1>5, <1>6, <1>8, <1>9, <1>10

LEMMA ReadInvStarts ==
  ASSUME FormatInit
  PROVE  ReadInv
<1>1. file.payload \in Seq(Units)
  BY FilesWritten
<1>2. /\ at = 0 /\ left = 0 /\ seen = <<>> /\ phase = "header" /\ restored = EmptyInfo
  BY DEF FormatInit
<1>3. seen \in Seq(1..3)
  BY <1>2, EmptySeq
<1>4. EmptyInfo.version >= 2 => EmptyInfo.arguments \in Lists(ArgumentRecord)
  <2>1. <<>> \in Seq(ArgumentRecord) /\ Len(<<>>) = 0 /\ 0 \in Units
    BY EmptySeq, UnitsFacts DEF Units
  <2> QED
    BY <2>1, EmptyTypes DEF Lists
<1>5. PlaceInv
  BY <1>1, <1>2, <1>3, <1>4, EmptyTypes DEF PlaceInv, Before
<1>6. Taken(file.payload, 0, FieldsRead, at)
  <2>1. FieldsRead = <<>>
    BY <1>2 DEF FieldsRead
  <2>2. 0 \in 0..Len(file.payload)
    BY <1>1, LenProperties
  <2> QED
    BY <1>1, <1>2, <2>1, <2>2, NothingTaken
<1> QED
  BY <1>2, <1>5, <1>6 DEF ReadInv

LEMMA RefusedKeeps ==
  ASSUME ReadInv, Refuse
  PROVE  ReadInv'
<1>1. PlaceInv'
  BY DEF ReadInv, PlaceInv, Refuse, Before
<1>2. phase' = "refused"
  BY DEF Refuse
<1> QED
  BY <1>1, <1>2 DEF ReadInv

LEMMA ReadoutParts ==
  ASSUME NEW c \in Readout
  PROVE  /\ c.version \in 1..kArtifactFormatVersion /\ c.version \in Nat
         /\ c.triple \in Texts /\ c.function \in Texts /\ c.policy \in Units
         /\ c.roles \in Lists(Signed) /\ c.axes \in Lists(Signed)
         /\ c.adapter \in {ConvAdapter, GenericAdapter} /\ c.conv \in ConvolutionRecord
         /\ c.plan \in PlanRecord /\ c.variants \in [1..3 -> VariantRecord]
BY DEF Readout, kArtifactFormatVersion

WithHeader(c, version, triple, function) ==
  [c EXCEPT !.version = version, !.triple = triple, !.function = function]

LEMMA HeaderReplaced ==
  ASSUME NEW c \in Readout, NEW version \in 1..kArtifactFormatVersion, NEW triple \in Texts,
         NEW function \in Texts,
         NEW d, d = WithHeader(c, version, triple, function)
  PROVE  /\ d \in Readout
         /\ d.version = version /\ d.triple = triple /\ d.function = function
         /\ d.arguments = c.arguments /\ d.plan = c.plan
BY DEF Readout, WithHeader

LEMMA HeaderKeeps ==
  ASSUME ReadInv, ReadHeader
  PROVE  ReadInv'
<1>1. PICK kinds :
        kinds = <<"u32", "u32", "u32", "string", "string", "string", "string", "string">>
  OBVIOUS
<1>2. kinds \in Seq(Kinds) /\ Len(kinds) = 8
  BY <1>1 DEF Kinds
<1>3. PICK read, v : read = ReadAll(file.payload, 0, kinds) /\ v = read.value
  OBVIOUS
<1>4. phase = "header" /\ at = 0 /\ file.payload \in Seq(Units) /\ 0 \in 0..Len(file.payload)
  <2>1. phase = "header"
    BY DEF ReadHeader
  <2>2. file.payload \in Seq(Units) /\ at = 0
    BY <2>1 DEF ReadInv, PlaceInv
  <2> QED
    BY <2>1, <2>2, LenProperties
<1>5. ASSUME ~Refuse
      PROVE  /\ read.ok /\ v[1] = Magic /\ v[2] \in 1..kArtifactFormatVersion
             /\ v[3] = EndianMarker /\ <<v[4], v[5], v[6]>> = Producers
             /\ Took(read) /\ UNCHANGED seen
             /\ restored' = [restored EXCEPT !.version = v[2], !.triple = v[7],
                                             !.function = v[8]]
             /\ Goto(IF v[2] >= 3 THEN "overrides"
                     ELSE IF v[2] = 2 THEN "arguments" ELSE "legacy", 0)
  BY <1>1, <1>3, <1>5 DEF ReadHeader
<1>6. ASSUME ~Refuse
      PROVE  ReadInv'
  <2>1. /\ v \in Seq(Values) /\ Len(v) = 8
        /\ Taken(file.payload, 0, Paired(kinds, v), read.at)
        /\ \A k \in 1..8 : <<kinds[k], v[k]>> \in Readable
    <3>1. PICK units : units = file.payload
      OBVIOUS
    <3>2. units \in Seq(Units) /\ 0 \in 0..Len(units) /\ read = ReadAll(units, 0, kinds)
      BY <1>3, <1>4, <3>1
    <3>3. read.ok
      BY <1>5, <1>6
    <3>4. /\ read.value \in Seq(Values) /\ Len(read.value) = Len(kinds)
          /\ Taken(units, 0, Paired(kinds, read.value), read.at)
          /\ \A k \in 1..Len(kinds) : <<kinds[k], read.value[k]>> \in Readable
      BY <1>2, <3>2, <3>3, ReadTaken
    <3> QED
      BY <1>2, <1>3, <3>1, <3>4
  <2>2. v[7] \in Texts /\ v[8] \in Texts
    <3>1. kinds[7] = "string" /\ kinds[8] = "string" /\ 7 \in 1..8 /\ 8 \in 1..8
      BY <1>1
    <3>2. <<"string", v[7]>> \in Readable /\ <<"string", v[8]>> \in Readable
      BY <2>1, <3>1
    <3> QED
      BY <3>2, FieldTypes DEF Readable
  <2>3. v[4] = <<1>> /\ v[5] = <<2>> /\ v[6] = <<3>>
    BY <1>5, <1>6 DEF Producers
  <2>4. /\ restored \in Readout /\ restored.arguments = <<>> /\ restored.plan.allocations = <<>>
        /\ seen = <<>> /\ seen \in Seq(1..3)
    BY <1>4 DEF ReadInv, PlaceInv, Before
  <2>5. /\ restored' \in Readout
        /\ restored'.version = v[2] /\ restored'.triple = v[7] /\ restored'.function = v[8]
        /\ restored'.arguments = restored.arguments /\ restored'.plan = restored.plan
    <3>1. restored' = WithHeader(restored, v[2], v[7], v[8])
      BY <1>5, <1>6 DEF WithHeader
    <3> QED
      BY <1>5, <1>6, <2>2, <2>4, <3>1, HeaderReplaced
  <2>6. Header(restored', restored'.version) = Paired(kinds, v)
    <3>1. DOMAIN v = 1..8
      BY <2>1, LenProperties
    <3>2. Header(restored', restored'.version) =
            <<U32(v[1]), U32(v[2]), U32(v[3]), String(v[4]), String(v[5]), String(v[6]),
              String(v[7]), String(v[8])>>
      BY <1>5, <1>6, <2>3, <2>5, HeaderList
    <3>3. Paired(kinds, v) =
            <<U32(v[1]), U32(v[2]), U32(v[3]), String(v[4]), String(v[5]), String(v[6]),
              String(v[7]), String(v[8])>>
      BY <1>1, <3>1 DEF Paired, U32, String
    <3> QED
      BY <3>2, <3>3
  <2>7. /\ phase' = IF v[2] >= 3 THEN "overrides" ELSE IF v[2] = 2 THEN "arguments" ELSE "legacy"
        /\ left' = 0 /\ at' = read.at /\ file' = file /\ seen' = seen
    BY <1>5, <1>6 DEF Goto, Took
  <2>8. v[2] \in Nat /\ v[2] >= 1
    BY <1>5, <1>6 DEF kArtifactFormatVersion
  <2>9. PlaceInv'
    <3>1. restored'.version >= 2 => restored'.arguments \in Lists(ArgumentRecord)
      <4>1. <<>> \in Seq(ArgumentRecord) /\ Len(<<>>) = 0 /\ 0 \in Units
        BY EmptySeq, UnitsFacts DEF Units
      <4> QED
        BY <2>4, <2>5, <4>1 DEF Lists
    <3> QED
      BY <1>4, <2>4, <2>5, <2>7, <2>8, <3>1 DEF PlaceInv, Before
  <2>10. Taken(file.payload, 0, FieldsRead, at)'
    <3>1. FieldsRead' = Header(restored', restored'.version)
      <4>1. CASE v[2] >= 3
        BY <2>7, <4>1 DEF FieldsRead
      <4>2. CASE v[2] = 2
        <5>1. phase' = "arguments" /\ ~(restored'.version >= 3)
          BY <2>5, <2>7, <4>2
        <5>2. FieldsRead' = Header(restored', restored'.version) \o <<>>
          BY <5>1 DEF FieldsRead, Opening, Since
        <5>3. Header(restored', restored'.version) \in Seq(Readable)
          BY <2>1, <2>6 DEF Taken
        <5> QED
          BY <5>2, <5>3, ConcatEmptySeq
      <4>3. CASE ~(v[2] >= 3) /\ v[2] # 2
        BY <2>7, <4>3 DEF FieldsRead
      <4> QED
        BY <4>1, <4>2, <4>3
    <3> QED
      BY <2>1, <2>6, <2>7, <3>1
  <2>11. phase' \notin {"accepted"}
    BY <2>7
  <2> QED
    BY <2>9, <2>10, <2>11 DEF ReadInv
<1> QED
  BY <1>6, RefusedKeeps

WithOverrides(c, dynamic, override, policy, roles, axes) ==
  [c EXCEPT !.dynamic = dynamic, !.override = override, !.policy = policy,
            !.roles = roles, !.axes = axes]

LEMMA OverridesReplaced ==
  ASSUME NEW c \in Readout, NEW dynamic \in BOOLEAN, NEW override \in BOOLEAN,
         NEW policy \in Units, NEW roles \in Lists(Signed), NEW axes \in Lists(Signed),
         NEW d, d = WithOverrides(c, dynamic, override, policy, roles, axes)
  PROVE  /\ d \in Readout
         /\ d.dynamic = dynamic /\ d.override = override /\ d.policy = policy
         /\ d.roles = roles /\ d.axes = axes
         /\ d.version = c.version /\ d.triple = c.triple /\ d.function = c.function
         /\ d.arguments = c.arguments /\ d.plan = c.plan
BY DEF Readout, WithOverrides

(* A header is the same for artifacts with these parts alike.              *)
LEMMA SameHeader ==
  ASSUME NEW c, NEW d, c.version = d.version, c.triple = d.triple, c.function = d.function
  PROVE  Header(c, c.version) = Header(d, d.version)
BY DEF Header

LEMMA ValueTypes ==
  ASSUME NEW v, NEW kinds, OfKinds(v, kinds), NEW k \in 1..Len(kinds)
  PROVE  /\ kinds[k] = "u32" => v[k] \in Units
         /\ kinds[k] = "u64" => v[k] \in Unsigned
         /\ kinds[k] = "i64" => v[k] \in Signed
         /\ kinds[k] = "string" => v[k] \in Texts
         /\ kinds[k] = "blob" => v[k] \in Objects
<1>1. PICK kind, value : kind = kinds[k] /\ value = v[k]
  OBVIOUS
<1>2. <<kind, value>> \in Field
  BY <1>1 DEF OfKinds, Readable
<1> QED
  BY <1>1, <1>2, FieldTypes

LEMMA OverridesKeeps ==
  ASSUME ReadInv, ReadOverrides
  PROVE  ReadInv'
<1>1. PICK kinds : kinds = <<"u32", "u32", "u32">>
  OBVIOUS
<1>2. kinds \in Seq(Kinds) /\ Len(kinds) = 3
  BY <1>1 DEF Kinds
<1>3. PICK flags, v : flags = ReadAll(file.payload, at, kinds) /\ v = flags.value
  OBVIOUS
<1>4. PICK roles : roles = ReadList(flags.at, 6)
  OBVIOUS
<1>5. PICK axes : axes = ReadList(roles.at, 10)
  OBVIOUS
<1>6. /\ phase = "overrides" /\ file.payload \in Seq(Units) /\ restored \in Readout
      /\ restored.version \in Nat /\ restored.version >= 3
      /\ restored.arguments = <<>> /\ restored.plan.allocations = <<>>
      /\ seen = <<>> /\ seen \in Seq(1..3)
      /\ Taken(file.payload, 0, Header(restored, restored.version), at)
  <2>1. phase = "overrides"
    BY DEF ReadOverrides
  <2>2. /\ file.payload \in Seq(Units) /\ restored \in Readout /\ restored.version >= 3
        /\ restored.arguments = <<>> /\ restored.plan.allocations = <<>>
        /\ seen = <<>> /\ seen \in Seq(1..3)
    BY <2>1 DEF ReadInv, PlaceInv, Before
  <2>3. Taken(file.payload, 0, FieldsRead, at)
    BY <2>1 DEF ReadInv
  <2>4. FieldsRead = Header(restored, restored.version)
    BY <2>1 DEF FieldsRead
  <2> QED
    BY <2>1, <2>2, <2>3, <2>4, ReadoutParts
<1>7. at \in 0..Len(file.payload)
  BY <1>6, TakenEnd
<1>8. ASSUME ~Refuse
      PROVE  /\ flags.ok /\ v[1] <= 1 /\ v[2] <= 1 /\ roles.ok /\ axes.ok
             /\ at' = axes.at /\ file' = file /\ seen' = seen
             /\ restored' = WithOverrides(restored, v[1] = 1, v[2] = 1, v[3],
                                          roles.value, axes.value)
             /\ phase' = "arguments" /\ left' = 0
  BY <1>1, <1>3, <1>4, <1>5, <1>8 DEF ReadOverrides, Took, Goto, WithOverrides
<1>9. ASSUME ~Refuse
      PROVE  ReadInv'
  <2>1. /\ v \in Seq(Values) /\ Len(v) = 3
        /\ Taken(file.payload, at, Paired(kinds, v), flags.at)
        /\ flags.at \in 0..Len(file.payload)
        /\ \A k \in 1..3 : <<kinds[k], v[k]>> \in Readable
    BY <1>2, <1>3, <1>6, <1>7, <1>8, <1>9, ReadTaken
  <2>2. v[1] \in Units /\ v[2] \in Units /\ v[3] \in Units
    <3>1. kinds[1] = "u32" /\ kinds[2] = "u32" /\ kinds[3] = "u32"
      BY <1>1
    <3>2. OfKinds(v, kinds) /\ 1 \in 1..Len(kinds) /\ 2 \in 1..Len(kinds) /\ 3 \in 1..Len(kinds)
      BY <1>2, <2>1 DEF OfKinds
    <3> QED
      BY <3>1, <3>2, ValueTypes
  <2>3. PICK p : p = Since(6, restored.version,
                          <<U32(Len(roles.value))>> \o I64s(roles.value))
    OBVIOUS
  <2>4. /\ roles.value \in Lists(Signed) /\ Taken(file.payload, flags.at, p, roles.at)
        /\ roles.at \in 0..Len(file.payload)
    BY <1>4, <1>6, <1>8, <1>9, <2>1, <2>3, ListTaken
  <2>5. PICK q : q = Since(10, restored.version, <<U32(Len(axes.value))>> \o I64s(axes.value))
    OBVIOUS
  <2>6. /\ axes.value \in Lists(Signed) /\ Taken(file.payload, roles.at, q, axes.at)
        /\ axes.at \in 0..Len(file.payload)
    BY <1>5, <1>6, <1>8, <1>9, <2>4, <2>5, ListTaken
  <2>7. /\ restored' \in Readout
        /\ restored'.dynamic = (v[1] = 1) /\ restored'.override = (v[2] = 1)
        /\ restored'.policy = v[3]
        /\ restored'.roles = roles.value /\ restored'.axes = axes.value
        /\ restored'.version = restored.version /\ restored'.triple = restored.triple
        /\ restored'.function = restored.function
        /\ restored'.arguments = restored.arguments /\ restored'.plan = restored.plan
    <3>1. PICK x \in BOOLEAN, y \in BOOLEAN : x = (v[1] = 1) /\ y = (v[2] = 1)
      OBVIOUS
    <3>2. restored' = WithOverrides(restored, x, y, v[3], roles.value, axes.value)
      BY <1>8, <1>9, <3>1
    <3>3. /\ restored' \in Readout
          /\ restored'.dynamic = x /\ restored'.override = y /\ restored'.policy = v[3]
          /\ restored'.roles = roles.value /\ restored'.axes = axes.value
          /\ restored'.version = restored.version /\ restored'.triple = restored.triple
          /\ restored'.function = restored.function
          /\ restored'.arguments = restored.arguments /\ restored'.plan = restored.plan
      BY <1>6, <2>2, <2>4, <2>6, <3>2, OverridesReplaced
    <3> QED
      BY <3>1, <3>3
  <2>8. Paired(kinds, v) = U32s(<<v[1], v[2], v[3]>>)
    <3>1. DOMAIN v = 1..3
      BY <2>1, LenProperties
    <3>2. Paired(kinds, v) = <<U32(v[1]), U32(v[2]), U32(v[3])>>
      BY <1>1, <3>1 DEF Paired, U32
    <3> QED
      BY <3>2, U32sOfThree
  <2>9. /\ v[1] = (IF restored'.dynamic THEN 1 ELSE 0)
        /\ v[2] = (IF restored'.override THEN 1 ELSE 0)
    <3>1. v[1] \in {0, 1} /\ v[2] \in {0, 1}
      BY <1>8, <1>9, <2>2, UnitsFacts DEF Units
    <3> QED
      BY <2>7, <3>1
  <2>10. Overrides(restored', restored'.version) = (Paired(kinds, v) \o p) \o q
    BY <2>3, <2>5, <2>7, <2>8, <2>9 DEF Overrides
  <2>11. Taken(file.payload, at, (Paired(kinds, v) \o p) \o q, axes.at)
    <3>1. at \in Nat
      BY <1>6, <1>7, LenProperties
    <3>2. Taken(file.payload, at, Paired(kinds, v) \o p, roles.at)
      BY <1>6, <2>1, <2>4, <3>1, TakenConcat
    <3> QED
      BY <1>6, <2>6, <3>1, <3>2, TakenConcat
  <2>12. Taken(file.payload, 0,
               Header(restored, restored.version) \o ((Paired(kinds, v) \o p) \o q), axes.at)
    BY <1>6, <2>11, TakenConcat
  <2>13. FieldsRead' = Header(restored, restored.version) \o ((Paired(kinds, v) \o p) \o q)
    <3>1. Header(restored', restored'.version) = Header(restored, restored.version)
      BY <2>7, SameHeader
    <3>2. Since(3, restored'.version, Overrides(restored', restored'.version))
            = Overrides(restored', restored'.version)
      BY <1>6, <2>7 DEF Since
    <3>3. FieldsRead' = Opening(restored')
      BY <1>8, <1>9 DEF FieldsRead
    <3> QED
      BY <2>10, <3>1, <3>2, <3>3 DEF Opening
  <2>14. PlaceInv'
    <3>1. restored'.version >= 2 => restored'.arguments \in Lists(ArgumentRecord)
      BY <1>6, <2>7 DEF ReadInv, PlaceInv
    <3> QED
      BY <1>6, <1>8, <1>9, <2>7, <3>1 DEF PlaceInv, Before
  <2> QED
    BY <1>8, <1>9, <2>12, <2>13, <2>14 DEF ReadInv
<1> QED
  BY <1>9, RefusedKeeps

LEMMA JointAppend ==
  ASSUME NEW S, NEW pieces \in Seq(Seq(S)), NEW piece \in Seq(S)
  PROVE  Joint(Append(pieces, piece)) = Joint(pieces) \o piece
<1>1. PICK last : last = <<piece>>
  OBVIOUS
<1>2. last \in Seq(Seq(S)) /\ Append(pieces, piece) = pieces \o last
  BY <1>1, AppendIsConcat
<1>3. Joint(pieces \o last) = Joint(pieces) \o Joint(last)
  BY <1>2, JointConcat
<1>4. Joint(last) = piece
  BY <1>1, JointOfOne
<1> QED
  BY <1>2, <1>3, <1>4

LEMMA NoEntries ==
  ASSUME NEW c, c.arguments = <<>>
  PROVE  Joint(Entries(c)) = <<>>
<1>1. DOMAIN <<>> = {}
  OBVIOUS
<1>2. Entries(c) = <<>>
  BY <1>1 DEF Entries
<1> QED
  BY <1>2, JointOfNone

LEMMA CountKeeps ==
  ASSUME ReadInv, ReadArgumentCount
  PROVE  ReadInv'
<1>1. PICK count : count = ReadUnsigned(file.payload, at, 1)
  OBVIOUS
<1>2. /\ phase = "arguments" /\ file.payload \in Seq(Units) /\ restored \in Readout
      /\ restored.version >= 2
      /\ restored.arguments = <<>> /\ restored.plan.allocations = <<>>
      /\ seen = <<>> /\ seen \in Seq(1..3)
      /\ Taken(file.payload, 0, Opening(restored), at)
  <2>1. phase = "arguments"
    BY DEF ReadArgumentCount
  <2>2. /\ file.payload \in Seq(Units) /\ restored \in Readout /\ restored.version >= 2
        /\ restored.arguments = <<>> /\ restored.plan.allocations = <<>>
        /\ seen = <<>> /\ seen \in Seq(1..3)
    BY <2>1 DEF ReadInv, PlaceInv, Before
  <2>3. Taken(file.payload, 0, FieldsRead, at)
    BY <2>1 DEF ReadInv
  <2>4. FieldsRead = Opening(restored)
    BY <2>1 DEF FieldsRead
  <2> QED
    BY <2>1, <2>2, <2>3, <2>4
<1>3. at \in 0..Len(file.payload)
  BY <1>2, TakenEnd
<1>4. ASSUME ~Refuse
      PROVE  /\ count.ok /\ count.value >= 1 /\ at' = count.at /\ file' = file
             /\ phase' = "argument" /\ left' = count.value /\ seen' = seen
             /\ restored' = restored
  <2>1. /\ count.ok /\ count.value >= 1 /\ Took(count)
        /\ Goto("argument", count.value) /\ UNCHANGED <<seen, restored>>
    BY <1>1, <1>4 DEF ReadArgumentCount
  <2> QED
    BY <2>1 DEF Took, Goto
<1>5. ASSUME ~Refuse
      PROVE  ReadInv'
  <2>1. /\ count.value \in Units
        /\ Taken(file.payload, at, <<U32(count.value)>>, count.at)
    BY <1>1, <1>2, <1>3, <1>4, <1>5, UnitTaken
  <2>2. PICK fields : fields = Opening(restored) \o <<U32(count.value)>>
    OBVIOUS
  <2>3. Taken(file.payload, 0, fields, count.at)
    BY <1>2, <2>1, <2>2, TakenConcat
  <2>4. count.value \in Nat /\ count.value > 0 /\ Len(<<>>) = 0
    <3>1. count.value >= 1
      BY <1>4, <1>5
    <3>2. count.value \in Nat
      BY <2>1, UnitsFacts DEF Units
    <3> QED
      BY <3>1, <3>2, EmptySeq
  <2>5. FieldsRead' = fields
    <3>1. FieldsRead' = fields \o Joint(Entries(restored))
      BY <1>2, <1>4, <1>5, <2>2, <2>4 DEF FieldsRead
    <3>2. fields \in Seq(Readable)
      BY <2>3 DEF Taken
    <3> QED
      BY <1>2, <3>1, <3>2, NoEntries, ConcatEmptySeq
  <2>6. PlaceInv'
    <3>1. restored'.version >= 2 => restored'.arguments \in Lists(ArgumentRecord)
      BY <1>2, <1>4, <1>5 DEF ReadInv, PlaceInv
    <3>2. /\ left' \in Nat /\ left' > 0
          /\ Len(restored'.arguments) + left' \in Units
      BY <1>2, <1>4, <1>5, <2>1, <2>4
    <3> QED
      BY <1>2, <1>4, <1>5, <3>1, <3>2 DEF PlaceInv, Before
  <2> QED
    BY <1>4, <1>5, <2>3, <2>5, <2>6 DEF ReadInv
<1> QED
  BY <1>5, RefusedKeeps

LEMMA SameOpening ==
  ASSUME NEW c, NEW d, c.version = d.version, c.triple = d.triple, c.function = d.function,
         c.dynamic = d.dynamic, c.override = d.override, c.policy = d.policy,
         c.roles = d.roles, c.axes = d.axes
  PROVE  /\ Opening(c) = Opening(d)
         /\ Header(c, c.version) = Header(d, d.version)
         /\ Overrides(c, c.version) = Overrides(d, d.version)
BY DEF Opening, Header, Overrides

WithArgument(c, a) == [c EXCEPT !.arguments = Append(@, a)]

LEMMA ArgumentAdded ==
  ASSUME NEW c \in Readout, c.arguments \in Lists(ArgumentRecord), NEW a \in ArgumentRecord,
         Len(c.arguments) + 1 \in Units, NEW d, d = WithArgument(c, a)
  PROVE  /\ d \in Readout /\ d.arguments = Append(c.arguments, a)
         /\ d.arguments \in Lists(ArgumentRecord)
         /\ Len(d.arguments) = Len(c.arguments) + 1
         /\ d.version = c.version /\ d.plan = c.plan /\ Opening(d) = Opening(c)
<1>1. PICK list : list = Append(c.arguments, a)
  OBVIOUS
<1>2. c.arguments \in Seq(ArgumentRecord)
  BY DEF Lists
<1>3. list \in Seq(ArgumentRecord) /\ Len(list) = Len(c.arguments) + 1
  BY <1>1, <1>2, AppendProperties
<1>4. list \in Lists(ArgumentRecord)
  BY <1>3 DEF Lists
<1>5. d = [c EXCEPT !.arguments = list]
  BY <1>1 DEF WithArgument
<1>6. /\ d \in Readout /\ d.arguments = list
      /\ c.version = d.version /\ c.triple = d.triple /\ c.function = d.function
      /\ c.dynamic = d.dynamic /\ c.override = d.override /\ c.policy = d.policy
      /\ c.roles = d.roles /\ c.axes = d.axes /\ d.plan = c.plan
  BY <1>4, <1>5 DEF Readout
<1> QED
  BY <1>1, <1>3, <1>4, <1>6, SameOpening

LEMMA EntryFields ==
  ASSUME NEW a \in ArgumentRecord, NEW version
  PROVE  Argument(a, version) \in Seq(Field)
<1>1. PICK L : L = Len(a.name)
  OBVIOUS
<1>2. a.name \in Texts
  BY DEF ArgumentRecord
<1>3. L \in Nat /\ Len(a.name) <= L
  BY <1>1, <1>2, UnitsFacts DEF Texts, Units
<1> QED
  BY <1>3, ArgumentFields, LimitedIsField

LEMMA EntriesFields ==
  ASSUME NEW c, c.arguments \in Seq(ArgumentRecord)
  PROVE  Joint(Entries(c)) \in Seq(Field)
<1>1. PICK list, version : list = c.arguments /\ version = c.version
  OBVIOUS
<1>2. /\ DOMAIN list = 1..Len(list) /\ Len(list) \in Nat
      /\ \A k \in 1..Len(list) : list[k] \in ArgumentRecord
  BY <1>1, LenProperties, ElementOfSeq
<1>3. PICK pieces : pieces = [k \in 1..Len(list) |-> Argument(list[k], version)]
  OBVIOUS
<1>4. pieces \in Seq(Seq(Field))
  <2>1. \A k \in 1..Len(list) : Argument(list[k], version) \in Seq(Field)
    BY <1>2, EntryFields
  <2>2. pieces \in [1..Len(list) -> Seq(Field)]
    BY <1>3, <2>1
  <2> QED
    BY <1>2, <2>2, ListOfArray
<1>5. Entries(c) = pieces
  BY <1>1, <1>2, <1>3 DEF Entries
<1> QED
  BY <1>4, <1>5, JointIsList

LEMMA EntriesAppended ==
  ASSUME NEW c, c.arguments \in Seq(ArgumentRecord), NEW a \in ArgumentRecord,
         NEW d, d.arguments = Append(c.arguments, a), d.version = c.version
  PROVE  Joint(Entries(d)) = Joint(Entries(c)) \o Argument(a, c.version)
<1>1. PICK list, version : list = c.arguments /\ version = c.version
  OBVIOUS
<1>2. PICK grown : grown = Append(list, a)
  OBVIOUS
<1>3. /\ list \in Seq(ArgumentRecord) /\ DOMAIN list = 1..Len(list) /\ Len(list) \in Nat
      /\ \A k \in 1..Len(list) : list[k] \in ArgumentRecord
  BY <1>1, LenProperties, ElementOfSeq
<1>4. /\ DOMAIN grown = 1..(Len(list) + 1) /\ grown[Len(list) + 1] = a
      /\ \A k \in 1..Len(list) : grown[k] = list[k]
  BY <1>2, <1>3, AppendProperties, LenProperties
<1>5. \A b \in ArgumentRecord : Argument(b, version) \in Seq(Field)
  BY EntryFields
<1>6. PICK pieces : pieces = [k \in 1..Len(list) |-> Argument(list[k], version)]
  OBVIOUS
<1>7. pieces \in Seq(Seq(Field)) /\ Len(pieces) = Len(list)
  <2>1. \A k \in 1..Len(list) : Argument(list[k], version) \in Seq(Field)
    BY <1>3, <1>5
  <2>2. pieces \in [1..Len(list) -> Seq(Field)]
    BY <1>6, <2>1
  <2> QED
    BY <1>3, <2>2, ListOfArray
<1>8. Entries(c) = pieces
  BY <1>1, <1>3, <1>6 DEF Entries
<1>9. Entries(d) = Append(pieces, Argument(a, version))
  <2>1. PICK p : p = Argument(a, version)
    OBVIOUS
  <2>2. PICK e : e = Entries(d)
    OBVIOUS
  <2>3. e = [k \in 1..(Len(list) + 1) |-> Argument(grown[k], version)]
    BY <1>1, <1>2, <1>4, <2>2 DEF Entries
  <2>4. /\ DOMAIN Append(pieces, p) = 1..(Len(list) + 1)
        /\ Append(pieces, p)[Len(list) + 1] = p
        /\ \A k \in 1..Len(list) : Append(pieces, p)[k] = pieces[k]
    <3>1. p \in Seq(Field)
      BY <1>5, <2>1
    <3>2. Append(pieces, p) \in Seq(Seq(Field))
      BY <1>7, <3>1, AppendProperties
    <3> QED
      BY <1>7, <3>1, <3>2, AppendProperties, LenProperties
  <2> QED
    BY <1>3, <1>4, <1>6, <2>1, <2>2, <2>3, <2>4
<1> QED
  BY <1>1, <1>5, <1>7, <1>8, <1>9, JointAppend

LEMMA OpeningFields ==
  ASSUME NEW c \in Readout
  PROVE  /\ Header(c, c.version) \in Seq(Field) /\ Overrides(c, c.version) \in Seq(Field)
         /\ Since(3, c.version, Overrides(c, c.version)) \in Seq(Field)
         /\ Opening(c) \in Seq(Field)
<1>1. PICK L : L = Base - 1 /\ L \in Nat /\ L >= 1
  BY UnitsFacts
<1>2. /\ c.triple \in Texts /\ c.function \in Texts /\ Len(c.triple) <= L
      /\ Len(c.function) <= L
  BY <1>1, ReadoutParts, UnitsFacts DEF Texts, Units
<1>3. Header(c, c.version) \in Seq(Field)
  BY <1>1, <1>2, ReadoutParts, HeaderFields, LimitedIsField
<1>4. Overrides(c, c.version) \in Seq(Field)
  BY ReadoutParts, OverridesFields, LimitedIsField
<1>5. Since(3, c.version, Overrides(c, c.version)) \in Seq(Field)
  BY <1>4, EmptySeq DEF Since
<1> QED
  BY <1>3, <1>4, <1>5, ConcatProperties DEF Opening

LEMMA EntryIsRecord ==
  ASSUME NEW a, HeadTypes(a), a.dims \in Lists(Signed), a.strides \in Lists(Signed),
         a.type < 20, a.access <= kReadWrite, a.storage <= kRaggedBatchPrefix,
         IsEntry(a)
  PROVE  a \in ArgumentRecord
<1>1. /\ a.uid \in Signed /\ a.name \in Texts /\ a.offsetUid \in Signed
      /\ a.sequenceUid \in Signed /\ a.divisor \in Signed
      /\ a.alignment \in Unsigned /\ a.size \in Unsigned
  BY DEF HeadTypes
<1>2. a.type \in 0..19 /\ a.access \in kRead..kReadWrite /\ a.storage \in 0..kRaggedBatchPrefix
  <2>1. a.type \in Nat /\ a.access \in Nat /\ a.storage \in Nat
    BY UnitsFacts DEF HeadTypes, Units
  <2> QED
    BY <2>1 DEF kRead, kReadWrite, kRaggedBatchPrefix
<1> QED
  BY <1>1, <1>2 DEF ArgumentRecord, IsEntry

LEMMA ArgumentKeeps ==
  ASSUME ReadInv, ReadArgument
  PROVE  ReadInv'
<1>1. PICK read, a : read = ReadEntry(file.payload, at, restored.version) /\ a = read.value
  OBVIOUS
<1>2. PICK head, entries : /\ head = Opening(restored) \o <<U32(Len(restored.arguments) + left)>>
                           /\ entries = Joint(Entries(restored))
  OBVIOUS
<1>3. /\ phase = "argument" /\ file.payload \in Seq(Units) /\ restored \in Readout
      /\ restored.version >= 2 /\ restored.version \in Nat
      /\ restored.arguments \in Lists(ArgumentRecord) /\ restored.plan.allocations = <<>>
      /\ seen = <<>> /\ seen \in Seq(1..3)
      /\ left \in Nat /\ left > 0 /\ Len(restored.arguments) + left \in Units
      /\ Taken(file.payload, 0, head \o entries, at)
  <2>1. phase = "argument"
    BY DEF ReadArgument
  <2>2. /\ file.payload \in Seq(Units) /\ restored \in Readout /\ restored.version >= 2
        /\ restored.arguments \in Lists(ArgumentRecord) /\ restored.plan.allocations = <<>>
        /\ seen = <<>> /\ seen \in Seq(1..3)
        /\ left \in Nat /\ left > 0 /\ Len(restored.arguments) + left \in Units
    BY <2>1 DEF ReadInv, PlaceInv, Before
  <2>3. Taken(file.payload, 0, FieldsRead, at)
    BY <2>1 DEF ReadInv
  <2>4. FieldsRead = head \o entries
    BY <1>2, <2>1 DEF FieldsRead
  <2> QED
    BY <2>1, <2>2, <2>3, <2>4, ReadoutParts
<1>4. at \in 0..Len(file.payload)
  BY <1>3, TakenEnd
<1>5. ASSUME ~Refuse
      PROVE  /\ read.ok /\ a.type < 20 /\ a.access <= kReadWrite
             /\ a.storage <= kRaggedBatchPrefix
             /\ at' = read.at /\ file' = file /\ seen' = seen
             /\ restored' = WithArgument(restored, a)
             /\ phase' = (IF left = 1 THEN "adapter" ELSE "argument")
             /\ left' = (IF left = 1 THEN 0 ELSE left - 1)
  <2>1. /\ read.ok /\ a.type < 20 /\ a.access <= kReadWrite
        /\ a.storage <= kRaggedBatchPrefix /\ Took(read) /\ UNCHANGED seen
        /\ restored' = WithArgument(restored, a)
        /\ IF left = 1 THEN Goto("adapter", 0) ELSE Goto("argument", left - 1)
    BY <1>1, <1>5 DEF ReadArgument, WithArgument
  <2> QED
    BY <2>1 DEF Took, Goto
<1>6. ASSUME ~Refuse
      PROVE  ReadInv'
  <2>1. PICK fields : fields = Argument(a, restored.version)
    OBVIOUS
  <2>2. /\ Taken(file.payload, at, fields, read.at)
        /\ HeadTypes(a) /\ a.dims \in Lists(Signed) /\ a.strides \in Lists(Signed)
        /\ a \in ArgumentRecord
    <3>1. /\ Taken(file.payload, at, Argument(read.value, restored.version), read.at)
          /\ HeadTypes(read.value)
          /\ read.value.dims \in Lists(Signed) /\ read.value.strides \in Lists(Signed)
          /\ IsEntry(read.value)
      BY <1>1, <1>3, <1>4, <1>5, <1>6, EntryTaken
    <3>2. IsEntry(a)
      BY <1>1, <3>1
    <3>3. HeadTypes(a) /\ a.dims \in Lists(Signed) /\ a.strides \in Lists(Signed)
      BY <1>1, <3>1
    <3>4. a \in ArgumentRecord
      BY <1>5, <1>6, <3>2, <3>3, EntryIsRecord
    <3> QED
      BY <1>1, <2>1, <3>1, <3>3, <3>4
  <2>3. /\ Len(restored.arguments) \in Nat /\ Len(restored.arguments) + 1 \in Units
        /\ restored.arguments \in Seq(ArgumentRecord)
    <3>1. restored.arguments \in Seq(ArgumentRecord) /\ Len(restored.arguments) \in Units
      BY <1>3 DEF Lists
    <3> QED
      BY <1>3, <3>1, UnitsFacts DEF Units
  <2>4. /\ restored' \in Readout /\ restored'.arguments = Append(restored.arguments, a)
        /\ restored'.arguments \in Lists(ArgumentRecord)
        /\ Len(restored'.arguments) = Len(restored.arguments) + 1
        /\ restored'.version = restored.version /\ restored'.plan = restored.plan
        /\ Opening(restored') = Opening(restored)
    BY <1>3, <1>5, <1>6, <2>2, <2>3, ArgumentAdded
  <2>5. Taken(file.payload, 0, (head \o entries) \o fields, read.at)
    BY <1>3, <2>2, TakenConcat
  <2>6. Joint(Entries(restored')) = entries \o fields
    BY <1>2, <2>1, <2>2, <2>3, <2>4, EntriesAppended
  <2>7. /\ Opening(restored) \in Seq(Field) /\ head \in Seq(Field)
        /\ entries \in Seq(Field) /\ fields \in Seq(Field)
        /\ <<U32(Len(restored.arguments) + left)>> \in Seq(Field)
        /\ entries \o fields \in Seq(Field)
    <3>1. Opening(restored) \in Seq(Field)
      BY <1>3, OpeningFields
    <3>2. <<U32(Len(restored.arguments) + left)>> \in Seq(Field)
      <4>1. U32(Len(restored.arguments) + left) \in Field
        BY <1>3, FieldTypes DEF U32
      <4> QED
        BY <4>1
    <3>3. entries \in Seq(Field) /\ fields \in Seq(Field)
      BY <1>2, <2>1, <2>2, <2>3, EntryFields, EntriesFields
    <3> QED
      BY <1>2, <3>1, <3>2, <3>3, ConcatProperties
  <2>8. (head \o entries) \o fields = head \o (entries \o fields)
    <3>1. Regroups(head, entries, fields)
      BY <2>7, Regrouped
    <3> QED
      BY <3>1 DEF Regroups
  <2>9. FieldsRead' = head \o (entries \o fields)
    <3>1. CASE left = 1
      <4>1. FieldsRead' = Opening(restored') \o ArgumentTable(restored', restored'.version)
        BY <1>5, <1>6, <3>1 DEF FieldsRead
      <4>2. ArgumentTable(restored', restored'.version)
              = <<U32(Len(restored'.arguments))>> \o Joint(Entries(restored'))
        BY DEF ArgumentTable, Entries
      <4>3. Len(restored'.arguments) = Len(restored.arguments) + left
        BY <2>4, <3>1
      <4>4. PICK o, u, rest : /\ o = Opening(restored) /\ rest = entries \o fields
                              /\ u = <<U32(Len(restored.arguments) + left)>>
        OBVIOUS
      <4>5. FieldsRead' = o \o (u \o rest)
        BY <2>4, <2>6, <4>1, <4>2, <4>3, <4>4
      <4>6. o \in Seq(Field) /\ u \in Seq(Field) /\ rest \in Seq(Field)
        BY <2>7, <4>4
      <4>7. (o \o u) \o rest = o \o (u \o rest)
        <5>1. Regroups(o, u, rest)
          BY <4>6, Regrouped
        <5> QED
          BY <5>1 DEF Regroups
      <4>8. head = o \o u
        BY <1>2, <4>4
      <4> QED
        BY <4>4, <4>5, <4>7, <4>8
    <3>2. CASE left # 1
      <4>1. FieldsRead' = (Opening(restored') \o <<U32(Len(restored'.arguments) + left')>>)
                            \o Joint(Entries(restored'))
        BY <1>5, <1>6, <3>2 DEF FieldsRead
      <4>2. Len(restored'.arguments) + left' = Len(restored.arguments) + left
        BY <1>3, <1>5, <1>6, <2>3, <2>4, <3>2
      <4> QED
        BY <1>2, <2>4, <2>6, <4>1, <4>2
    <3> QED
      BY <3>1, <3>2
  <2>10. PlaceInv'
    <3>1. /\ left' \in Nat
          /\ phase' = "argument" =>
               left' > 0 /\ Len(restored'.arguments) + left' \in Units
      BY <1>3, <1>5, <1>6, <2>3, <2>4
    <3> QED
      BY <1>3, <1>5, <1>6, <2>4, <3>1 DEF PlaceInv, Before
  <2>11. phase' \notin {"refused", "accepted"}
    BY <1>5, <1>6
  <2> QED
    BY <1>5, <1>6, <2>5, <2>8, <2>9, <2>10, <2>11 DEF ReadInv
<1> QED
  BY <1>6, RefusedKeeps

(* Fields that fill the units are those written there.                     *)
LEMMA TakenFills ==
  ASSUME NEW units \in Seq(Units), NEW fields, Taken(units, 0, fields, Len(units))
  PROVE  units = WrittenUnits(fields)
<1>1. PICK w : w = WrittenUnits(fields)
  OBVIOUS
<1>2. fields \in Seq(Field)
  BY ReadableLists DEF Taken
<1>3. w \in Seq(Units) /\ Len(w) \in Nat
  BY <1>1, <1>2, WrittenIsUnits
<1>4. StandsAt(w, units, 0) /\ Len(units) = 0 + Len(w)
  BY <1>1 DEF Taken
<1>5. Len(units) = Len(w)
  BY <1>3, <1>4
<1>6. \A i \in 1..Len(units) : units[i] = w[i]
  BY <1>3, <1>4, <1>5 DEF StandsAt
<1> QED
  BY <1>1, <1>3, <1>5, <1>6, SeqEqual

LEMMA TableRead ==
  ASSUME NEW c \in Readout, c.arguments \in Lists(ArgumentRecord)
  PROVE  ArgumentTable(c, c.version) \in Seq(Field)
<1>1. PICK L : L = Base - 1 /\ L \in Nat
  BY UnitsFacts
<1>2. \A k \in 1..Len(c.arguments) : Len(c.arguments[k].name) <= L
  <2> SUFFICES ASSUME NEW k \in 1..Len(c.arguments)
               PROVE  Len(c.arguments[k].name) <= L
    OBVIOUS
  <2>1. c.arguments[k] \in ArgumentRecord
    BY ElementOfSeq DEF Lists
  <2>2. c.arguments[k].name \in Texts
    BY <2>1 DEF ArgumentRecord
  <2> QED
    BY <1>1, <2>2, UnitsFacts DEF Texts, Units
<1> QED
  BY <1>2, TableFields, LimitedIsField

LEMMA MetadataParts ==
  ASSUME NEW c \in Readout, c.version >= 2, c.arguments \in Lists(ArgumentRecord)
  PROVE  /\ Metadata(c, c.version)
              = (Opening(c) \o ArgumentTable(c, c.version)) \o Adapter(c)
         /\ Metadata(c, c.version) \in Seq(Field)
<1>1. PICK h, s, t, a : /\ h = Header(c, c.version)
                        /\ s = Since(3, c.version, Overrides(c, c.version))
                        /\ t = ArgumentTable(c, c.version) /\ a = Adapter(c)
  OBVIOUS
<1>2. h \in Seq(Field) /\ s \in Seq(Field)
  BY <1>1, OpeningFields
<1>3. t \in Seq(Field)
  BY <1>1, TableRead
<1>4. a \in Seq(Field)
  BY <1>1, ReadoutParts, AdapterFields, LimitedIsField
<1>5. Metadata(c, c.version) = h \o ((s \o t) \o a)
  <2>1. c.version # 1
    OBVIOUS
  <2> QED
    BY <1>1, <2>1 DEF Metadata
<1>6. Opening(c) = h \o s
  BY <1>1 DEF Opening
<1>7. s \o t \in Seq(Field) /\ h \o (s \o t) \in Seq(Field)
  BY <1>2, <1>3, ConcatProperties
<1>8. h \o ((s \o t) \o a) = (h \o (s \o t)) \o a
  <2>1. PICK st : st = s \o t
    OBVIOUS
  <2>2. st \in Seq(Field)
    BY <1>7, <2>1
  <2>3. (h \o st) \o a = h \o (st \o a)
    <3>1. Regroups(h, st, a)
      BY <1>2, <1>4, <2>2, Regrouped
    <3> QED
      BY <3>1 DEF Regroups
  <2> QED
    BY <2>1, <2>3
<1>9. (h \o s) \o t = h \o (s \o t)
  <2>1. Regroups(h, s, t)
    BY <1>2, <1>3, Regrouped
  <2> QED
    BY <2>1 DEF Regroups
<1>10. (h \o (s \o t)) \o a \in Seq(Field)
  BY <1>4, <1>7, ConcatProperties
<1> QED
  BY <1>1, <1>5, <1>6, <1>8, <1>9, <1>10

WithAdapter(c, adapter, conv) == [c EXCEPT !.adapter = adapter, !.conv = conv]

LEMMA AdapterReplaced ==
  ASSUME NEW c \in Readout, NEW adapter \in {ConvAdapter, GenericAdapter},
         NEW conv \in ConvolutionRecord, NEW d, d = WithAdapter(c, adapter, conv)
  PROVE  /\ d \in Readout /\ d.adapter = adapter /\ d.conv = conv
         /\ d.version = c.version /\ d.arguments = c.arguments /\ d.plan = c.plan
         /\ Opening(d) = Opening(c)
         /\ ArgumentTable(d, d.version) = ArgumentTable(c, c.version)
<1>1. /\ d \in Readout /\ d.adapter = adapter /\ d.conv = conv
      /\ c.version = d.version /\ c.triple = d.triple /\ c.function = d.function
      /\ c.dynamic = d.dynamic /\ c.override = d.override /\ c.policy = d.policy
      /\ c.roles = d.roles /\ c.axes = d.axes
      /\ d.arguments = c.arguments /\ d.plan = c.plan
  BY DEF Readout, WithAdapter
<1>2. ArgumentTable(d, d.version) = ArgumentTable(c, c.version)
  BY <1>1 DEF ArgumentTable
<1> QED
  BY <1>1, <1>2, SameOpening

LEMMA AdapterKeeps ==
  ASSUME ReadInv, ReadAdapter
  PROVE  ReadInv'
<1>1. PICK kinds : kinds = <<"u32", "blob">>
  OBVIOUS
<1>2. kinds \in Seq(Kinds) /\ Len(kinds) = 2
  BY <1>1 DEF Kinds
<1>3. PICK read, v : read = ReadAll(file.payload, at, kinds) /\ v = read.value
  OBVIOUS
<1>4. PICK fields : fields = ReadI64s(v[2], 0, ConvolutionFields)
  OBVIOUS
<1>5. PICK table : table = ArgumentTable(restored, restored.version)
  OBVIOUS
<1>6. /\ phase = "adapter" /\ file.payload \in Seq(Units) /\ restored \in Readout
      /\ restored.version >= 2
      /\ restored.arguments \in Lists(ArgumentRecord) /\ restored.plan.allocations = <<>>
      /\ seen = <<>> /\ seen \in Seq(1..3)
      /\ Taken(file.payload, 0, Opening(restored) \o table, at)
  <2>1. phase = "adapter"
    BY DEF ReadAdapter
  <2>2. /\ file.payload \in Seq(Units) /\ restored \in Readout /\ restored.version >= 2
        /\ restored.arguments \in Lists(ArgumentRecord) /\ restored.plan.allocations = <<>>
        /\ seen = <<>> /\ seen \in Seq(1..3)
    BY <2>1 DEF ReadInv, PlaceInv, Before
  <2>3. Taken(file.payload, 0, FieldsRead, at)
    BY <2>1 DEF ReadInv
  <2>4. FieldsRead = Opening(restored) \o table
    BY <1>5, <2>1 DEF FieldsRead
  <2> QED
    BY <2>1, <2>2, <2>3, <2>4
<1>7. at \in 0..Len(file.payload)
  BY <1>6, TakenEnd
<1>8. ASSUME ~Refuse
      PROVE  /\ read.ok /\ at' = read.at /\ file' = file /\ seen' = seen
             /\ phase' = "plan" /\ left' = 0
             /\ \/ /\ v[1] = GenericAdapter /\ v[2] = <<>>
                   /\ restored' = WithAdapter(restored, v[1], NoConvolution)
                \/ /\ v[1] = ConvAdapter /\ fields.ok /\ fields.at = Len(v[2])
                   /\ restored' = WithAdapter(restored, v[1], ConvolutionOf(fields.value))
  <2>1. /\ read.ok /\ Took(read) /\ Goto("plan", 0) /\ UNCHANGED seen
        /\ \/ /\ v[1] = GenericAdapter /\ v[2] = <<>>
              /\ restored' = WithAdapter(restored, v[1], NoConvolution)
           \/ /\ v[1] = ConvAdapter /\ fields.ok /\ fields.at = Len(v[2])
              /\ restored' = WithAdapter(restored, v[1], ConvolutionOf(fields.value))
    BY <1>1, <1>3, <1>4, <1>8 DEF ReadAdapter, WithAdapter
  <2> QED
    BY <2>1 DEF Took, Goto
<1>9. ASSUME ~Refuse
      PROVE  ReadInv'
  <2>1. /\ v \in Seq(Values) /\ Len(v) = 2
        /\ Taken(file.payload, at, Paired(kinds, v), read.at)
        /\ \A k \in 1..2 : <<kinds[k], v[k]>> \in Readable
    BY <1>2, <1>3, <1>6, <1>7, <1>8, <1>9, ReadTaken
  <2>2. v[2] \in Objects
    <3>1. kinds[2] = "blob"
      BY <1>1
    <3>2. OfKinds(v, kinds) /\ 2 \in 1..Len(kinds)
      BY <1>2, <2>1 DEF OfKinds
    <3> QED
      BY <3>1, <3>2, ValueTypes
  <2>3. Paired(kinds, v) = <<U32(v[1]), Blob(v[2])>>
    <3>1. DOMAIN v = 1..2
      BY <2>1, LenProperties
    <3> QED
      BY <1>1, <3>1 DEF Paired, U32, Blob
  <2>4. /\ restored' \in Readout
        /\ restored'.version = restored.version /\ restored'.arguments = restored.arguments
        /\ restored'.plan = restored.plan
        /\ Opening(restored') = Opening(restored)
        /\ ArgumentTable(restored', restored'.version) = table
        /\ Adapter(restored') = <<U32(v[1]), Blob(v[2])>>
    <3>1. CASE /\ v[1] = GenericAdapter /\ v[2] = <<>>
               /\ restored' = WithAdapter(restored, v[1], NoConvolution)
      <4>1. /\ restored' \in Readout /\ restored'.adapter = v[1]
            /\ restored'.version = restored.version /\ restored'.arguments = restored.arguments
            /\ restored'.plan = restored.plan
            /\ Opening(restored') = Opening(restored)
            /\ ArgumentTable(restored', restored'.version) = table
        BY <1>5, <1>6, <3>1, EmptyTypes, AdapterReplaced
      <4>2. Adapter(restored') = <<U32(v[1]), Blob(v[2])>>
        BY <3>1, <4>1 DEF Adapter, ConvAdapter, GenericAdapter
      <4> QED
        BY <4>1, <4>2
    <3>2. CASE /\ v[1] = ConvAdapter /\ fields.ok /\ fields.at = Len(v[2])
               /\ restored' = WithAdapter(restored, v[1], ConvolutionOf(fields.value))
      <4>1. PICK conv : conv = ConvolutionOf(fields.value)
        OBVIOUS
      <4>2. v[2] \in Seq(Units) /\ 0 \in 0..Len(v[2])
        BY <2>2, LenProperties DEF Objects
      <4>3. PICK n \in Nat : n = ConvolutionFields
        BY DEF ConvolutionFields
      <4>4. /\ fields.value \in Seq(Signed) /\ Len(fields.value) = 27
            /\ Taken(v[2], 0, I64s(fields.value), fields.at)
        <5>1. /\ fields.value \in Seq(Signed) /\ Len(fields.value) = n
              /\ Taken(v[2], 0, I64s(fields.value), fields.at)
          BY <1>4, <3>2, <4>2, <4>3, NumbersTaken
        <5> QED
          BY <4>3, <5>1 DEF ConvolutionFields
      <4>5. conv \in ConvolutionRecord /\ Convolution(conv) = I64s(fields.value)
        BY <4>1, <4>4, ConvolutionTaken
      <4>6. v[2] = WrittenUnits(Convolution(conv))
        BY <3>2, <4>2, <4>4, <4>5, TakenFills
      <4>7. /\ restored' \in Readout /\ restored'.adapter = v[1] /\ restored'.conv = conv
            /\ restored'.version = restored.version /\ restored'.arguments = restored.arguments
            /\ restored'.plan = restored.plan
            /\ Opening(restored') = Opening(restored)
            /\ ArgumentTable(restored', restored'.version) = table
        BY <1>5, <1>6, <3>2, <4>1, <4>5, AdapterReplaced
      <4>8. Adapter(restored') = <<U32(v[1]), Blob(v[2])>>
        BY <3>2, <4>6, <4>7 DEF Adapter
      <4> QED
        BY <4>7, <4>8
    <3> QED
      BY <1>8, <1>9, <3>1, <3>2
  <2>5. Taken(file.payload, 0, (Opening(restored) \o table) \o Paired(kinds, v), read.at)
    BY <1>6, <2>1, TakenConcat
  <2>6. FieldsRead' = (Opening(restored) \o table) \o Paired(kinds, v)
    <3>1. FieldsRead' = Metadata(restored', restored'.version)
      BY <1>8, <1>9 DEF FieldsRead
    <3>2. Metadata(restored', restored'.version)
            = (Opening(restored') \o ArgumentTable(restored', restored'.version))
                \o Adapter(restored')
      BY <1>6, <2>4, MetadataParts
    <3> QED
      BY <2>3, <2>4, <3>1, <3>2
  <2>7. PlaceInv'
    BY <1>6, <1>8, <1>9, <2>4 DEF PlaceInv, Before
  <2> QED
    BY <1>8, <1>9, <2>5, <2>6, <2>7 DEF ReadInv
<1> QED
  BY <1>9, RefusedKeeps

WithLegacy(c, conv) == [c EXCEPT !.conv = conv, !.arguments = LegacyArguments(conv)]

LEMMA LegacyReplaced ==
  ASSUME NEW c \in Readout, NEW conv \in ConvolutionRecord, NEW d, d = WithLegacy(c, conv)
  PROVE  /\ d \in Readout /\ d.conv = conv
         /\ d.version = c.version /\ d.triple = c.triple /\ d.function = c.function
         /\ d.plan = c.plan
<1>1. PICK table : table = LegacyArguments(conv)
  OBVIOUS
<1>2. table \in LegacyTables
  BY <1>1 DEF LegacyTables
<1>3. d = [c EXCEPT !.conv = conv, !.arguments = table]
  BY <1>1 DEF WithLegacy
<1> QED
  BY <1>2, <1>3 DEF Readout

LEMMA LegacyKeeps ==
  ASSUME ReadInv, ReadLegacyConvolution
  PROVE  ReadInv'
<1>1. PICK fields, conv : /\ fields = ReadI64s(file.payload, at, ConvolutionFields)
                          /\ conv = ConvolutionOf(fields.value)
  OBVIOUS
<1>2. /\ phase = "legacy" /\ file.payload \in Seq(Units) /\ restored \in Readout
      /\ restored.version = 1 /\ restored.plan.allocations = <<>>
      /\ seen = <<>> /\ seen \in Seq(1..3)
      /\ Taken(file.payload, 0, Header(restored, restored.version), at)
  <2>1. phase = "legacy"
    BY DEF ReadLegacyConvolution
  <2>2. /\ file.payload \in Seq(Units) /\ restored \in Readout /\ restored.version = 1
        /\ restored.plan.allocations = <<>>
        /\ seen = <<>> /\ seen \in Seq(1..3)
    BY <2>1 DEF ReadInv, PlaceInv, Before
  <2>3. Taken(file.payload, 0, FieldsRead, at)
    BY <2>1 DEF ReadInv
  <2>4. FieldsRead = Header(restored, restored.version)
    BY <2>1 DEF FieldsRead
  <2> QED
    BY <2>1, <2>2, <2>3, <2>4
<1>3. at \in 0..Len(file.payload)
  BY <1>2, TakenEnd
<1>4. ASSUME ~Refuse
      PROVE  /\ fields.ok /\ at' = fields.at /\ file' = file /\ seen' = seen
             /\ restored' = WithLegacy(restored, conv)
             /\ phase' = "plan" /\ left' = 0
  <2>1. /\ fields.ok /\ Took(fields) /\ Goto("plan", 0) /\ UNCHANGED seen
        /\ restored' = WithLegacy(restored, conv)
    BY <1>1, <1>4 DEF ReadLegacyConvolution, WithLegacy
  <2> QED
    BY <2>1 DEF Took, Goto
<1>5. ASSUME ~Refuse
      PROVE  ReadInv'
  <2>1. PICK n \in Nat : n = ConvolutionFields
    BY DEF ConvolutionFields
  <2>2. /\ fields.value \in Seq(Signed) /\ Len(fields.value) = 27
        /\ Taken(file.payload, at, I64s(fields.value), fields.at)
    <3>1. /\ fields.value \in Seq(Signed) /\ Len(fields.value) = n
          /\ Taken(file.payload, at, I64s(fields.value), fields.at)
      BY <1>1, <1>2, <1>3, <1>4, <1>5, <2>1, NumbersTaken
    <3> QED
      BY <2>1, <3>1 DEF ConvolutionFields
  <2>3. conv \in ConvolutionRecord /\ Convolution(conv) = I64s(fields.value)
    BY <1>1, <2>2, ConvolutionTaken
  <2>4. /\ restored' \in Readout /\ restored'.conv = conv
        /\ restored'.version = restored.version /\ restored'.triple = restored.triple
        /\ restored'.function = restored.function /\ restored'.plan = restored.plan
    BY <1>2, <1>4, <1>5, <2>3, LegacyReplaced
  <2>5. Taken(file.payload, 0, Header(restored, restored.version) \o Convolution(conv),
              fields.at)
    BY <1>2, <2>2, <2>3, TakenConcat
  <2>6. FieldsRead' = Header(restored, restored.version) \o Convolution(conv)
    <3>1. FieldsRead' = Metadata(restored', restored'.version)
      BY <1>4, <1>5 DEF FieldsRead
    <3>2. Metadata(restored', restored'.version)
            = Header(restored', restored'.version) \o Convolution(restored'.conv)
      BY <1>2, <2>4 DEF Metadata
    <3>3. Header(restored', restored'.version) = Header(restored, restored.version)
      BY <2>4, SameHeader
    <3> QED
      BY <2>4, <3>1, <3>2, <3>3
  <2>7. PlaceInv'
    BY <1>2, <1>4, <1>5, <2>4 DEF PlaceInv, Before
  <2> QED
    BY <1>4, <1>5, <2>5, <2>6, <2>7 DEF ReadInv
<1> QED
  BY <1>5, RefusedKeeps

LEMMA MetadataRead ==
  ASSUME NEW c \in Readout, c.version >= 2 => c.arguments \in Lists(ArgumentRecord)
  PROVE  Metadata(c, c.version) \in Seq(Field)
<1>1. CASE c.version = 1
  <2>1. Metadata(c, c.version) = Header(c, c.version) \o Convolution(c.conv)
    BY <1>1 DEF Metadata
  <2>2. Header(c, c.version) \in Seq(Field)
    BY OpeningFields
  <2>3. c.conv \in ConvolutionRecord
    BY ReadoutParts
  <2>4. PICK L : L = 1
    OBVIOUS
  <2>5. Convolution(c.conv) \in Seq(Limited(L))
    BY <2>3, ConvolutionFieldsWritten
  <2>6. Convolution(c.conv) \in Seq(Field)
    BY <2>5, LimitedIsField
  <2> QED
    BY <2>1, <2>2, <2>6, ConcatProperties
<1>2. CASE c.version # 1
  <2>1. c.version >= 2
    BY <1>2, ReadoutParts DEF kArtifactFormatVersion
  <2> QED
    BY <2>1, MetadataParts
<1> QED
  BY <1>1, <1>2

(* The sections before the plan are the same for artifacts with these      *)
(* parts alike.                                                            *)
LEMMA SameMetadata ==
  ASSUME NEW c, NEW d, c.version = d.version, c.triple = d.triple, c.function = d.function,
         c.dynamic = d.dynamic, c.override = d.override, c.policy = d.policy,
         c.roles = d.roles, c.axes = d.axes, c.arguments = d.arguments,
         c.adapter = d.adapter, c.conv = d.conv
  PROVE  Metadata(c, c.version) = Metadata(d, d.version)
<1>1. /\ Header(c, c.version) = Header(d, d.version)
      /\ Overrides(c, c.version) = Overrides(d, d.version)
  BY SameOpening
<1>2. ArgumentTable(c, c.version) = ArgumentTable(d, d.version) /\ Adapter(c) = Adapter(d)
  BY DEF ArgumentTable, Adapter
<1> QED
  BY <1>1, <1>2 DEF Metadata

LEMMA NoAllocations ==
  ASSUME NEW plan, plan.allocations = <<>>
  PROVE  Joint(Allocated(plan)) = <<>> /\ Len(plan.allocations) = 0
<1>1. DOMAIN <<>> = {}
  OBVIOUS
<1>2. Allocated(plan) = <<>>
  BY <1>1 DEF Allocated
<1> QED
  BY <1>2, JointOfNone, EmptySeq

LEMMA PlanIsHead ==
  ASSUME NEW plan
  PROVE  Plan(plan) = PlanHead(plan, Len(plan.allocations)) \o Joint(Allocated(plan))
BY DEF Plan, PlanHead, Allocated

WithPlan(c, size, alignment) == [c EXCEPT !.plan.size = size, !.plan.alignment = alignment]

LEMMA PlanReplaced ==
  ASSUME NEW c \in Readout, NEW size \in Unsigned, NEW alignment \in Unsigned,
         NEW d, d = WithPlan(c, size, alignment)
  PROVE  /\ d \in Readout /\ d.plan.size = size /\ d.plan.alignment = alignment
         /\ d.plan.allocations = c.plan.allocations
         /\ d.version = c.version /\ d.arguments = c.arguments
         /\ Metadata(d, d.version) = Metadata(c, c.version)
<1>1. PICK plan : plan = [c.plan EXCEPT !.size = size, !.alignment = alignment]
  OBVIOUS
<1>2. /\ plan \in PlanRecord /\ plan.size = size /\ plan.alignment = alignment
      /\ plan.allocations = c.plan.allocations
  BY <1>1, ReadoutParts DEF PlanRecord
<1>3. d = [c EXCEPT !.plan = plan]
  BY <1>1, ReadoutParts DEF WithPlan, Readout, PlanRecord
<1>4. /\ d \in Readout /\ d.plan = plan
      /\ c.version = d.version /\ c.triple = d.triple /\ c.function = d.function
      /\ c.dynamic = d.dynamic /\ c.override = d.override /\ c.policy = d.policy
      /\ c.roles = d.roles /\ c.axes = d.axes /\ c.arguments = d.arguments
      /\ c.adapter = d.adapter /\ c.conv = d.conv
  BY <1>2, <1>3 DEF Readout
<1> QED
  BY <1>2, <1>4, SameMetadata

LEMMA PlanKeeps ==
  ASSUME ReadInv, ReadPlan
  PROVE  ReadInv'
<1>1. PICK kinds : kinds = <<"u64", "u64", "u32">>
  OBVIOUS
<1>2. kinds \in Seq(Kinds) /\ Len(kinds) = 3
  BY <1>1 DEF Kinds
<1>3. PICK read, v : read = ReadAll(file.payload, at, kinds) /\ v = read.value
  OBVIOUS
<1>4. PICK metadata : metadata = Metadata(restored, restored.version)
  OBVIOUS
<1>5. /\ phase = "plan" /\ file.payload \in Seq(Units) /\ restored \in Readout
      /\ restored.version >= 2 => restored.arguments \in Lists(ArgumentRecord)
      /\ restored.plan.allocations = <<>>
      /\ seen = <<>> /\ seen \in Seq(1..3)
      /\ Taken(file.payload, 0, metadata, at)
  <2>1. phase = "plan"
    BY DEF ReadPlan
  <2>2. /\ file.payload \in Seq(Units) /\ restored \in Readout
        /\ restored.version >= 2 => restored.arguments \in Lists(ArgumentRecord)
        /\ restored.plan.allocations = <<>>
        /\ seen = <<>> /\ seen \in Seq(1..3)
    BY <2>1 DEF ReadInv, PlaceInv, Before
  <2>3. Taken(file.payload, 0, FieldsRead, at)
    BY <2>1 DEF ReadInv
  <2>4. FieldsRead = metadata
    BY <1>4, <2>1 DEF FieldsRead
  <2> QED
    BY <2>1, <2>2, <2>3, <2>4
<1>6. at \in 0..Len(file.payload)
  BY <1>5, TakenEnd
<1>7. ASSUME ~Refuse
      PROVE  /\ read.ok /\ at' = read.at /\ file' = file /\ seen' = seen
             /\ restored' = WithPlan(restored, v[1], v[2])
             /\ phase' = (IF v[3] = 0 THEN "numeric" ELSE "allocation")
             /\ left' = v[3]
  <2>1. /\ read.ok /\ Took(read) /\ UNCHANGED seen
        /\ restored' = WithPlan(restored, v[1], v[2])
        /\ IF v[3] = 0 THEN Goto("numeric", 0) ELSE Goto("allocation", v[3])
    BY <1>1, <1>3, <1>7 DEF ReadPlan, WithPlan
  <2> QED
    BY <2>1 DEF Took, Goto
<1>8. ASSUME ~Refuse
      PROVE  ReadInv'
  <2>1. /\ v \in Seq(Values) /\ Len(v) = 3
        /\ Taken(file.payload, at, Paired(kinds, v), read.at)
        /\ \A k \in 1..3 : <<kinds[k], v[k]>> \in Readable
    BY <1>2, <1>3, <1>5, <1>6, <1>7, <1>8, ReadTaken
  <2>2. v[1] \in Unsigned /\ v[2] \in Unsigned /\ v[3] \in Units /\ v[3] \in Nat
    <3>1. kinds[1] = "u64" /\ kinds[2] = "u64" /\ kinds[3] = "u32"
      BY <1>1
    <3>2. OfKinds(v, kinds) /\ 1 \in 1..Len(kinds) /\ 2 \in 1..Len(kinds) /\ 3 \in 1..Len(kinds)
      BY <1>2, <2>1 DEF OfKinds
    <3>3. v[1] \in Unsigned /\ v[2] \in Unsigned /\ v[3] \in Units
      BY <3>1, <3>2, ValueTypes
    <3> QED
      BY <3>3, UnitsFacts DEF Units
  <2>3. PICK plan : plan = restored'.plan
    OBVIOUS
  <2>4. /\ restored' \in Readout /\ plan.size = v[1] /\ plan.alignment = v[2]
        /\ plan.allocations = <<>>
        /\ restored'.version = restored.version /\ restored'.arguments = restored.arguments
        /\ Metadata(restored', restored'.version) = metadata
    BY <1>4, <1>5, <1>7, <1>8, <2>2, <2>3, PlanReplaced
  <2>5. Paired(kinds, v) = PlanHead(plan, v[3])
    <3>1. DOMAIN v = 1..3
      BY <2>1, LenProperties
    <3> QED
      BY <1>1, <2>4, <3>1 DEF Paired, PlanHead, U32, U64
  <2>6. Taken(file.payload, 0, metadata \o PlanHead(plan, v[3]), read.at)
    BY <1>5, <2>1, <2>5, TakenConcat
  <2>7. /\ Joint(Allocated(plan)) = <<>> /\ Len(plan.allocations) = 0
    BY <2>4, NoAllocations
  <2>8. PICK head : head = PlanHead(plan, v[3])
    OBVIOUS
  <2>9. head \o <<>> = head /\ (metadata \o head) \o <<>> = metadata \o head
    <3>1. head \in Seq(Readable) /\ metadata \o head \in Seq(Readable)
      BY <2>1, <2>5, <2>6, <2>8 DEF Taken
    <3> QED
      BY <3>1, ConcatEmptySeq
  <2>10. FieldsRead' = metadata \o head
    <3>1. CASE v[3] = 0
      <4>1. FieldsRead' = Metadata(restored', restored'.version) \o Plan(plan)
        BY <1>7, <1>8, <2>3, <3>1 DEF FieldsRead
      <4>2. Plan(plan) = head \o <<>>
        BY <2>7, <2>8, <3>1, PlanIsHead
      <4> QED
        BY <2>4, <2>9, <4>1, <4>2
    <3>2. CASE v[3] # 0
      <4>1. FieldsRead' = (Metadata(restored', restored'.version)
                             \o PlanHead(plan, Len(plan.allocations) + left'))
                            \o Joint(Allocated(plan))
        BY <1>7, <1>8, <2>3, <3>2 DEF FieldsRead
      <4>2. Len(plan.allocations) + left' = v[3]
        BY <1>7, <1>8, <2>2, <2>7
      <4> QED
        BY <2>4, <2>7, <2>8, <2>9, <4>1, <4>2
    <3> QED
      BY <3>1, <3>2
  <2>11. PlaceInv'
    <3>1. /\ left' \in Nat
          /\ phase' = "allocation" =>
               left' > 0 /\ Len(restored'.plan.allocations) + left' \in Units
      BY <1>7, <1>8, <2>2, <2>3, <2>7
    <3> QED
      BY <1>5, <1>7, <1>8, <2>3, <2>4, <3>1 DEF PlaceInv, Before
  <2>12. phase' \notin {"refused", "accepted"}
    BY <1>7, <1>8
  <2> QED
    BY <1>7, <1>8, <2>6, <2>8, <2>10, <2>11, <2>12 DEF ReadInv
<1> QED
  BY <1>8, RefusedKeeps

LEMMA AllocationField ==
  ASSUME NEW a \in AllocationRecord
  PROVE  Allocation(a) \in Seq(Field)
<1>1. PICK L : L = Len(a.name)
  OBVIOUS
<1>2. a.name \in Texts
  BY DEF AllocationRecord
<1>3. L \in Nat /\ Len(a.name) <= L
  BY <1>1, <1>2, UnitsFacts DEF Texts, Units
<1> QED
  BY <1>3, AllocationFields, LimitedIsField

LEMMA AllocationPieces ==
  ASSUME NEW plan, plan.allocations \in Seq(AllocationRecord)
  PROVE  /\ Allocated(plan) \in Seq(Seq(Field))
         /\ Len(Allocated(plan)) = Len(plan.allocations)
         /\ Joint(Allocated(plan)) \in Seq(Field)
<1>1. PICK list : list = plan.allocations
  OBVIOUS
<1>2. /\ DOMAIN list = 1..Len(list) /\ Len(list) \in Nat
      /\ \A k \in 1..Len(list) : list[k] \in AllocationRecord
  BY <1>1, LenProperties, ElementOfSeq
<1>3. PICK pieces : pieces = [k \in 1..Len(list) |-> Allocation(list[k])]
  OBVIOUS
<1>4. pieces \in Seq(Seq(Field)) /\ Len(pieces) = Len(list)
  <2>1. \A k \in 1..Len(list) : Allocation(list[k]) \in Seq(Field)
    BY <1>2, AllocationField
  <2>2. pieces \in [1..Len(list) -> Seq(Field)]
    BY <1>3, <2>1
  <2> QED
    BY <1>2, <2>2, ListOfArray
<1>5. Allocated(plan) = pieces
  BY <1>1, <1>2, <1>3 DEF Allocated
<1> QED
  BY <1>1, <1>4, <1>5, JointIsList

LEMMA AllocationsAppended ==
  ASSUME NEW p, p.allocations \in Seq(AllocationRecord), NEW a \in AllocationRecord,
         NEW q, q.allocations = Append(p.allocations, a)
  PROVE  Joint(Allocated(q)) = Joint(Allocated(p)) \o Allocation(a)
<1>1. PICK list : list = p.allocations
  OBVIOUS
<1>2. PICK grown : grown = Append(list, a)
  OBVIOUS
<1>3. /\ list \in Seq(AllocationRecord) /\ DOMAIN list = 1..Len(list) /\ Len(list) \in Nat
  BY <1>1, LenProperties
<1>4. /\ DOMAIN grown = 1..(Len(list) + 1) /\ grown[Len(list) + 1] = a
      /\ \A k \in 1..Len(list) : grown[k] = list[k]
  BY <1>2, <1>3, AppendProperties, LenProperties
<1>5. PICK pieces, piece : pieces = Allocated(p) /\ piece = Allocation(a)
  OBVIOUS
<1>6. pieces \in Seq(Seq(Field)) /\ Len(pieces) = Len(list) /\ piece \in Seq(Field)
  BY <1>1, <1>3, <1>5, AllocationPieces, AllocationField
<1>7. Allocated(q) = Append(pieces, piece)
  <2>1. PICK e : e = Allocated(q)
    OBVIOUS
  <2>2. e = [k \in 1..(Len(list) + 1) |-> Allocation(grown[k])]
    BY <1>1, <1>2, <1>4, <2>1 DEF Allocated
  <2>3. pieces = [k \in 1..Len(list) |-> Allocation(list[k])]
    BY <1>1, <1>3, <1>5 DEF Allocated
  <2>4. /\ DOMAIN Append(pieces, piece) = 1..(Len(list) + 1)
        /\ Append(pieces, piece)[Len(list) + 1] = piece
        /\ \A k \in 1..Len(list) : Append(pieces, piece)[k] = pieces[k]
    <3>1. Append(pieces, piece) \in Seq(Seq(Field))
      BY <1>6, AppendProperties
    <3> QED
      BY <1>6, <3>1, AppendProperties, LenProperties
  <2>5. Append(pieces, piece) \in Seq(Seq(Field)) /\ Len(Append(pieces, piece)) = Len(list) + 1
    BY <1>6, AppendProperties
  <2> QED
    BY <1>3, <1>4, <1>5, <2>1, <2>2, <2>3, <2>4, <2>5
<1> QED
  BY <1>5, <1>6, <1>7, JointAppend

WithAllocation(c, a) == [c EXCEPT !.plan.allocations = Append(@, a)]

LEMMA AllocationAdded ==
  ASSUME NEW c \in Readout, NEW a \in AllocationRecord,
         Len(c.plan.allocations) + 1 \in Units, NEW d, d = WithAllocation(c, a)
  PROVE  /\ d \in Readout /\ d.plan.allocations = Append(c.plan.allocations, a)
         /\ Len(d.plan.allocations) = Len(c.plan.allocations) + 1
         /\ d.plan.size = c.plan.size /\ d.plan.alignment = c.plan.alignment
         /\ d.version = c.version /\ d.arguments = c.arguments
         /\ Metadata(d, d.version) = Metadata(c, c.version)
<1>1. PICK list : list = Append(c.plan.allocations, a)
  OBVIOUS
<1>2. c.plan.allocations \in Seq(AllocationRecord)
  BY ReadoutParts DEF PlanRecord, Lists
<1>3. list \in Seq(AllocationRecord) /\ Len(list) = Len(c.plan.allocations) + 1
  BY <1>1, <1>2, AppendProperties
<1>4. list \in Lists(AllocationRecord)
  BY <1>3 DEF Lists
<1>5. PICK plan : plan = [c.plan EXCEPT !.allocations = list]
  OBVIOUS
<1>6. /\ plan \in PlanRecord /\ plan.allocations = list
      /\ plan.size = c.plan.size /\ plan.alignment = c.plan.alignment
  BY <1>4, <1>5, ReadoutParts DEF PlanRecord
<1>7. d = [c EXCEPT !.plan = plan]
  BY <1>1, <1>5, ReadoutParts DEF WithAllocation, Readout, PlanRecord
<1>8. /\ d \in Readout /\ d.plan = plan
      /\ c.version = d.version /\ c.triple = d.triple /\ c.function = d.function
      /\ c.dynamic = d.dynamic /\ c.override = d.override /\ c.policy = d.policy
      /\ c.roles = d.roles /\ c.axes = d.axes /\ c.arguments = d.arguments
      /\ c.adapter = d.adapter /\ c.conv = d.conv
  BY <1>6, <1>7 DEF Readout
<1> QED
  BY <1>1, <1>3, <1>6, <1>8, SameMetadata

LEMMA SamePlanHead ==
  ASSUME NEW p, NEW q, p.size = q.size, p.alignment = q.alignment, NEW m, NEW n, m = n
  PROVE  PlanHead(p, m) = PlanHead(q, n)
BY DEF PlanHead

LEMMA AllocationKeeps ==
  ASSUME ReadInv, ReadAllocation
  PROVE  ReadInv'
<1>1. PICK kinds : kinds = <<"string", "u64", "u64", "u64", "u64", "u64">>
  OBVIOUS
<1>2. kinds \in Seq(Kinds) /\ Len(kinds) = 6
  BY <1>1 DEF Kinds
<1>3. PICK read, v : read = ReadAll(file.payload, at, kinds) /\ v = read.value
  OBVIOUS
<1>4. PICK metadata, head, allocated, list :
        /\ metadata = Metadata(restored, restored.version)
        /\ head = PlanHead(restored.plan, Len(restored.plan.allocations) + left)
        /\ allocated = Joint(Allocated(restored.plan))
        /\ list = restored.plan.allocations
  OBVIOUS
<1>5. /\ phase = "allocation" /\ file.payload \in Seq(Units) /\ restored \in Readout
      /\ restored.version >= 2 => restored.arguments \in Lists(ArgumentRecord)
      /\ seen = <<>> /\ seen \in Seq(1..3)
      /\ left \in Nat /\ left > 0 /\ Len(list) + left \in Units
      /\ Taken(file.payload, 0, (metadata \o head) \o allocated, at)
  <2>1. phase = "allocation"
    BY DEF ReadAllocation
  <2>2. /\ file.payload \in Seq(Units) /\ restored \in Readout
        /\ restored.version >= 2 => restored.arguments \in Lists(ArgumentRecord)
        /\ seen = <<>> /\ seen \in Seq(1..3)
        /\ left \in Nat /\ left > 0 /\ Len(list) + left \in Units
    BY <1>4, <2>1 DEF ReadInv, PlaceInv, Before
  <2>3. Taken(file.payload, 0, FieldsRead, at)
    BY <2>1 DEF ReadInv
  <2>4. FieldsRead = (metadata \o head) \o allocated
    BY <1>4, <2>1 DEF FieldsRead
  <2> QED
    BY <2>1, <2>2, <2>3, <2>4
<1>6. at \in 0..Len(file.payload)
  BY <1>5, TakenEnd
<1>7. PICK a : a = [name |-> v[1], offset |-> v[2], size |-> v[3], alignment |-> v[4],
                    start |-> v[5], end |-> v[6]]
  OBVIOUS
<1>8. ASSUME ~Refuse
      PROVE  /\ read.ok /\ at' = read.at /\ file' = file /\ seen' = seen
             /\ restored' = WithAllocation(restored, a)
             /\ phase' = (IF left = 1 THEN "numeric" ELSE "allocation")
             /\ left' = (IF left = 1 THEN 0 ELSE left - 1)
  <2>1. /\ read.ok /\ Took(read) /\ UNCHANGED seen
        /\ restored' = WithAllocation(restored, a)
        /\ IF left = 1 THEN Goto("numeric", 0) ELSE Goto("allocation", left - 1)
    BY <1>1, <1>3, <1>7, <1>8 DEF ReadAllocation, WithAllocation
  <2> QED
    BY <2>1 DEF Took, Goto
<1>9. ASSUME ~Refuse
      PROVE  ReadInv'
  <2>1. /\ v \in Seq(Values) /\ Len(v) = 6
        /\ Taken(file.payload, at, Paired(kinds, v), read.at)
        /\ \A k \in 1..6 : <<kinds[k], v[k]>> \in Readable
    BY <1>2, <1>3, <1>5, <1>6, <1>8, <1>9, ReadTaken
  <2>2. /\ v[1] \in Texts /\ v[2] \in Unsigned /\ v[3] \in Unsigned
        /\ v[4] \in Unsigned /\ v[5] \in Unsigned /\ v[6] \in Unsigned
    <3>1. /\ kinds[1] = "string" /\ kinds[2] = "u64" /\ kinds[3] = "u64"
          /\ kinds[4] = "u64" /\ kinds[5] = "u64" /\ kinds[6] = "u64"
      BY <1>1
    <3>2. /\ OfKinds(v, kinds)
          /\ 1 \in 1..Len(kinds) /\ 2 \in 1..Len(kinds) /\ 3 \in 1..Len(kinds)
          /\ 4 \in 1..Len(kinds) /\ 5 \in 1..Len(kinds) /\ 6 \in 1..Len(kinds)
      BY <1>2, <2>1 DEF OfKinds
    <3> QED
      BY <3>1, <3>2, ValueTypes
  <2>3. a \in AllocationRecord
    BY <1>7, <2>2 DEF AllocationRecord
  <2>4. PICK fields : fields = Allocation(a)
    OBVIOUS
  <2>5. Paired(kinds, v) = fields
    <3>1. DOMAIN v = 1..6
      BY <2>1, LenProperties
    <3>2. /\ a.name = v[1] /\ a.offset = v[2] /\ a.size = v[3] /\ a.alignment = v[4]
          /\ a.start = v[5] /\ a.end = v[6]
      BY <1>7
    <3> QED
      BY <1>1, <2>4, <3>1, <3>2 DEF Paired, Allocation, String, U64
  <2>6. /\ list \in Seq(AllocationRecord) /\ Len(list) \in Nat /\ Len(list) + 1 \in Units
    <3>1. list \in Seq(AllocationRecord) /\ Len(list) \in Units
      BY <1>4, <1>5, ReadoutParts DEF PlanRecord, Lists
    <3> QED
      BY <1>5, <3>1, UnitsFacts DEF Units
  <2>7. PICK plan : plan = restored'.plan
    OBVIOUS
  <2>8. /\ restored' \in Readout /\ plan.allocations = Append(list, a)
        /\ Len(plan.allocations) = Len(list) + 1
        /\ plan.size = restored.plan.size /\ plan.alignment = restored.plan.alignment
        /\ restored'.version = restored.version /\ restored'.arguments = restored.arguments
        /\ Metadata(restored', restored'.version) = metadata
    BY <1>4, <1>5, <1>8, <1>9, <2>3, <2>6, <2>7, AllocationAdded
  <2>9. Joint(Allocated(plan)) = allocated \o fields
    BY <1>4, <2>3, <2>4, <2>6, <2>8, AllocationsAppended
  <2>10. Taken(file.payload, 0, ((metadata \o head) \o allocated) \o fields, read.at)
    BY <1>5, <2>1, <2>5, TakenConcat
  <2>11. /\ metadata \in Seq(Field) /\ head \in Seq(Field) /\ metadata \o head \in Seq(Field)
         /\ allocated \in Seq(Field) /\ fields \in Seq(Field)
    <3>1. metadata \in Seq(Field)
      BY <1>4, <1>5, MetadataRead
    <3>2. head \in Seq(Field)
      <4>1. /\ U64(restored.plan.size) \in Field /\ U64(restored.plan.alignment) \in Field
            /\ U32(Len(list) + left) \in Field
        <5>1. /\ restored.plan.size \in Unsigned /\ restored.plan.alignment \in Unsigned
          BY <1>5, ReadoutParts DEF PlanRecord
        <5> QED
          BY <1>5, <5>1, FieldTypes DEF U64, U32
      <4> QED
        BY <1>4, <4>1 DEF PlanHead
    <3>3. allocated \in Seq(Field) /\ fields \in Seq(Field)
      BY <1>4, <2>3, <2>4, <2>6, AllocationField, AllocationPieces
    <3> QED
      BY <3>1, <3>2, <3>3, ConcatProperties
  <2>12. /\ ((metadata \o head) \o allocated) \o fields
              = (metadata \o head) \o (allocated \o fields)
         /\ (metadata \o head) \o (allocated \o fields)
              = metadata \o (head \o (allocated \o fields))
    <3>1. PICK mh, rest : mh = metadata \o head /\ rest = allocated \o fields
      OBVIOUS
    <3>2. mh \in Seq(Field) /\ rest \in Seq(Field)
      BY <2>11, <3>1, ConcatProperties
    <3>3. (mh \o allocated) \o fields = mh \o (allocated \o fields)
      <4>1. Regroups(mh, allocated, fields)
        BY <2>11, <3>2, Regrouped
      <4> QED
        BY <4>1 DEF Regroups
    <3>4. (metadata \o head) \o rest = metadata \o (head \o rest)
      <4>1. Regroups(metadata, head, rest)
        BY <2>11, <3>2, Regrouped
      <4> QED
        BY <4>1 DEF Regroups
    <3> QED
      BY <3>1, <3>3, <3>4
  <2>13. FieldsRead' = (metadata \o head) \o (allocated \o fields)
    <3>1. CASE left = 1
      <4>1. FieldsRead' = Metadata(restored', restored'.version) \o Plan(plan)
        BY <1>8, <1>9, <2>7, <3>1 DEF FieldsRead
      <4>2. PlanHead(plan, Len(plan.allocations)) = head
        BY <1>4, <2>8, <3>1, SamePlanHead
      <4>3. Plan(plan) = head \o (allocated \o fields)
        BY <2>9, <4>2, PlanIsHead
      <4> QED
        BY <2>8, <2>12, <4>1, <4>3
    <3>2. CASE left # 1
      <4>1. FieldsRead' = (Metadata(restored', restored'.version)
                             \o PlanHead(plan, Len(plan.allocations) + left'))
                            \o Joint(Allocated(plan))
        BY <1>8, <1>9, <2>7, <3>2 DEF FieldsRead
      <4>2. Len(plan.allocations) + left' = Len(list) + left
        BY <1>5, <1>8, <1>9, <2>6, <2>8, <3>2
      <4>3. PlanHead(plan, Len(plan.allocations) + left') = head
        BY <1>4, <2>8, <4>2, SamePlanHead
      <4> QED
        BY <2>8, <2>9, <4>1, <4>3
    <3> QED
      BY <3>1, <3>2
  <2>14. PlaceInv'
    <3>1. /\ left' \in Nat
          /\ phase' = "allocation" =>
               left' > 0 /\ Len(restored'.plan.allocations) + left' \in Units
      BY <1>5, <1>8, <1>9, <2>6, <2>7, <2>8
    <3> QED
      BY <1>5, <1>8, <1>9, <2>8, <3>1 DEF PlaceInv, Before
  <2>15. phase' \notin {"refused", "accepted"}
    BY <1>8, <1>9
  <2> QED
    BY <1>8, <1>9, <2>10, <2>12, <2>13, <2>14, <2>15 DEF ReadInv
<1> QED
  BY <1>9, RefusedKeeps

LEMMA PlanRead ==
  ASSUME NEW c \in Readout
  PROVE  Plan(c.plan) \in Seq(Field)
<1>1. PICK L : L = Base - 1
  OBVIOUS
<1>2. PICK list : list = c.plan.allocations
  OBVIOUS
<1>3. list \in Seq(AllocationRecord)
  BY <1>2, ReadoutParts DEF PlanRecord, Lists
<1>4. \A k \in 1..Len(list) : Len(list[k].name) <= L
  <2> SUFFICES ASSUME NEW k \in 1..Len(list)
               PROVE  Len(list[k].name) <= L
    OBVIOUS
  <2>1. list[k] \in AllocationRecord
    BY <1>3, ElementOfSeq
  <2>2. list[k].name \in Texts
    BY <2>1 DEF AllocationRecord
  <2> QED
    BY <1>1, <2>2, UnitsFacts DEF Texts, Units
<1> QED
  BY <1>2, <1>4, ReadoutParts, PlanFields, LimitedIsField

LEMMA NumericKeeps ==
  ASSUME ReadInv, ReadNumericContract
  PROVE  ReadInv'
<1>1. PICK kinds : kinds = <<"u64", "u64", "u32">>
  OBVIOUS
<1>2. kinds \in Seq(Kinds) /\ Len(kinds) = 3
  BY <1>1 DEF Kinds
<1>3. PICK read, v : read = ReadAll(file.payload, at, kinds) /\ v = read.value
  OBVIOUS
<1>4. PICK before : before = Metadata(restored, restored.version) \o Plan(restored.plan)
  OBVIOUS
<1>5. /\ phase = "numeric" /\ file.payload \in Seq(Units)
      /\ seen = <<>> /\ Taken(file.payload, 0, before, at)
  <2>1. phase = "numeric"
    BY DEF ReadNumericContract
  <2>2. file.payload \in Seq(Units) /\ seen = <<>>
    BY <2>1 DEF ReadInv, PlaceInv, Before
  <2>3. Taken(file.payload, 0, FieldsRead, at)
    BY <2>1 DEF ReadInv
  <2>4. FieldsRead = before
    BY <1>4, <2>1 DEF FieldsRead
  <2> QED
    BY <2>1, <2>2, <2>3, <2>4
<1>6. at \in 0..Len(file.payload)
  BY <1>5, TakenEnd
<1>7. ASSUME ~Refuse
      PROVE  /\ read.ok /\ v = Append(Tolerances, 3)
             /\ at' = read.at /\ file' = file /\ seen' = seen /\ restored' = restored
             /\ phase' = "variant" /\ left' = 3
  <2>1. /\ read.ok /\ v = Append(Tolerances, 3) /\ Took(read)
        /\ Goto("variant", 3) /\ UNCHANGED <<seen, restored>>
    BY <1>1, <1>3, <1>7 DEF ReadNumericContract
  <2> QED
    BY <2>1 DEF Took, Goto
<1>8. ASSUME ~Refuse
      PROVE  ReadInv'
  <2>1. /\ v \in Seq(Values) /\ Len(v) = 3
        /\ Taken(file.payload, at, Paired(kinds, v), read.at)
    BY <1>2, <1>3, <1>5, <1>6, <1>7, <1>8, ReadTaken
  <2>2. v = <<1, 2, 3>>
    BY <1>7, <1>8 DEF Tolerances
  <2>3. Paired(kinds, v) = NumericContract
    <3>1. DOMAIN v = 1..3
      BY <2>1, LenProperties
    <3> QED
      BY <1>1, <2>2, <3>1 DEF Paired, NumericContract, Tolerances, U64, U32
  <2>4. Taken(file.payload, 0, before \o NumericContract, read.at)
    BY <1>5, <2>1, <2>3, TakenConcat
  <2>5. VariantsWritten(restored, <<>>) = <<>>
    <3>1. DOMAIN <<>> = {}
      OBVIOUS
    <3>2. [k \in DOMAIN <<>> |-> Variant(restored, <<>>[k])] = <<>>
      BY <3>1
    <3> QED
      BY <3>2, JointOfNone DEF VariantsWritten
  <2>6. FieldsRead' = (before \o NumericContract) \o <<>>
    BY <1>4, <1>5, <1>7, <1>8, <2>5 DEF FieldsRead
  <2>7. (before \o NumericContract) \o <<>> = before \o NumericContract
    BY <2>4, ConcatEmptySeq DEF Taken
  <2>8. PlaceInv'
    <3>1. Len(seen) = 0
      BY <1>5, EmptySeq
    <3> QED
      BY <1>5, <1>7, <1>8, <3>1 DEF ReadInv, PlaceInv, Before
  <2> QED
    BY <1>7, <1>8, <2>4, <2>6, <2>7, <2>8 DEF ReadInv
<1> QED
  BY <1>8, RefusedKeeps

LEMMA VariantField ==
  ASSUME NEW c, NEW v \in 1..3, c.variants \in [1..3 -> VariantRecord]
  PROVE  Variant(c, v) \in Seq(Field)
<1>1. PICK L : L = Base - 1
  OBVIOUS
<1>2. c.variants[v] \in VariantRecord
  OBVIOUS
<1>3. c.variants[v].symbol \in Texts /\ c.variants[v].features \in Texts
  BY <1>2 DEF VariantRecord
<1>4. Len(c.variants[v].symbol) <= L /\ Len(c.variants[v].features) <= L
  BY <1>1, <1>3, UnitsFacts DEF Texts, Units
<1> QED
  BY <1>2, <1>4, VariantFields, LimitedIsField

LEMMA VariantPieces ==
  ASSUME NEW c, NEW order \in Seq(1..3), c.variants \in [1..3 -> VariantRecord],
         NEW pieces, pieces = [k \in DOMAIN order |-> Variant(c, order[k])]
  PROVE  /\ pieces \in Seq(Seq(Field)) /\ Len(pieces) = Len(order)
         /\ VariantsWritten(c, order) = Joint(pieces)
         /\ VariantsWritten(c, order) \in Seq(Field)
<1>1. /\ DOMAIN order = 1..Len(order) /\ Len(order) \in Nat
      /\ \A k \in 1..Len(order) : order[k] \in 1..3
  BY LenProperties, ElementOfSeq
<1>2. \A k \in 1..Len(order) : Variant(c, order[k]) \in Seq(Field)
  BY <1>1, VariantField
<1>3. pieces \in [1..Len(order) -> Seq(Field)]
  BY <1>1, <1>2
<1>4. pieces \in Seq(Seq(Field)) /\ Len(pieces) = Len(order)
  BY <1>1, <1>3, ListOfArray
<1>5. VariantsWritten(c, order) = Joint(pieces)
  BY DEF VariantsWritten
<1> QED
  BY <1>4, <1>5, JointIsList

AlikeBut(c, d, v) == \A w \in 1..3 : w # v => d.variants[w] = c.variants[w]

(* A variant written after the others leaves what they say as it was.      *)
VariantFollows(c, order, d, v) ==
  VariantsWritten(d, Append(order, v)) = VariantsWritten(c, order) \o Variant(d, v)

LEMMA VariantsAppended ==
  ASSUME NEW c, NEW order \in Seq(1..3), c.variants \in [1..3 -> VariantRecord],
         NEW v \in 1..3, v \notin Items(order),
         NEW d, d.variants \in [1..3 -> VariantRecord], AlikeBut(c, d, v)
  PROVE  VariantFollows(c, order, d, v)
<1>1. PICK grown : grown = Append(order, v)
  OBVIOUS
<1>2. /\ DOMAIN order = 1..Len(order) /\ Len(order) \in Nat
      /\ \A k \in 1..Len(order) : order[k] \in 1..3 /\ order[k] # v
  <2>1. /\ DOMAIN order = 1..Len(order) /\ Len(order) \in Nat
        /\ \A k \in 1..Len(order) : order[k] \in 1..3
    BY LenProperties, ElementOfSeq
  <2>2. \A k \in 1..Len(order) : order[k] # v
    BY DEF Items
  <2> QED
    BY <2>1, <2>2
<1>3. /\ grown \in Seq(1..3) /\ DOMAIN grown = 1..(Len(order) + 1)
      /\ grown[Len(order) + 1] = v /\ \A k \in 1..Len(order) : grown[k] = order[k]
  <2>1. grown \in Seq(1..3) /\ Len(grown) = Len(order) + 1
    BY <1>1, AppendProperties
  <2> QED
    BY <1>1, <2>1, AppendProperties, LenProperties
<1>4. d.variants \in [1..3 -> VariantRecord]
  OBVIOUS
<1>5. \A w \in 1..3 : w # v => Variant(d, w) = Variant(c, w)
  BY DEF Variant, AlikeBut
<1>6. PICK before, after : /\ before = [k \in DOMAIN order |-> Variant(c, order[k])]
                           /\ after = [k \in DOMAIN grown |-> Variant(d, grown[k])]
  OBVIOUS
<1>7. PICK piece : piece = Variant(d, v)
  OBVIOUS
<1>8. piece \in Seq(Field)
  BY <1>4, <1>7, VariantField
<1>9. /\ before \in Seq(Seq(Field)) /\ Len(before) = Len(order)
      /\ VariantsWritten(c, order) = Joint(before)
  BY <1>6, VariantPieces
<1>10. VariantsWritten(d, grown) = Joint(after)
  BY <1>6 DEF VariantsWritten
<1>11. after = Append(before, piece)
  <2>1. PICK list : list = Append(before, piece)
    OBVIOUS
  <2>2. list \in Seq(Seq(Field)) /\ Len(list) = Len(order) + 1
    BY <1>8, <1>9, <2>1, AppendProperties
  <2>3. /\ DOMAIN list = 1..(Len(order) + 1) /\ list[Len(order) + 1] = piece
        /\ \A k \in 1..Len(order) : list[k] = before[k]
    BY <1>8, <1>9, <2>1, <2>2, AppendProperties, LenProperties
  <2>4. \A k \in 1..Len(order) : before[k] = Variant(d, grown[k])
    BY <1>2, <1>3, <1>5, <1>6
  <2>5. \A k \in 1..(Len(order) + 1) : list[k] = Variant(d, grown[k])
    BY <1>2, <1>3, <1>7, <2>3, <2>4
  <2>6. list = [k \in DOMAIN grown |-> Variant(d, grown[k])]
    BY <1>3, <2>2, <2>3, <2>5
  <2> QED
    BY <1>6, <2>1, <2>6
<1> QED
  BY <1>1, <1>7, <1>8, <1>9, <1>10, <1>11, JointAppend DEF VariantFollows

WithVariant(c, v, record) == [c EXCEPT !.variants[v] = record]

LEMMA VariantReplaced ==
  ASSUME NEW c \in Readout, NEW v \in 1..3, NEW record \in VariantRecord,
         NEW d, d = WithVariant(c, v, record)
  PROVE  /\ d \in Readout /\ d.variants = [c.variants EXCEPT ![v] = record]
         /\ d.version = c.version /\ d.arguments = c.arguments /\ d.plan = c.plan
         /\ Metadata(d, d.version) = Metadata(c, c.version)
<1>1. PICK variants : variants = [c.variants EXCEPT ![v] = record]
  OBVIOUS
<1>2. variants \in [1..3 -> VariantRecord]
  BY <1>1, ReadoutParts
<1>3. d = [c EXCEPT !.variants = variants]
  BY <1>1, ReadoutParts DEF WithVariant, Readout
<1>4. /\ d \in Readout /\ d.variants = variants
      /\ c.version = d.version /\ c.triple = d.triple /\ c.function = d.function
      /\ c.dynamic = d.dynamic /\ c.override = d.override /\ c.policy = d.policy
      /\ c.roles = d.roles /\ c.axes = d.axes /\ c.arguments = d.arguments
      /\ c.adapter = d.adapter /\ c.conv = d.conv /\ d.plan = c.plan
  BY <1>2, <1>3 DEF Readout
<1> QED
  BY <1>1, <1>4, SameMetadata

LEMMA VariantKeeps ==
  ASSUME ReadInv, ReadVariant
  PROVE  ReadInv'
<1>1. PICK kinds : kinds = <<"u32", "string", "string", "blob">>
  OBVIOUS
<1>2. kinds \in Seq(Kinds) /\ Len(kinds) = 4
  BY <1>1 DEF Kinds
<1>3. PICK read, v : read = ReadAll(file.payload, at, kinds) /\ v = read.value
  OBVIOUS
<1>4. PICK before : before = (Metadata(restored, restored.version) \o Plan(restored.plan))
                               \o NumericContract
  OBVIOUS
<1>5. /\ phase = "variant" /\ file.payload \in Seq(Units) /\ restored \in Readout
      /\ seen \in Seq(1..3) /\ left \in Nat /\ left > 0 /\ Len(seen) + left = 3
      /\ Taken(file.payload, 0, before \o VariantsWritten(restored, seen), at)
  <2>1. phase = "variant"
    BY DEF ReadVariant
  <2>2. /\ file.payload \in Seq(Units) /\ restored \in Readout
        /\ seen \in Seq(1..3) /\ left \in Nat /\ left > 0 /\ Len(seen) + left = 3
    BY <2>1 DEF ReadInv, PlaceInv
  <2>3. Taken(file.payload, 0, FieldsRead, at)
    BY <2>1 DEF ReadInv
  <2>4. FieldsRead = before \o VariantsWritten(restored, seen)
    BY <1>4, <2>1 DEF FieldsRead
  <2> QED
    BY <2>1, <2>2, <2>3, <2>4
<1>6. at \in 0..Len(file.payload)
  BY <1>5, TakenEnd
<1>7. PICK record : record = [symbol |-> v[2], features |-> v[3], object |-> v[4]]
  OBVIOUS
<1>8. PICK place : place = v[1] + 1
  OBVIOUS
<1>9. ASSUME ~Refuse
      PROVE  /\ read.ok /\ v[1] < 3 /\ place \notin Items(seen)
             /\ at' = read.at /\ file' = file /\ seen' = Append(seen, place)
             /\ restored' = WithVariant(restored, place, record)
             /\ phase' = (IF left = 1 THEN "contract" ELSE "variant")
             /\ left' = (IF left = 1 THEN 0 ELSE left - 1)
  <2>1. /\ read.ok /\ v[1] < 3 /\ place \notin Items(seen) /\ Took(read)
        /\ seen' = Append(seen, place)
        /\ restored' = WithVariant(restored, place, record)
        /\ IF left = 1 THEN Goto("contract", 0) ELSE Goto("variant", left - 1)
    BY <1>1, <1>3, <1>7, <1>8, <1>9 DEF ReadVariant, WithVariant
  <2> QED
    BY <2>1 DEF Took, Goto
<1>10. ASSUME ~Refuse
       PROVE  ReadInv'
  <2>1. /\ v \in Seq(Values) /\ Len(v) = 4
        /\ Taken(file.payload, at, Paired(kinds, v), read.at)
        /\ \A k \in 1..4 : <<kinds[k], v[k]>> \in Readable
    BY <1>2, <1>3, <1>5, <1>6, <1>9, <1>10, ReadTaken
  <2>2. v[1] \in Units /\ v[2] \in Texts /\ v[3] \in Texts /\ v[4] \in Objects
    <3>1. kinds[1] = "u32" /\ kinds[2] = "string" /\ kinds[3] = "string" /\ kinds[4] = "blob"
      BY <1>1
    <3>2. /\ OfKinds(v, kinds) /\ 1 \in 1..Len(kinds) /\ 2 \in 1..Len(kinds)
          /\ 3 \in 1..Len(kinds) /\ 4 \in 1..Len(kinds)
      BY <1>2, <2>1 DEF OfKinds
    <3> QED
      BY <3>1, <3>2, ValueTypes
  <2>3. record \in VariantRecord /\ place \in 1..3 /\ place - 1 = v[1]
    <3>1. record \in VariantRecord
      BY <1>7, <2>2 DEF VariantRecord
    <3>2. v[1] \in Nat /\ v[1] < 3
      BY <1>9, <1>10, <2>2, UnitsFacts DEF Units
    <3> QED
      BY <1>8, <3>1, <3>2
  <2>4. /\ restored' \in Readout
        /\ restored'.variants = [restored.variants EXCEPT ![place] = record]
        /\ restored'.version = restored.version /\ restored'.arguments = restored.arguments
        /\ restored'.plan = restored.plan
        /\ Metadata(restored', restored'.version) = Metadata(restored, restored.version)
    BY <1>5, <1>9, <1>10, <2>3, VariantReplaced
  <2>5. PICK fields : fields = Variant(restored', place)
    OBVIOUS
  <2>6. Paired(kinds, v) = fields
    <3>1. DOMAIN v = 1..4
      BY <2>1, LenProperties
    <3>2. restored'.variants[place] = record
      BY <1>5, <2>3, <2>4, ReadoutParts
    <3>3. record.symbol = v[2] /\ record.features = v[3] /\ record.object = v[4]
      BY <1>7
    <3>4. Paired(kinds, v) = <<U32(v[1]), String(v[2]), String(v[3]), Blob(v[4])>>
      BY <1>1, <3>1 DEF Paired, U32, String, Blob
    <3> QED
      BY <2>3, <2>5, <3>2, <3>3, <3>4 DEF Variant
  <2>7. PICK variants : variants = VariantsWritten(restored, seen)
    OBVIOUS
  <2>8. VariantsWritten(restored', seen') = variants \o fields
    <3>1. /\ restored.variants \in [1..3 -> VariantRecord]
          /\ restored'.variants \in [1..3 -> VariantRecord]
          /\ AlikeBut(restored, restored', place)
      BY <1>5, <2>3, <2>4, ReadoutParts DEF AlikeBut
    <3>2. place \in 1..3 /\ place \notin Items(seen) /\ seen \in Seq(1..3)
      BY <1>5, <1>9, <1>10, <2>3
    <3>3. PICK c, d : c = restored /\ d = restored'
      OBVIOUS
    <3>4. /\ c.variants \in [1..3 -> VariantRecord] /\ d.variants \in [1..3 -> VariantRecord]
          /\ AlikeBut(c, d, place)
      BY <3>1, <3>3
    <3>5. VariantsWritten(d, Append(seen, place))
            = VariantsWritten(c, seen) \o Variant(d, place)
      <4>1. PICK o : o = seen
        OBVIOUS
      <4>2. /\ o \in Seq(1..3) /\ place \notin Items(o) /\ place \in 1..3
            /\ c.variants \in [1..3 -> VariantRecord]
            /\ d.variants \in [1..3 -> VariantRecord] /\ AlikeBut(c, d, place)
        BY <3>2, <3>4, <4>1
      <4>3. VariantFollows(c, o, d, place)
        BY <4>2, VariantsAppended
      <4> QED
        BY <4>1, <4>3 DEF VariantFollows
    <3> QED
      BY <1>9, <1>10, <2>5, <2>7, <3>3, <3>5
  <2>9. Taken(file.payload, 0, (before \o variants) \o fields, read.at)
    BY <1>5, <2>1, <2>6, <2>7, TakenConcat
  <2>10. before \in Seq(Field) /\ variants \in Seq(Field) /\ fields \in Seq(Field)
    <3>1. variants \in Seq(Field)
      BY <1>5, <2>7, ReadoutParts, VariantPieces
    <3>2. fields \in Seq(Field)
      BY <2>3, <2>4, <2>5, ReadoutParts, VariantField
    <3>3. before \in Seq(Field)
      <4>1. restored.version >= 2 => restored.arguments \in Lists(ArgumentRecord)
        BY DEF ReadInv, PlaceInv
      <4>2. PICK m, p, n : /\ m = Metadata(restored, restored.version)
                           /\ p = Plan(restored.plan) /\ n = NumericContract
        OBVIOUS
      <4>3. m \in Seq(Field)
        BY <1>5, <4>1, <4>2, MetadataRead
      <4>4. p \in Seq(Field)
        BY <1>5, <4>2, PlanRead
      <4>5. n \in Seq(Field)
        BY <4>2, NumericFields, LimitedIsField
      <4>6. (m \o p) \o n \in Seq(Field)
        BY <4>3, <4>4, <4>5, ConcatProperties
      <4> QED
        BY <1>4, <4>2, <4>6
    <3> QED
      BY <3>1, <3>2, <3>3
  <2>11. (before \o variants) \o fields = before \o (variants \o fields)
    <3>1. Regroups(before, variants, fields)
      BY <2>10, Regrouped
    <3> QED
      BY <3>1 DEF Regroups
  <2>12. FieldsRead' = before \o (variants \o fields)
    <3>1. FieldsRead' = ((Metadata(restored', restored'.version) \o Plan(restored'.plan))
                           \o NumericContract) \o VariantsWritten(restored', seen')
      BY <1>9, <1>10 DEF FieldsRead
    <3> QED
      BY <1>4, <2>4, <2>8, <3>1
  <2>13. PlaceInv'
    <3>1. seen' \in Seq(1..3) /\ Len(seen') = Len(seen) + 1
      BY <1>5, <1>9, <1>10, <2>3, AppendProperties
    <3>2. /\ left' \in Nat /\ phase' = "variant" => left' > 0 /\ Len(seen') + left' = 3
      <4>1. Len(seen) \in Nat
        BY <1>5, LenProperties
      <4> QED
        BY <1>5, <1>9, <1>10, <3>1, <4>1
    <3>3. restored'.version >= 2 => restored'.arguments \in Lists(ArgumentRecord)
      BY <2>4 DEF ReadInv, PlaceInv
    <3> QED
      BY <1>5, <1>9, <1>10, <2>4, <3>1, <3>2, <3>3 DEF PlaceInv, Before
  <2>14. phase' \notin {"refused", "accepted"}
    BY <1>9, <1>10
  <2> QED
    BY <1>9, <1>10, <2>9, <2>11, <2>12, <2>13, <2>14 DEF ReadInv
<1> QED
  BY <1>10, RefusedKeeps

LEMMA FinishKeeps ==
  ASSUME ReadInv, FinishParse
  PROVE  ReadInv'
<1>1. phase = "contract" /\ Taken(file.payload, 0, FieldsRead, at)
  <2>1. phase = "contract"
    BY DEF FinishParse
  <2> QED
    BY <2>1 DEF ReadInv
<1>2. ASSUME ~Refuse
      PROVE  /\ at = Len(file.payload) /\ ContractValid(restored)
             /\ phase' = "accepted" /\ left' = 0
             /\ UNCHANGED <<compiled, damage, file, at, seen, restored>>
  BY <1>2 DEF FinishParse, Goto
<1>3. ASSUME ~Refuse
      PROVE  ReadInv'
  <2>1. FieldsRead' = FieldsRead
    BY <1>1, <1>2, <1>3 DEF FieldsRead
  <2>2. PlaceInv'
    BY <1>1, <1>2, <1>3 DEF ReadInv, PlaceInv, Before
  <2>3. ContractValid(restored)'
    BY <1>2, <1>3
  <2>4. /\ at' = at /\ file' = file /\ at' = Len(file'.payload)
    BY <1>2, <1>3
  <2> QED
    BY <1>1, <2>1, <2>2, <2>3, <2>4 DEF ReadInv
<1> QED
  BY <1>3, RefusedKeeps

(* At every step of any file, what has been read stands in the file, from  *)
(* its first unit to the last one read, and an accepted artifact fills the *)
(* file and meets the contract.                                            *)
LEMMA ReadInvHolds ==
  FormatSpec => []ReadInv
<1>1. FormatInit => ReadInv
  BY ReadInvStarts
<1>2. ReadInv /\ [FormatNext]_formatVars => ReadInv'
  <2> SUFFICES ASSUME ReadInv, [FormatNext]_formatVars
               PROVE  ReadInv'
    OBVIOUS
  <2>1. CASE ReadHeader
    BY <2>1, HeaderKeeps
  <2>2. CASE ReadOverrides
    BY <2>2, OverridesKeeps
  <2>3. CASE ReadArgumentCount
    BY <2>3, CountKeeps
  <2>4. CASE ReadArgument
    BY <2>4, ArgumentKeeps
  <2>5. CASE ReadAdapter
    BY <2>5, AdapterKeeps
  <2>6. CASE ReadLegacyConvolution
    BY <2>6, LegacyKeeps
  <2>7. CASE ReadPlan
    BY <2>7, PlanKeeps
  <2>8. CASE ReadAllocation
    BY <2>8, AllocationKeeps
  <2>9. CASE ReadNumericContract
    BY <2>9, NumericKeeps
  <2>10. CASE ReadVariant
    BY <2>10, VariantKeeps
  <2>11. CASE FinishParse
    BY <2>11, FinishKeeps
  <2>12. CASE UNCHANGED formatVars
    <3>1. /\ file' = file /\ at' = at /\ phase' = phase /\ left' = left /\ seen' = seen
          /\ restored' = restored
      BY <2>12 DEF formatVars
    <3>2. FieldsRead' = FieldsRead
      BY <3>1 DEF FieldsRead
    <3>3. PlaceInv'
      BY <3>1 DEF ReadInv, PlaceInv
    <3>4. ContractValid(restored)' <=> ContractValid(restored)
      BY <3>1
    <3> QED
      BY <3>1, <3>2, <3>3, <3>4 DEF ReadInv
  <2> QED
    BY <2>1, <2>2, <2>3, <2>4, <2>5, <2>6, <2>7, <2>8, <2>9, <2>10, <2>11, <2>12
    DEF FormatNext
<1> QED
  BY <1>1, <1>2, PTL DEF FormatSpec

(* Of any file that is accepted, every unit was read, and was read in the  *)
(* one way the writer writes it: serialize_artifact gives the file again.  *)
THEOREM NothingUnread ==
  FormatSpec => []AcceptedIsCanonical
<1>1. ReadInv => AcceptedIsCanonical
  <2> SUFFICES ASSUME ReadInv, phase = "accepted"
               PROVE  file.payload = Serialized(restored, restored.version, seen)
    BY DEF AcceptedIsCanonical
  <2>1. PICK units : units = file.payload
    OBVIOUS
  <2>2. units \in Seq(Units) /\ Taken(units, 0, FieldsRead, Len(units))
    BY <2>1 DEF ReadInv, PlaceInv
  <2>3. units = WrittenUnits(FieldsRead)
    BY <2>2, TakenFills
  <2>4. FieldsRead = ((Metadata(restored, restored.version) \o Plan(restored.plan))
                        \o NumericContract) \o VariantsWritten(restored, seen)
    BY DEF FieldsRead
  <2> QED
    BY <2>1, <2>3, <2>4 DEF Serialized, VariantsWritten
<1> QED
  BY <1>1, ReadInvHolds, PTL

(* The greatest of a set of numbers up to a limit.                         *)
LEMMA GreatestNumber ==
  ASSUME NEW T \in SUBSET Nat, T # {}, NEW limit \in Nat, \A e \in T : e <= limit
  PROVE  \E e \in T : \A x \in T : x <= e
<1>1. PICK G : G = {limit - e : e \in T}
  OBVIOUS
<1>2. G \in SUBSET Nat /\ G # {}
  <2>1. \A e \in T : limit - e \in Nat
    <3> SUFFICES ASSUME NEW e \in T
                 PROVE  limit - e \in Nat
      OBVIOUS
    <3>1. e \in Nat /\ e <= limit
      OBVIOUS
    <3> QED
      BY <3>1
  <2>2. PICK e : e \in T
    OBVIOUS
  <2>3. limit - e \in G
    BY <1>1, <2>2
  <2> QED
    BY <1>1, <2>1, <2>3
<1>3. IsWellFoundedOn(OpToRel(<, Nat), Nat)
  BY NatLessThanWellFounded, Zenon
<1>4. PICK n \in G : \A m \in G : ~ (<<m, n>> \in OpToRel(<, Nat))
  BY <1>2, <1>3, WFMin, Zenon
<1>5. \A m \in G : ~ (m < n)
  BY <1>2, <1>4 DEF OpToRel
<1>6. PICK e \in T : n = limit - e
  BY <1>1
<1>7. \A x \in T : x <= e
  <2> SUFFICES ASSUME NEW x \in T
               PROVE  x <= e
    OBVIOUS
  <2>1. limit - x \in G
    BY <1>1
  <2>2. ~(limit - x < limit - e)
    BY <1>5, <1>6, <2>1
  <2> QED
    BY <2>2
<1> QED
  BY <1>7

(* An allocation that passes the checks ends where its numbers say, whole  *)
(* in the workspace.                                                       *)
LEMMA AllocationInside ==
  ASSUME NEW plan \in PlanRecord, NEW a \in AllocationRecord, AllocationValid(plan, a)
  PROVE  /\ End(a) = a.offset + a.size /\ a.offset + a.size <= plan.size
         /\ a.offset \in Nat /\ a.size \in Nat /\ a.size > 0
<1>1. a.offset \in Nat /\ a.size \in Nat /\ a.offset <= MaxU64
  BY UnitsFacts DEF AllocationRecord, Unsigned
<1>2. a.size # 0 /\ a.size <= MaxU64 - a.offset /\ End(a) <= plan.size
  BY DEF AllocationValid, EndFits
<1>3. PICK sum : sum = a.offset + a.size
  OBVIOUS
<1>4. sum \in Nat /\ sum < MaxU64 + 1 /\ MaxU64 + 1 \in Nat /\ MaxU64 + 1 > 0
  BY <1>1, <1>2, <1>3, UnitsFacts
<1>5. sum % (MaxU64 + 1) = sum
  BY <1>4
<1>6. End(a) = sum
  BY <1>3, <1>5 DEF End
<1> QED
  BY <1>1, <1>2, <1>3, <1>6

LEMMA AllocationsOf ==
  ASSUME NEW plan \in PlanRecord, PlanValid(plan)
  PROVE  /\ plan.size \in Nat
         /\ plan.allocations \in Seq(AllocationRecord)
         /\ \A k \in 1..Len(plan.allocations) :
              /\ plan.allocations[k] \in AllocationRecord
              /\ AllocationValid(plan, plan.allocations[k])
         /\ \A k \in 1..Len(plan.allocations) : \A j \in 1..(k - 1) :
              ~(/\ LiveTogether(plan.allocations[j], plan.allocations[k])
                /\ ShareBytes(plan.allocations[j], plan.allocations[k]))
         /\ plan.size = 0 <=> Len(plan.allocations) = 0
         /\ plan.size = RoundUp(HighWatermark(plan), kWorkspaceAlignment)
<1>1. plan.size \in Nat /\ plan.allocations \in Seq(AllocationRecord)
  BY UnitsFacts DEF PlanRecord, Lists, Unsigned
<1>2. \A k \in 1..Len(plan.allocations) : plan.allocations[k] \in AllocationRecord
  BY <1>1, ElementOfSeq
<1> QED
  BY <1>1, <1>2 DEF PlanValid

LEMMA PlanIsSound ==
  ASSUME NEW plan \in PlanRecord, PlanValid(plan)
  PROVE  /\ \A a, b \in Items(plan.allocations) :
              a # b /\ a.start..a.end \cap b.start..b.end # {} =>
                (a.offset..(a.offset + a.size - 1)) \cap (b.offset..(b.offset + b.size - 1)) = {}
         /\ \A a \in Items(plan.allocations) :
              a.offset..(a.offset + a.size - 1) \subseteq 0..(plan.size - 1)
         /\ plan.size > 0 =>
              \E a \in Items(plan.allocations) :
                a.offset + a.size > plan.size - kWorkspaceAlignment
<1>1. PICK list : list = plan.allocations
  OBVIOUS
<1>2. /\ plan.size \in Nat /\ list \in Seq(AllocationRecord) /\ Len(list) \in Nat
      /\ \A k \in 1..Len(list) : list[k] \in AllocationRecord /\ AllocationValid(plan, list[k])
      /\ \A k \in 1..Len(list) : \A j \in 1..(k - 1) :
           ~(LiveTogether(list[j], list[k]) /\ ShareBytes(list[j], list[k]))
      /\ plan.size = 0 <=> Len(list) = 0
      /\ plan.size = RoundUp(HighWatermark(plan), kWorkspaceAlignment)
  BY <1>1, AllocationsOf, LenProperties
<1>3. \A k \in 1..Len(list) :
        /\ End(list[k]) = list[k].offset + list[k].size
        /\ list[k].offset + list[k].size <= plan.size
        /\ list[k].offset \in Nat /\ list[k].size \in Nat /\ list[k].size > 0
  BY <1>2, AllocationInside
<1>4. ASSUME NEW j \in 1..Len(list), NEW k \in 1..Len(list), j < k,
             list[j].start..list[j].end \cap list[k].start..list[k].end # {}
      PROVE  (list[j].offset..(list[j].offset + list[j].size - 1))
               \cap (list[k].offset..(list[k].offset + list[k].size - 1)) = {}
  <2>1. j \in 1..(k - 1)
    BY <1>2, <1>4
  <2>2. PICK a, b : a = list[j] /\ b = list[k]
    OBVIOUS
  <2>3. /\ a.start \in Nat /\ a.end \in Nat /\ b.start \in Nat /\ b.end \in Nat
    <3>1. a \in AllocationRecord /\ b \in AllocationRecord
      BY <1>2, <2>2
    <3> QED
      BY <3>1, UnitsFacts DEF AllocationRecord, Unsigned
  <2>4. LiveTogether(a, b)
    <3>1. PICK x \in a.start..a.end : x \in b.start..b.end
      BY <1>4, <2>2
    <3> QED
      BY <2>3, <3>1 DEF LiveTogether
  <2>5. ~ShareBytes(a, b)
    BY <1>2, <2>1, <2>2, <2>4
  <2>6. /\ End(a) = a.offset + a.size /\ End(b) = b.offset + b.size
        /\ a.offset \in Nat /\ a.size \in Nat /\ b.offset \in Nat /\ b.size \in Nat
    BY <1>3, <2>2
  <2>7. ~ (a.offset < b.offset + b.size /\ b.offset < a.offset + a.size)
    BY <2>5, <2>6 DEF ShareBytes
  <2>8. (a.offset..(a.offset + a.size - 1)) \cap (b.offset..(b.offset + b.size - 1)) = {}
    <3>1. PICK m, n, p, q : m = a.offset /\ n = b.offset /\ p = a.size /\ q = b.size
      OBVIOUS
    <3>2. m \in Nat /\ n \in Nat /\ p \in Nat /\ q \in Nat /\ ~ (m < n + q /\ n < m + p)
      BY <2>6, <2>7, <3>1
    <3>3. \A x \in m..(m + p - 1) : x \notin n..(n + q - 1)
      BY <3>2
    <3> QED
      BY <3>1, <3>3
  <2> QED
    BY <2>2, <2>8
<1>5. ASSUME NEW a \in Items(list), NEW b \in Items(list), a # b,
             a.start..a.end \cap b.start..b.end # {}
      PROVE  (a.offset..(a.offset + a.size - 1)) \cap (b.offset..(b.offset + b.size - 1)) = {}
  <2>1. PICK j \in 1..Len(list) : a = list[j]
    BY DEF Items
  <2>2. PICK k \in 1..Len(list) : b = list[k]
    BY DEF Items
  <2>3. CASE j < k
    BY <1>4, <1>5, <2>1, <2>2, <2>3
  <2>4. CASE k < j
    <3>1. list[k].start..list[k].end \cap list[j].start..list[j].end # {}
      BY <1>5, <2>1, <2>2
    <3>2. (list[k].offset..(list[k].offset + list[k].size - 1))
            \cap (list[j].offset..(list[j].offset + list[j].size - 1)) = {}
      BY <1>4, <2>4, <3>1
    <3> QED
      BY <2>1, <2>2, <3>2
  <2>5. j # k
    BY <1>5, <2>1, <2>2
  <2> QED
    BY <1>2, <2>3, <2>4, <2>5
<1>6. ASSUME NEW a \in Items(list)
      PROVE  a.offset..(a.offset + a.size - 1) \subseteq 0..(plan.size - 1)
  <2>1. PICK k \in 1..Len(list) : a = list[k]
    BY DEF Items
  <2>2. a.offset + a.size <= plan.size /\ a.offset \in Nat /\ a.size \in Nat
    BY <1>3, <2>1
  <2> QED
    BY <1>2, <2>2
<1>7. ASSUME plan.size > 0
      PROVE  \E a \in Items(list) : a.offset + a.size > plan.size - kWorkspaceAlignment
  <2>1. PICK ends : ends = {End(a) : a \in Items(list)}
    OBVIOUS
  <2>2. /\ ends \in SUBSET Nat /\ \A e \in ends : e <= plan.size
    BY <1>3, <2>1 DEF Items
  <2>3. ends # {}
    <3>1. 1 \in 1..Len(list)
      BY <1>2, <1>7
    <3>2. list[1] \in Items(list)
      BY <3>1 DEF Items
    <3> QED
      BY <2>1, <3>2
  <2>4. PICK high : high = HighWatermark(plan)
    OBVIOUS
  <2>5. high = CHOOSE e \in ends : \A x \in ends : x <= e
    BY <1>1, <2>1, <2>3, <2>4 DEF HighWatermark
  <2>6. \E e \in ends : \A x \in ends : x <= e
    BY <1>2, <2>2, <2>3, GreatestNumber
  <2>7. high \in ends
    BY <2>5, <2>6
  <2>8. PICK a \in Items(list) : high = End(a)
    BY <2>1, <2>7
  <2>9. PICK k \in 1..Len(list) : a = list[k]
    BY DEF Items
  <2>10. high = a.offset + a.size /\ high \in Nat
    BY <1>3, <2>8, <2>9
  <2>11. plan.size = ((high + 63) \div 64) * 64
    <3>1. plan.size = ((high + 64 - 1) \div 64) * 64
      BY <1>2, <2>4 DEF RoundUp, kWorkspaceAlignment
    <3>2. high + 64 - 1 = high + 63
      BY <2>10
    <3> QED
      BY <3>1, <3>2
  <2>12. plan.size <= high + 63
    BY <2>10, <2>11
  <2>13. high > plan.size - kWorkspaceAlignment
    BY <1>2, <2>10, <2>12 DEF kWorkspaceAlignment
  <2> QED
    BY <2>10, <2>13
<1> QED
  BY <1>1, <1>5, <1>6, <1>7

(* Whatever file is accepted, its plan keeps allocations that live at one  *)
(* time apart and inside the workspace the caller is asked for: the checks *)
(* of validate_contract, made in 64 bits, decide this in true arithmetic.  *)
THEOREM RestoredPlanIsSound ==
  FormatSpec => []AcceptedPlanIsSound
<1>1. ReadInv => AcceptedPlanIsSound
  <2> SUFFICES ASSUME ReadInv, phase = "accepted"
               PROVE  AcceptedPlanIsSound
    BY DEF AcceptedPlanIsSound
  <2>1. PICK plan : plan = restored.plan
    OBVIOUS
  <2>2. plan \in PlanRecord
    BY <2>1, ReadoutParts DEF ReadInv, PlaceInv
  <2>3. PlanValid(plan)
    BY <2>1 DEF ReadInv, ContractValid
  <2>4. /\ \A a, b \in Items(plan.allocations) :
             a # b /\ a.start..a.end \cap b.start..b.end # {} =>
               (a.offset..(a.offset + a.size - 1)) \cap (b.offset..(b.offset + b.size - 1)) = {}
        /\ \A a \in Items(plan.allocations) :
             a.offset..(a.offset + a.size - 1) \subseteq 0..(plan.size - 1)
        /\ plan.size > 0 =>
             \E a \in Items(plan.allocations) :
               a.offset + a.size > plan.size - kWorkspaceAlignment
    BY <2>2, <2>3, PlanIsSound
  <2>5. UNION {a.offset..(a.offset + a.size - 1) : a \in Items(plan.allocations)}
          \subseteq 0..(plan.size - 1)
    BY <2>4
  <2> QED
    BY <2>1, <2>4, <2>5 DEF AcceptedPlanIsSound
<1> QED
  BY <1>1, ReadInvHolds, PTL
=============================================================================
