------------------------------ MODULE Fractions ------------------------------
(***************************************************************************)
(* The numbers of the kernels.  A number is <<sign, n, d>>, the fraction   *)
(* n / d in lowest terms with a sign of 1 or -1, so that both zeros are    *)
(* there; n / 0 is an infinity and 0 / 0 is NaN, which is what fractions   *)
(* make of them.  Arithmetic is exact, where that of f32 rounds.           *)
(***************************************************************************)
EXTENDS Integers, Functions

Gcd(x, y) ==
  LET gcd[p \in Nat \X Nat] == IF p[2] = 0 THEN p[1] ELSE gcd[<<p[2], p[1] % p[2]>>]
  IN gcd[<<x, y>>]

Lowest(sign, n, d, g) == <<sign, n \div g, d \div g>>
Fraction(sign, n, d) == IF n = 0 /\ d = 0 THEN <<1, 0, 0>> ELSE Lowest(sign, n, d, Gcd(n, d))

Number(n) == IF n < 0 THEN <<-1, -n, 1>> ELSE <<1, n, 1>>
PowerOfTwo(k) == IF k < 0 THEN <<1, 1, 2 ^ (-k)>> ELSE <<1, 2 ^ k, 1>>
NaN == <<1, 0, 0>>

IsNaN(v) == v = NaN
IsZero(v) == v[2] = 0 /\ v[3] # 0
Negated(v) == IF IsNaN(v) THEN v ELSE <<-v[1], v[2], v[3]>>
Magnitude(v) == <<1, v[2], v[3]>>

(* Over the least common denominator, for 32-bit integers.                 *)
Quotient(n, d) == Fraction(IF n < 0 THEN -1 ELSE 1, IF n < 0 THEN -n ELSE n, d)
PlusOver(v, w, g) ==
  Quotient(v[1] * v[2] * (w[3] \div g) + w[1] * w[2] * (v[3] \div g), (v[3] \div g) * w[3])
Plus(v, w) ==
  IF v[3] = 0 /\ w[3] = 0 THEN (IF v = w THEN v ELSE NaN) ELSE PlusOver(v, w, Gcd(v[3], w[3]))
Times(v, w) == Fraction(v[1] * w[1], v[2] * w[2], v[3] * w[3])
Over(v, w) == Fraction(v[1] * w[1], v[2] * w[3], v[3] * w[2])
Distance(v, w) == Magnitude(Plus(v, Negated(w)))

(* Of magnitudes; no number is larger or smaller than NaN.                 *)
LargerOver(v, w, g) == v[2] * (w[3] \div g) > w[2] * (v[3] \div g)
Larger(v, w) == LargerOver(v, w, IF v[3] = 0 /\ w[3] = 0 THEN 1 ELSE Gcd(v[3], w[3]))
Maximum(v, w) == IF IsNaN(v) \/ IsNaN(w) THEN NaN ELSE IF Larger(w, v) THEN w ELSE v

Total(f) == FoldFunction(Plus, Number(0), f)

(* Of a fraction of squares.                                               *)
SquareRoot(v) ==
  LET Root(n) == CHOOSE r \in 0..n : r * r = n IN <<1, Root(v[2]), Root(v[3])>>
=============================================================================
