----------------------------- MODULE LowPrecision -----------------------------
(***************************************************************************)
(* The 8-bit and 4-bit number formats of lib/Compiler/Numeric.cpp: what a  *)
(* code stands for, the search that encodes a number, and how tensors of   *)
(* these types are loaded and stored.                                      *)
(*                                                                         *)
(* Differences are exact in f32 too, by Sterbenz, wherever they decide     *)
(* which code the search keeps.                                            *)
(***************************************************************************)
EXTENDS TensorLayout, Fractions

CONSTANT ExponentBits   (* of each format: 4, 5, 8 and 2 in the code       *)

Formats == {"FP8_E4M3", "FP8_E5M2", "FP8_E8M0", "FP4_E2M1"}

(* The least power of two that is no smaller, of a positive number.        *)
CeilingPower(v) ==
  LET IsLeast(k) == ~ Larger(v, PowerOfTwo(k)) /\ Larger(v, PowerOfTwo(k - 1))
  IN IF v[3] = 0 THEN v
     ELSE IF Larger(v, Number(1)) THEN PowerOfTwo(CHOOSE k \in 1..30 : IsLeast(k))
     ELSE PowerOfTwo(-(CHOOSE k \in 0..30 : IsLeast(-k)))

(***************************************************************************)
(* Formats.                                                                *)
(***************************************************************************)
MantissaBits(type) ==
  CASE type = "FP8_E4M3" -> 3 [] type = "FP8_E5M2" -> 2
    [] type = "FP8_E8M0" -> 0 [] type = "FP4_E2M1" -> 1

(* The code of the sign, which is also that of the negative zero.          *)
SignCode(type) == 2 ^ (ExponentBits[type] + MantissaBits(type))
Codes(type) == 0..((IF type = "FP8_E8M0" THEN 1 ELSE 2) * SignCode(type) - 1)

(* Of a code without its sign.                                             *)
Unsigned(type, low, exponent, mantissa) ==
  LET bias == 2 ^ (ExponentBits[type] - 1) - 1
      significand == IF exponent = 0 THEN mantissa ELSE 2 ^ MantissaBits(type) + mantissa
      power == (IF exponent = 0 THEN 1 ELSE exponent) - bias - MantissaBits(type)
  IN CASE type = "FP8_E8M0" -> IF low = SignCode(type) - 1 THEN NaN ELSE PowerOfTwo(exponent - bias)
       [] type = "FP8_E4M3" /\ low = SignCode(type) - 1 -> NaN
       [] type = "FP8_E5M2" /\ exponent = 2 ^ ExponentBits[type] - 1 ->
            <<1, IF mantissa = 0 THEN 1 ELSE 0, 0>>
       [] OTHER -> Times(Number(significand), PowerOfTwo(power))

DecodeLow(type, low) == Unsigned(type, low, low \div 2 ^ MantissaBits(type), low % 2 ^ MantissaBits(type))
WithSign(negative, v) == IF negative THEN Negated(v) ELSE v
Decode(type, code) == WithSign(code >= SignCode(type), DecodeLow(type, code % SignCode(type)))

(* The candidates of the search, the largest finite number, and NaN.       *)
CandidateCount(type) ==
  IF type = "FP8_E8M0" THEN SignCode(type) - 1 ELSE 2 * SignCode(type)
PositiveMaxCode(type) ==
  CASE type = "FP8_E5M2" -> SignCode(type) - 1 - 2 ^ MantissaBits(type)
    [] type = "FP4_E2M1" -> SignCode(type) - 1
    [] OTHER -> SignCode(type) - 2
CanonicalNaNCode(type) == SignCode(type) - 1
QuantizedMaximum(type) == Decode(type, PositiveMaxCode(type))

CodeIsValid(type, code) ==
  type \in {"FP8_E4M3", "FP8_E5M2"} => code % SignCode(type) <= PositiveMaxCode(type)

(* A candidate replaces the one held when it is nearer, or as near and even. *)
Wins(code, new, held, old) ==
  Larger(old, new) \/ (new = old /\ code % 2 = 0 /\ held % 2 = 1)
Replaces(type, v, code, held) ==
  Wins(code, Distance(v, Decode(type, code)), held, Distance(v, Decode(type, held)))
Better(type, v, code, held) ==
  IF CodeIsValid(type, code) /\ (~ CodeIsValid(type, held) \/ Replaces(type, v, code, held))
  THEN code ELSE held

(* All candidates in turn, the order of which is kept in halving them.     *)
NearestCode(type, v) ==
  LET best[range \in Codes(type) \X Codes(type)] ==
        LET middle == (range[1] + range[2]) \div 2
        IN IF range[1] = range[2] THEN range[1]
           ELSE Better(type, v, best[<<middle + 1, range[2]>>], best[<<range[1], middle>>])
  IN best[<<0, CandidateCount(type) - 1>>]

EncodeScale(v) ==
  IF IsNaN(v) THEN CanonicalNaNCode("FP8_E8M0")
  ELSE IF v[1] < 0 \/ IsZero(v) THEN 0
  ELSE IF Larger(v, QuantizedMaximum("FP8_E8M0")) THEN PositiveMaxCode("FP8_E8M0")
  ELSE NearestCode("FP8_E8M0", v)

Encode(type, v) ==
  LET signed == IF v[1] < 0 THEN SignCode(type) ELSE 0
  IN IF type = "FP8_E8M0" THEN EncodeScale(v)
     ELSE IF IsNaN(v) THEN CanonicalNaNCode(type)
     ELSE IF Larger(v, QuantizedMaximum(type)) THEN PositiveMaxCode(type) + signed
     ELSE IF IsZero(v) THEN signed
     ELSE NearestCode(type, v)

(***************************************************************************)
(* Tensors.  The cells of t are numbers, integers or bytes, by its type; a *)
(* tensor is reordered when its blocks are those of F8_128x4.              *)
(***************************************************************************)
IsPacked(type) == type \in {"FP4_E2M1", "INT4"}

CellOf(t, i) ==
  IF t.reordered THEN ReorderedOffset(i, t.dims, ReorderedAxes(t.dims, t.strides))
  ELSE IF IsPacked(t.type) THEN Dot(i, t.strides) \div 2
  ELSE Dot(i, t.strides)

Cells(t) ==
  IF t.reordered THEN 0..(ElementCount(t.dims) - 1)
  ELSE IF IsPacked(t.type) THEN 0..((StorageSlots(t.dims, t.strides) + 1) \div 2 - 1)
  ELSE 0..(StorageSlots(t.dims, t.strides) - 1)

IsHigh(t, i) == Dot(i, t.strides) % 2 = 1
PackedCode(t, i, byte) == IF IsHigh(t, i) THEN byte \div 16 ELSE byte % 16
WithCode(t, i, byte, code) ==
  IF IsHigh(t, i) THEN (byte % 16) + 16 * code ELSE (byte \div 16) * 16 + code

(* What element i has in its cell: a code, an integer or a number.         *)
Held(t, cells, i) ==
  IF IsPacked(t.type) THEN PackedCode(t, i, cells[CellOf(t, i)]) ELSE cells[CellOf(t, i)]

(* What is held stands for a number.                                       *)
ValueOf(type, x) ==
  CASE type = "INT4" -> Number(IF x >= 8 THEN x - 16 ELSE x)
    [] type \in Formats -> Decode(type, x)
    [] OTHER -> x
LoadAsF32(t, cells, i) == ValueOf(t.type, Held(t, cells, i))

(* What the cell of element i holds after v is stored there.               *)
StoredFromF32(t, cells, i, v) ==
  CASE t.type = "FP4_E2M1" -> WithCode(t, i, cells[CellOf(t, i)], Encode(t.type, v))
    [] t.type \in Formats \ {"FP4_E2M1"} -> Encode(t.type, v)
    [] OTHER -> v
=============================================================================
