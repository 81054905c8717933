---------------------------- MODULE TensorLayout ----------------------------
(***************************************************************************)
(* Strided tensors: which elements a shape has, where a layout puts them,  *)
(* and how much storage that takes.  A shape and its strides are sequences *)
(* with one entry for each axis; indices count from zero, axes from one.   *)
(***************************************************************************)
EXTENDS Integers, Sequences, FiniteSets

CONSTANT MaxU64   (* largest value of std::uint64_t, a power of two less 1 *)

ASSUME MaxU64Assumption == MaxU64 \in Nat /\ MaxU64 > 16

MaxI64 == MaxU64 \div 2

(* Bits of an element in storage, of the types in the order of DataType.   *)
DataTypes ==
  <<"FLOAT", "DOUBLE", "HALF", "INT8", "INT32", "INT8x4", "UINT8", "UINT8x4",
    "INT8x32", "BFLOAT16", "INT64", "BOOLEAN", "FP8_E4M3", "FP8_E5M2",
    "FAST_FLOAT_FOR_FP8", "FP8_E8M0", "FP4_E2M1", "INT4", "COMPLEX_FP32",
    "COMPLEX_FP64">>

StorageBits ==
  LET bits == <<32, 64, 16, 8, 32, 32, 8, 32, 256, 16, 64, 8, 8, 8, 32, 8, 4, 4,
                64, 128>>
  IN [type \in {DataTypes[k] : k \in 1..20} |->
        bits[CHOOSE k \in 1..20 : DataTypes[k] = type]]

Axes(dims) == 1..Len(dims)

Dot(x, y) ==
  LET sum[n \in 0..Len(x)] ==
        IF n = 0 THEN 0 ELSE sum[n - 1] + x[n] * y[n]
  IN sum[Len(x)]

(* Product of the extents of the axes after axis a.                        *)
ElementsBehind(dims, a) ==
  LET product[n \in a..Len(dims)] ==
        IF n = Len(dims) THEN 1 ELSE dims[n + 1] * product[n + 1]
  IN product[a]

ElementCount(dims) == ElementsBehind(dims, 0)

(* The count, when no intermediate product leaves std::uint64_t.           *)
ElementCountFits(dims) ==
  /\ \A a \in Axes(dims) : dims[a] > 0
  /\ ElementCount(dims) <= MaxU64

(* Sequences that take one entry from each set of a sequence of sets.      *)
Box(sets) ==
  LET box[n \in 0..Len(sets)] ==
        IF n = 0 THEN {<<>>}
        ELSE {Append(i, x) : i \in box[n - 1], x \in sets[n]}
  IN box[Len(sets)]

Indices(dims) == Box([a \in Axes(dims) |-> 0..(dims[a] - 1)])

PackedStrides(dims) == [a \in Axes(dims) |-> ElementsBehind(dims, a)]

(* Position of an element in row-major order, and the element there.       *)
Linear(i, dims) == Dot(i, PackedStrides(dims))
Delinear(l, dims) ==
  [a \in Axes(dims) |-> (l \div ElementsBehind(dims, a)) % dims[a]]

(***************************************************************************)
(* Storage.  One slot holds one element.                                   *)
(***************************************************************************)
StorageSlots(dims, strides) ==
  1 + Dot([a \in Axes(dims) |-> dims[a] - 1], strides)

HasStorage(type, dims, strides) ==
  /\ dims # <<>>
  /\ Len(dims) = Len(strides)
  /\ \A a \in Axes(dims) : dims[a] > 0 /\ strides[a] > 0
  /\ StorageSlots(dims, strides) <= MaxU64
  /\ StorageSlots(dims, strides) * StorageBits[type] <= MaxU64 - 7

StorageBytes(type, dims, strides) ==
  (StorageSlots(dims, strides) * StorageBits[type] + 7) \div 8

(* The axes longer than one, taken by growing stride: each must step over  *)
(* all that the ones before it span.                                       *)
NonOverlapping(dims, strides) ==
  LET Long == {a \in Axes(dims) : dims[a] > 1}
      Span(S) == 1 + Dot([a \in Axes(dims) |->
                            IF a \in S THEN dims[a] - 1 ELSE 0], strides)
  IN /\ Len(dims) = Len(strides)
     /\ \A a \in Axes(dims) : dims[a] > 0 /\ strides[a] > 0
     /\ \A a \in Long :
          strides[a] >= Span({b \in Long \ {a} : strides[b] <= strides[a]})
     /\ Span(Long) <= MaxU64

CanRoundUp(value, multiple) == value > 0 /\ value <= MaxI64 - (multiple - 1)
RoundUp(value, multiple) == ((value + multiple - 1) \div multiple) * multiple

(***************************************************************************)
(* F8_128x4: blocks of 128 rows by 4 columns, 512 bytes each, in which row *)
(* r and column c are byte (r % 32) * 16 + (r \div 32) * 4 + c.            *)
(***************************************************************************)
(* The pair of row axis and column axis of a reordered tensor, tried in    *)
(* this order; the empty sequence when neither order fits.                 *)
ReorderedAxes(dims, strides) ==
  LET rank == Len(dims)
      Packed(m, k) ==
        /\ dims[m] % 128 = 0 /\ dims[k] % 4 = 0
        /\ strides[k] = 1 /\ strides[m] = dims[k]
        /\ ElementCount(dims) <= MaxI64
        /\ \A a \in 1..(rank - 2) : strides[a] = ElementsBehind(dims, a)
  IN IF rank < 2 \/ Len(strides) # rank THEN <<>>
     ELSE IF Packed(rank - 1, rank) THEN <<rank - 1, rank>>
     ELSE IF Packed(rank, rank - 1) THEN <<rank, rank - 1>>
     ELSE <<>>

(* Byte of element i of a tensor with these runtime extents.               *)
ReorderedOffset(i, dims, axes) ==
  LET m == i[axes[1]]
      k == i[axes[2]]
      batch == Linear(SubSeq(i, 1, Len(i) - 2), SubSeq(dims, 1, Len(i) - 2))
      block == (batch * (dims[axes[1]] \div 128) + (m \div 128))
                 * (dims[axes[2]] \div 4) + (k \div 4)
  IN block * 512 + (m % 32) * 16 + ((m \div 32) % 4) * 4 + (k % 4)
=============================================================================
