-------------------------- MODULE MCShapeOverride --------------------------
EXTENDS ShapeOverride

Tensor(dims, strides) ==
  [dims |-> dims, strides |-> strides, type |-> "FLOAT", virtual |-> FALSE,
   plain |-> TRUE, reordering |-> "NONE"]
Dense(dims) == Tensor(dims, PackedStrides(dims))
Virtual(t) == [t EXCEPT !.virtual = TRUE]
Typed(t, type) == [t EXCEPT !.type = type]
Scales(dims, strides) ==
  [Tensor(dims, strides) EXCEPT !.type = "FP8_E4M3", !.reordering = "F8_128x4"]

Op(tag, mode, in, out, axes) ==
  [tag |-> tag, mode |-> mode, in |-> in, out |-> out, axes |-> axes,
   causal |-> FALSE, supported |-> TRUE]
Dynamic(tensors, nodes) ==
  [overrideEnabled |-> TRUE, tensors |-> tensors, nodes |-> nodes]
Fixed(tensors, nodes) ==
  [overrideEnabled |-> FALSE, tensors |-> tensors, nodes |-> nodes]

(* Two element-wise operations around a virtual tensor; the output has the *)
(* least uid, so it is where the virtual tensor's extents come from.       *)
Pointwise ==
  Dynamic(<<Tensor(<<2, 2>>, <<3, 1>>), Dense(<<2, 2>>), Tensor(<<2, 2>>, <<1, 2>>),
            Virtual(Tensor(<<2, 2>>, <<1, 3>>))>>,
          <<Op("POINTWISE", "ADD", <<2, 3>>, <<4>>, <<>>),
            Op("POINTWISE", "DIV", <<4, 2>>, <<1>>, <<>>)>>)

Matmul == Dynamic(<<Dense(<<2, 2, 2>>), Dense(<<2, 2, 1>>), Dense(<<2, 2, 1>>)>>,
                  <<Op("MATMUL", "", <<1, 2>>, <<3>>, <<>>)>>)
Reshape == Dynamic(<<Tensor(<<4, 2>>, <<3, 1>>), Dense(<<2, 2, 2>>)>>,
                   <<Op("RESHAPE", "", <<1>>, <<2>>, <<>>)>>)
Transpose == Dynamic(<<Dense(<<2, 3, 2>>), Tensor(<<2, 2, 3>>, <<6, 3, 1>>)>>,
                     <<Op("TRANSPOSE", "", <<1>>, <<2>>, <<3, 1, 2>>)>>)
Concatenate == Dynamic(<<Dense(<<2, 4>>), Dense(<<2, 2>>), Dense(<<2, 1>>), Dense(<<2, 1>>)>>,
                       <<Op("CONCATENATE", "", <<2, 3, 4>>, <<1>>, <<2>>)>>)
Reduction(mode) ==
  Dynamic(<<Dense(<<2, 3, 1>>), Dense(<<2, 1, 1>>)>>,
          <<Op("REDUCTION", mode, <<1>>, <<2>>, <<>>)>>)
(* No axis is reduced.                                                     *)
Retained(mode) ==
  Dynamic(<<Dense(<<2, 1>>), Dense(<<2, 1>>)>>,
          <<Op("REDUCTION", mode, <<1>>, <<2>>, <<>>)>>)

(* Two query heads share a key head; O, then a row output.                 *)
Attention(causal) ==
  Dynamic(<<Dense(<<1, 2, 2, 1>>), Dense(<<1, 1, 2, 1>>), Dense(<<1, 2, 2, 2>>),
            Dense(<<1, 2, 2, 2>>), Dense(<<1, 2, 2, 1>>)>>,
          <<[Op("SDPA", "", <<1, 2, 3>>, <<4, 5>>, <<>>) EXCEPT !.causal = causal]>>)

(* K of 80 takes two blocks of scale columns, K of 64 takes one.           *)
BlockScale ==
  Dynamic(<<Typed(Dense(<<1, 2, 80>>), "FP4_E2M1"), Scales(<<1, 128, 8>>, <<1024, 8, 1>>),
            Typed(Tensor(<<1, 80, 1>>, <<80, 1, 80>>), "FP4_E2M1"),
            Scales(<<1, 8, 128>>, <<1024, 1, 8>>), Typed(Dense(<<1, 2, 1>>), "BFLOAT16"),
            Virtual(Dense(<<1, 2, 80>>)), Virtual(Tensor(<<1, 80, 1>>, <<80, 1, 80>>))>>,
          <<Op("DEQUANTIZE", "", <<1, 2>>, <<6>>, <<1, 16>>),
            Op("DEQUANTIZE", "", <<3, 4>>, <<7>>, <<16, 1>>),
            Op("MATMUL", "", <<6, 7>>, <<5>>, <<>>)>>)

(* Fixed shapes: one operand is broadcast, the virtual tensor is padded.   *)
Static ==
  Fixed(<<Dense(<<2, 2>>), Dense(<<2>>), Virtual(Tensor(<<2, 2>>, <<4, 2>>)), Dense(<<2, 1>>)>>,
        <<Op("POINTWISE", "MAX", <<1, 2>>, <<3>>, <<>>),
          Op("REDUCTION", "NORM2", <<3>>, <<4>>, <<>>)>>)

(* Graphs that do not compile.                                             *)
Ineligible ==
  LET one == Dense(<<2, 2>>)
      sum == Op("POINTWISE", "ADD", <<1, 2>>, <<3>>, <<>>)
  IN {Dynamic(<<one, Dense(<<2>>), one>>, <<sum>>),
      Dynamic(<<one, one, one, one>>, <<sum, Op("POINTWISE", "NEG", <<1>>, <<4>>, <<>>)>>),
      Dynamic(<<one, one, Tensor(<<2, 2>>, <<1, 1>>)>>, <<sum>>),
      Dynamic(<<one, one, [one EXCEPT !.plain = FALSE]>>, <<sum>>),
      Dynamic(<<one, Virtual(one), one>>,
              <<Op("TRANSPOSE", "", <<1>>, <<2>>, <<2, 1>>),
                Op("POINTWISE", "NEG", <<2>>, <<3>>, <<>>)>>),
      Dynamic(<<one, Dense(<<4>>)>>, <<Op("CONCATENATE", "", <<1, 1>>, <<2>>, <<1>>)>>),
      Fixed(<<one, one>>, <<Op("POINTWISE", "ADD", <<1, 2>>, <<2>>, <<>>)>>),
      Fixed(<<one, Typed(one, "BFLOAT16")>>, <<Op("POINTWISE", "NEG", <<1>>, <<2>>, <<>>)>>),
      [BlockScale EXCEPT !.nodes[1].axes = <<1, 32>>],
      [BlockScale EXCEPT !.nodes[3].in = <<7, 6>>],
      [Matmul EXCEPT !.nodes[1].supported = FALSE],
      [Attention(TRUE) EXCEPT !.tensors[1].strides = <<4, 2, 1, 2>>]}

MCGraphs ==
  {Pointwise, Matmul, Reshape, Transpose, Concatenate, Reduction("AVG"),
   Reduction("NORM1"), Retained("ADD"), Attention(TRUE), Attention(FALSE),
   BlockScale, Static} \cup Ineligible

(* Strides offered for extents: packed, the reverse, and one axis spread.  *)
Layouts(dims) ==
  LET n == Len(dims)
      reversed == [a \in 1..n |-> IF a = 1 THEN 1
                                  ELSE ElementCount(SubSeq(dims, 1, a - 1))]
  IN {PackedStrides(dims), reversed, [PackedStrides(dims) EXCEPT ![1] = @ + 1]}

Offered(u, shapes) ==
  UNION {{[uid |-> u, dims |-> s, strides |-> l] : l \in Layouts(s)} : s \in shapes}
OfferedPacked(u, shapes) ==
  {[uid |-> u, dims |-> s, strides |-> PackedStrides(s)] : s \in shapes}

Smaller(dims) == Box([a \in Axes(dims) |-> 1..dims[a]])

(* Offers no policy could take: an extent too large, a layout that         *)
(* overlaps, a rank too low, bytes past the largest of std::uint64_t, a    *)
(* uid that is no argument.                                                *)
Misfits ==
  {[uid |-> 1, dims |-> <<3, 1>>, strides |-> <<1, 1>>],
   [uid |-> 1, dims |-> <<2, 2>>, strides |-> <<1, 1>>],
   [uid |-> 1, dims |-> <<2>>, strides |-> <<1>>],
   [uid |-> 1, dims |-> <<2, 1>>, strides |-> <<2048, 1>>],
   [uid |-> 4, dims |-> <<1, 1>>, strides |-> <<1, 1>>]}

ScaledOffers(k) ==
  LET sk == RoundUp(k \div 16, 4)
  IN {[uid |-> 1, dims |-> <<1, m, k>>, strides |-> <<m * k, k, 1>>] : m \in 1..2}
       \cup {[uid |-> 2, dims |-> <<1, 128, sk>>, strides |-> <<128 * sk, sk, 1>>],
             [uid |-> 3, dims |-> <<1, k, 1>>, strides |-> <<k, 1, k>>],
             [uid |-> 4, dims |-> <<1, sk, 128>>, strides |-> <<128 * sk, 1, sk>>],
             [uid |-> 5, dims |-> <<1, 1, 1>>, strides |-> <<1, 1, 1>>]}

MCOffers(g) ==
  LET t == g.tensors
      All(S) == UNION {Offered(u, Smaller(t[u].dims)) : u \in S}
      Packed(S) == UNION {OfferedPacked(u, Smaller(t[u].dims)) : u \in S}
      Lengths(u) == OfferedPacked(u, {[t[u].dims EXCEPT ![3] = s] : s \in 1..2})
  IN IF g = Pointwise THEN All({1, 2, 3}) \cup Misfits
     ELSE IF g = Matmul THEN Packed({1, 2, 3})
     ELSE IF g \in {Reshape, Transpose} THEN All({1, 2})
     ELSE IF g = Concatenate THEN Packed({1, 2, 3, 4})
     ELSE IF g = BlockScale THEN ScaledOffers(64) \cup ScaledOffers(80)
     ELSE IF g \in {Attention(TRUE), Attention(FALSE)}
     THEN UNION {Lengths(u) : u \in 1..5}
     ELSE IF g.overrideEnabled /\ Len(g.nodes) = 1 /\ g.nodes[1].tag = "REDUCTION"
     THEN All({1, 2})
     ELSE Packed({1})

(* A reduction of no axis whose mode does not keep a lone element.         *)
LoneMagnitude == {Retained("NORM1"), Reduction("NORM1")}
=============================================================================
