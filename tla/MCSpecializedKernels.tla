------------------------- MODULE MCSpecializedKernels -------------------------
EXTENDS SpecializedKernels, TLC

MCTensor(type, dims, strides) ==
  [type |-> type, dims |-> dims, strides |-> strides, reordered |-> FALSE, plain |-> TRUE]
Packed(type, dims) == MCTensor(type, dims, PackedStrides(dims))

Node(tag, ports, tensors, contents) ==
  [tag |-> tag, ports |-> ports, tensors |-> tensors, floatCompute |-> TRUE,
   blocks |-> <<>>, block |-> 2, axis |-> {}, mode |-> "NONE", topK |-> 0, contents |-> contents]

(* Values in row-major order.                                              *)
Rows(dims, values) == [i \in Indices(dims) |-> values[(Linear(i, dims) % Len(values)) + 1]]

(***************************************************************************)
(* Quantization.                                                           *)
(***************************************************************************)
Quantize(x, y, values) ==
  LET scale == IF y.type = "FP4_E2M1" THEN "FP8_E4M3" ELSE "FP8_E8M0"
  IN Node("BLOCK_SCALE_QUANTIZE", [X |-> 1, Y |-> 2, scale |-> 3],
          <<x, y, Packed(scale, [x.dims EXCEPT ![Len(x.dims)] = @ \div 2])>>,
          [X |-> Rows(x.dims, values)])

Half(n) == Fraction(IF n < 0 THEN -1 ELSE 1, IF n < 0 THEN -n ELSE n, 2)
(* Between codes, on them, and just beside the middle of two.              *)
Eighths == {<<Number(4), Fraction(1, n, 8)>> : n \in 0..8}
Steep ==
  {<<Number(448), Number(n)>> : n \in {1, 17, 18, 19, 38, 39, 40, 41, 216, 232, 248, -17, -38}}
Odd ==
  {<<Number(1), Number(2)>>, <<Number(-4), Number(8)>>, <<Number(0), Number(0)>>,
   <<Number(0), <<-1, 0, 1>>>>, <<<<1, 1, 0>>, Number(3)>>, <<<<-1, 1, 0>>, Number(-500)>>,
   <<NaN, Number(3)>>, <<Number(2), NaN>>, <<Number(7), Number(449)>>,
   <<Number(-60000), Number(5)>>, <<Fraction(1, 1, 128), Fraction(1, 1, 64)>>,
   <<Number(1), Fraction(-1, 1, 2048)>>, <<Number(1), Fraction(-1, 3, 2048)>>,
   <<Number(3000), Number(1)>>, <<Number(225), Number(-7)>>}
Fours ==
  {<<Number(6), Fraction(1, n, 4)>> : n \in 0..24} \cup
  {<<Number(-6), Fraction(-1, n, 4)>> : n \in {1, 3, 5, 7, 14, 20}}

Line == Packed("FLOAT", <<2>>)
Quantizations ==
  {Quantize(Line, Packed(type, <<2>>), values) :
     type \in {"FP8_E4M3", "FP8_E5M2"}, values \in Steep \cup Odd \cup Eighths}
  \cup {Quantize(Line, Packed("FP4_E2M1", <<2>>), values) : values \in Fours \cup Odd}
  \cup {Quantize(Packed("FLOAT", <<2, 2>>), MCTensor("FP4_E2M1", <<2, 2>>, strides),
                 <<Number(6), Number(-1), Number(3), Number(2)>>) :
          strides \in {<<2, 1>>, <<1, 2>>, <<3, 1>>, <<3, 2>>, <<1, 1>>}}
  \cup {[Quantize(Packed("FLOAT", <<2, 2>>), Packed("FP8_E4M3", <<2, 2>>),
                  <<Number(6), Number(-1), Number(300), Number(2)>>)
           EXCEPT !.axis = axis, !.tensors[3].dims = dims] :
          axis \in {{0}, {1}, {2}}, dims \in {<<2, 1>>, <<1, 2>>}}

(* Scales in a block of 128 rows by 4 columns, all but four of them spare. *)
Reordered(t) == [t EXCEPT !.reordered = TRUE, !.plain = FALSE]
ScaleBlock(type) == Reordered(Packed(type, <<128, 4>>))
Spares ==
  {[Quantize(Packed("FLOAT", <<2, 4>>), Packed("FP8_E4M3", <<2, 4>>),
             <<Number(6), Number(-1), Number(300), Number(2), Number(0), Number(1), Number(20), Number(9)>>)
      EXCEPT !.tensors[3] = ScaleBlock("FP8_E8M0")]}

(***************************************************************************)
(* Dequantization.                                                         *)
(***************************************************************************)
Dequantize(x, scale, y, blocks, codes, scales) ==
  [Node("BLOCK_SCALE_DEQUANTIZE", [X |-> 1, scale |-> 2, Y |-> 3], <<x, scale, y>>,
        [X |-> Rows(x.dims, codes), scale |-> Rows(scale.dims, scales)])
     EXCEPT !.blocks = blocks]

Dequantizations ==
  {Dequantize(MCTensor(type, <<2, 4>>, strides), Packed("FLOAT", <<2, 2>>), Packed("FLOAT", <<2, 4>>),
              <<2>>, <<0, 1, 7, 8, 9, 15, 12, 3>>, <<Number(1), Half(-3), Number(5), Number(7)>>) :
     type \in {"INT4", "FP4_E2M1"}, strides \in {<<4, 1>>, <<1, 2>>, <<5, 1>>}}
  \cup {Dequantize(Packed("FP8_E4M3", <<2, 4>>), Packed(type, <<1, 2>>), Packed("FLOAT", <<2, 4>>),
                   <<2, 2>>, <<0, 56, 126, 127, 129, 184, 200, 3>>, <<5, 14>>) :
          type \in {"FP8_E8M0", "FP8_E4M3", "FP8_E5M2"}}
  \cup {Dequantize(Packed("FP8_E5M2", <<2, 2>>), ScaleBlock("FP8_E8M0"), Packed("FLOAT", <<2, 2>>),
                   <<1>>, <<0, 29, 63, 70>>, <<5, 9, 7, 14>>),
        Dequantize(Packed("FP8_E4M3", <<2, 4>>), Packed("FLOAT", <<2, 2>>), Packed("FLOAT", <<2, 4>>),
                   <<3>>, <<0>>, <<Number(1)>>),
        Dequantize(Packed("FP8_E4M3", <<2, 4>>), Packed("FLOAT", <<2, 2>>), Packed("FLOAT", <<2, 4>>),
                   <<1, 2, 2>>, <<0>>, <<Number(1)>>),
        Dequantize(Reordered(Packed("FP8_E4M3", <<128, 4>>)), Packed("FLOAT", <<64, 4>>),
                   Packed("FLOAT", <<128, 4>>), <<2, 1>>, <<0>>, <<Number(1)>>)}

(***************************************************************************)
(* Products.                                                               *)
(***************************************************************************)
Scalar == Packed("FLOAT", <<1, 1, 1>>)
Product(a, b, cType) ==
  Node("MATMUL_FP8",
       [A |-> 1, B |-> 2, C |-> 3, Amax_C |-> 4, Descale_A |-> 5, Descale_B |-> 6, Scale_C |-> 7],
       <<Packed("FP8_E4M3", a), Packed("FP8_E5M2", b), Packed(cType, <<2, a[2], b[3]>>),
         Scalar, Scalar, Scalar, Scalar>>,
       [A |-> Rows(a, <<56, 64, 196, 72, 52, 60, 68, 184>>),
        B |-> Rows(b, <<28, 34, 96, 40, 30, 98, 26, 36>>),
        Descale_A |-> Rows(<<1, 1, 1>>, <<Half(1)>>), Descale_B |-> Rows(<<1, 1, 1>>, <<Number(2)>>),
        Scale_C |-> Rows(<<1, 1, 1>>, <<Number(3)>>)])

WithExtent(c, port, uid, dims, values) ==
  [c EXCEPT !.ports = @ @@ (port :> uid), !.tensors = Append(@, Packed("INT32", dims)),
            !.contents = @ @@ (port :> Rows(dims, values))]

Products ==
  {Product(a, b, type) : a \in {<<2, 2, 2>>, <<1, 2, 2>>}, b \in {<<2, 2, 2>>, <<1, 2, 2>>},
                         type \in {"FLOAT", "FP8_E4M3"}}
  \cup {WithExtent(Product(<<2, 2, 2>>, <<2, 2, 2>>, "FLOAT"), port, 8, dims, values) :
          port \in Extents, dims \in {<<2, 1, 1>>, <<1, 1, 1>>, <<2, 2, 1>>},
          values \in {<<1, 2>>, <<0, 5>>, <<-1, 1>>}}
  \cup {WithExtent(WithExtent(Product(<<2, 2, 2>>, <<1, 2, 2>>, "FLOAT"), "M_override", 8, <<2, 1, 1>>,
                              <<2, 1>>), "K_override", 9, <<1, 1, 1>>, <<1>>)}
  \cup {Product(<<2, 2, 3>>, <<2, 2, 2>>, "FLOAT"), Product(<<2, 2, 2>>, <<3, 2, 2>>, "FLOAT"),
        [Product(<<2, 2, 2>>, <<2, 2, 2>>, "FLOAT") EXCEPT !.tensors[1].type = "FLOAT"],
        [Product(<<2, 2, 2>>, <<2, 2, 2>>, "FLOAT") EXCEPT !.tensors[5] = Packed("FLOAT", <<2, 1, 1>>)],
        [Product(<<2, 2, 2>>, <<2, 2, 2>>, "FLOAT") EXCEPT !.floatCompute = FALSE]}

(***************************************************************************)
(* Experts: four tokens, three experts.                                    *)
(***************************************************************************)
Powers(n, base) == [k \in 1..n |-> Number(base ^ (k - 1))]
OffsetDims == <<3, 1, 1>>
Forward(offsets) ==
  Node("MOE_GROUPED_MATMUL", [Token |-> 1, Weight |-> 2, FirstTokenOffset |-> 3, Output |-> 4],
       <<Packed("FLOAT", <<1, 4, 2>>), Packed("FLOAT", <<3, 2, 1>>), Packed("INT32", OffsetDims),
         MCTensor("FLOAT", <<1, 4, 1>>, <<9, 2, 1>>)>>,
       [Token |-> Rows(<<1, 4, 2>>, Powers(8, 2)), Weight |-> Rows(<<3, 2, 1>>, Powers(6, 3)),
        FirstTokenOffset |-> Rows(OffsetDims, offsets)])
Backward(offsets) ==
  Node("MOE_GROUPED_MATMUL_BWD", [DOutput |-> 1, Token |-> 2, FirstTokenOffset |-> 3, DWeight |-> 4],
       <<Packed("FLOAT", <<1, 4, 1>>), Packed("FLOAT", <<1, 4, 2>>), Packed("INT32", OffsetDims),
         Packed("FLOAT", <<3, 2, 1>>)>>,
       [DOutput |-> Rows(<<1, 4, 1>>, Powers(4, 3)), Token |-> Rows(<<1, 4, 2>>, Powers(8, 2)),
        FirstTokenOffset |-> Rows(OffsetDims, offsets)])

(* Offsets that start at zero and do not decrease, to no token at all.     *)
Offsets == {<<0, m, n>> : m \in 0..4, n \in 0..4}
Experts ==
  {Forward(o) : o \in {x \in Offsets : x[2] <= x[3]}}
  \cup {Backward(o) : o \in {x \in Offsets : x[2] <= x[3]}}
  \cup {[Forward(<<0, 1, 2>>) EXCEPT !.topK = 2], [Forward(<<0, 1, 2>>) EXCEPT !.mode = "GATHER"],
        [Forward(<<0, 1, 2>>) EXCEPT !.tensors[2].type = "HALF"],
        [Forward(<<0, 1, 2>>) EXCEPT !.tensors[3] = Packed("INT32", <<2, 1, 1>>)],
        [Backward(<<0, 1, 2>>) EXCEPT !.tensors[4] = Packed("FLOAT", <<3, 1, 2>>)]}

MCCases == Quantizations \cup Spares \cup Dequantizations \cup Products \cup Experts
=============================================================================
