--------------------------- MODULE MCElementKernels ---------------------------
EXTENDS ElementKernels, TLC

MCFloatMax == Number(1000)
(* Four angles, of two right triangles and the axes.                       *)
MCCosine == <<Number(1), Over(Number(3), Number(5)), Number(0), Over(Number(-4), Number(5))>>
MCSine == <<Number(0), Over(Number(4), Number(5)), Number(1), Over(Number(3), Number(5))>>

Laid(dims, strides) == [type |-> "FLOAT", dims |-> dims, strides |-> strides]
Packed(dims) == Laid(dims, PackedStrides(dims))
Counter == [type |-> "INT64", dims |-> <<1>>, strides |-> <<1>>]

(* What an input holds, over and over.                                     *)
Fill(t, list) == [i \in Indices(t.dims) |-> list[(Linear(i, t.dims) % Len(list)) + 1]]
Case(tag, output, tensors, attributes, lists) ==
  [tag |-> tag, output |-> output, tensors |-> tensors, attributes |-> attributes,
   ports |-> [port \in DOMAIN tensors |-> port],
   contents |-> [uid \in DOMAIN tensors \ {output} |-> Fill(tensors[uid], lists[uid])]]

Numbers(list) == [k \in DOMAIN list |-> Number(list[k])]
Third(n) == Over(Number(n), Number(3))
Half(n) == Over(Number(n), Number(2))
Primes == Numbers(<<2, -3, 5, 7, -11, 13, 17, -19, 23, 29, -31, 37>>)

(***************************************************************************)
(* SLICE.                                                                  *)
(***************************************************************************)
Slicing(x, y, slices, steps) ==
  Case("SLICE", "Y", [X |-> x, Y |-> y], [slices |-> slices, steps |-> steps], [X |-> Primes])
SliceCases ==
  {Slicing(Packed(<<4, 3>>), Packed(<<2, 2>>), <<<<1, 4>>, <<0, 2>>>>, <<2>>),
   Slicing(Packed(<<4, 3>>), Laid(<<1, 2>>, <<9, 3>>), <<<<1, 3>>, <<0, 3>>>>, <<2, 2>>),
   Slicing(Laid(<<4, 3>>, <<1, 5>>), Packed(<<2, 3>>), <<<<0, 4>>, <<0, 3>>>>, <<3, 1>>),
   Slicing(Laid(<<2, 4>>, <<6, 1>>), Laid(<<2, 2>>, <<1, 2>>), <<<<0, 2>>, <<1, 4>>>>, <<1, 2>>),
   Slicing(Packed(<<5>>), Packed(<<1>>), <<<<4, 5>>>>, <<>>)}
Whole == Slicing(Packed(<<2>>), Packed(<<2>>), <<<<0, 2>>>>, <<>>)
RefusedSlices ==
  {Slicing(Packed(<<4>>), Packed(<<n>>), <<bounds>>, steps) :
     n \in {1, 2}, bounds \in {<<-1, 1>>, <<1, 1>>, <<3, 5>>, <<0, 3>>},
     steps \in {<<0>>, <<1, 1>>, <<>>}}
  \cup {Slicing(Packed(<<4>>), Laid(<<2>>, <<strides>>), <<<<0, 2>>>>, <<>>) : strides \in {0, 1}}
  \cup {Slicing(Packed(<<4>>), Packed(<<1, 2>>), <<<<0, 2>>>>, <<>>),
        Slicing(Packed(<<1, 4>>), Packed(<<1, 2>>), <<<<0, 2>>>>, <<>>),
        [Whole EXCEPT !.ports["Y"] = "X"], [Whole EXCEPT !.tensors["Y"].type = "HALF"],
        (* More elements than std::int64_t counts.                          *)
        [Whole EXCEPT !.tensors = [X |-> Packed(<<MaxI64 + 1>>), Y |-> Packed(<<MaxI64 + 1>>)],
                      !.attributes.slices = <<<<0, MaxI64 + 1>>>>]}

(***************************************************************************)
(* POINTWISE.                                                              *)
(***************************************************************************)
Plain(mode) == [mode |-> mode, axis |-> {}, lower |-> {}, upper |-> {}, slope |-> {}]
Pointing(attributes, tensors) ==
  Case("POINTWISE", "OUT_0", tensors, attributes,
       [IN_0 |-> <<Number(3), Half(-7), Number(0), Third(4), Number(-2), Number(1)>>,
        IN_1 |-> <<Number(2), Half(-3), Number(1), Number(3), Number(-2), Number(0)>>,
        IN_2 |-> Numbers(<<0, 1, -1>>)])
Alike(n, t) == [port \in Inputs(n) \cup {"OUT_0"} |-> t]

Clips ==
  {[Plain(mode) EXCEPT !.lower = lower, !.upper = upper, !.slope = slope] :
     mode \in {"RELU_FWD", "RELU_BWD"}, lower \in {{}, {Number(-2)}, {Number(1)}},
     upper \in {{}, {Number(2)}, {Number(-1)}}, slope \in {{}, {Half(1)}}}
ModeCases ==
  {Pointing(Plain(mode), Alike(Arity(mode), Packed(<<6>>))) :
     mode \in (Unary \cup Binary \cup {"BINARY_SELECT"}) \ {"GEN_INDEX"}}
  \cup {Pointing(attributes, Alike(Arity(attributes.mode), Packed(<<6>>))) : attributes \in Clips}
  \cup {Pointing([Plain("GEN_INDEX") EXCEPT !.axis = axis],
                 [IN_0 |-> Packed(<<2, 1>>), OUT_0 |-> Packed(<<2, 1>>)]) :
          axis \in {{}, {-1}, {0}, {1}, {2}}}

Cube == <<2, 2, 2>>
Places ==   (* of an operand of a cube                                     *)
  {Laid(Cube, <<1, 2, 4>>), Packed(<<2, 1, 2>>), Packed(<<1, 1, 1>>), Packed(<<2, 2>>),
   Packed(<<2>>), Laid(<<2, 1>>, <<3, 7>>), Packed(<<1>>)}
BroadcastCases ==
  {Pointing(Plain("SUB"), [IN_0 |-> x, IN_1 |-> y, OUT_0 |-> z]) :
     x \in Places, y \in Places, z \in {Packed(Cube), Laid(Cube, <<2, 5, 1>>)}}
  \cup {Pointing(Plain("BINARY_SELECT"),
                 [IN_0 |-> Packed(<<2, 1>>), IN_1 |-> Packed(<<2>>), IN_2 |-> z,
                  OUT_0 |-> Packed(<<2, 2>>)]) :
          z \in {Packed(<<1>>), Packed(<<2, 2>>), Packed(<<3, 1>>), Packed(<<1, 2, 2>>)}}
  \cup {[Pointing(Plain("SUB"), Alike(2, Packed(<<4>>))) EXCEPT !.ports["IN_1"] = "IN_0"]}

(***************************************************************************)
(* RESAMPLE.                                                               *)
(***************************************************************************)
Sampling(mode, padding, x, y, pre, post, steps, windows) ==
  Case("RESAMPLE", "Y", [X |-> x, Y |-> y],
       [mode |-> mode, padding |-> padding, index |-> FALSE, pre |-> pre, post |-> post,
        steps |-> steps, windows |-> windows], [X |-> Primes])
Paddings == {"EDGE_VAL_PAD", "NEG_INF_PAD", "ZERO_PAD"}
(* The last window of the second lies in the padding alone.                *)
ResampleCases ==
  UNION {
    {Sampling(mode, padding, Packed(<<1, 1, 4>>), Packed(<<1, 1, 3>>), <<1>>, <<1>>, <<2>>, <<2>>),
     Sampling(mode, padding, Packed(<<1, 1, 2>>), Packed(<<1, 1, 3>>), <<0>>, <<4>>, <<2>>, <<2>>),
     Sampling(mode, padding, Packed(<<1, 1, 3>>), Packed(<<1, 1, 1>>), <<2>>, <<0>>, <<3>>, <<4>>),
     Sampling(mode, padding, Laid(<<1, 1, 3, 2>>, <<9, 9, 1, 3>>),
              Laid(<<1, 1, 2, 2>>, <<6, 6, 1, 3>>), <<1, 0>>, <<0, 1>>, <<2, 1>>, <<2, 2>>),
     Sampling(mode, padding, Packed(Cube), Packed(Cube), <<0>>, <<0>>, <<1>>, <<1>>)} :
      mode \in Pools, padding \in Paddings}
  \cup {Sampling("NEAREST", padding, Packed(<<1, 2, 3, 1>>), Packed(<<1, 2, 3, 3>>),
                 <<1, 1>>, <<1, 1>>, <<2, 1>>, <<1, 1>>) : padding \in Paddings}
Pooling(x, y) == Sampling("MAXPOOL", "ZERO_PAD", x, y, <<1>>, <<1>>, <<2>>, <<2>>)
Pooled == Pooling(Packed(<<1, 1, 4>>), Packed(<<1, 1, 3>>))
RefusedSamples ==
  {[Pooled EXCEPT !.attributes.mode = mode] : mode \in {"BILINEAR", "NEAREST"}}
  \cup {[Pooled EXCEPT !.attributes.index = TRUE], [Pooled EXCEPT !.attributes.windows = <<7>>],
        [Pooled EXCEPT !.attributes.windows = <<2, 1>>], [Pooled EXCEPT !.attributes.pre = <<-1>>],
        [Pooled EXCEPT !.attributes.post = <<MaxI64 - 4>>],
        [Pooled EXCEPT !.attributes.steps = <<1>>],
        [Pooled EXCEPT !.attributes.steps = <<0>>],
        Sampling("MAXPOOL", "ZERO_PAD", Packed(<<1, 4>>), Packed(<<1, 3>>), <<>>, <<>>, <<>>, <<>>),
        Pooling(Packed(<<1, 2, 4>>), Packed(<<1, 1, 3>>)),
        Pooling(Packed(<<1, 1, 4>>), Packed(<<1, 3>>))}

(***************************************************************************)
(* RNG and ROPE.                                                           *)
(***************************************************************************)
Drawing(y, seed, tensors, lists) ==
  Case("RNG", "Y", tensors @@ [Y |-> y],
       [seed |-> seed, dims |-> y.dims, strides |-> y.strides], lists)
Tensors(seed, offset) == [Seed |-> seed, Offset |-> offset]
Holding(seed, offset) == [Seed |-> <<seed>>, Offset |-> <<offset>>]
MCKept == {0, 2, 3, 7, MaxU64 - 1, MaxU64}
RngCases ==
  {Drawing(y, {2}, <<>>, <<>>) : y \in {Packed(<<2, 3>>), Laid(<<2, 3>>, <<1, 2>>)}}
  \cup {Drawing(Laid(<<2, 2>>, <<1, 3>>), {}, Tensors(Counter, Counter), Holding(seed, offset)) :
          seed \in {0, 5, -3}, offset \in {0, 2, MaxI64}}
  \cup {Drawing(Packed(<<2>>), {4}, Tensors(Counter, Counter), Holding(1, 1)),
        Drawing(Packed(<<2>>), {}, Tensors(Counter, [Counter EXCEPT !.dims = <<2>>]),
                Holding(1, 1)),
        [Drawing(Packed(<<2, 2>>), {4}, <<>>, <<>>) EXCEPT !.attributes.strides = <<1, 2>>]}

RopeTurn(tag, x, y, positions, angles, dim, scale) ==
  LET input == IF tag = "ROPE" THEN "INPUT" ELSE "DY"
      output == IF tag = "ROPE" THEN "OUTPUT" ELSE "DX"
  IN Case(tag, output,
          (input :> x) @@ (output :> y) @@ [FREQS |-> Packed(<<positions, 1, 1, angles>>)],
          [dim |-> dim, scale |-> scale], (input :> Primes) @@ [FREQS |-> <<2, 4, 3, 1>>])
RopeCases ==
  UNION {
    {RopeTurn(tag, Packed(<<1, 1, 2, 4>>), Packed(<<1, 1, 2, 4>>), 2, 4, 0, One),
     RopeTurn(tag, Packed(<<1, 2, 2, 2>>), Laid(<<1, 2, 2, 2>>, <<8, 2, 4, 1>>),
              2, 2, 2, Number(-2)),
     RopeTurn(tag, Laid(<<1, 1, 2, 3>>, <<8, 8, 1, 2>>), Packed(<<1, 1, 2, 3>>), 3, 2, 2, Third(1))}
    \cup {RopeTurn(tag, Packed(<<1, 1, 2, 3>>), Packed(<<1, 1, 2, 3>>),
                   positions, angles, dim, One) :
            positions \in {1, 2}, angles \in {2, 3}, dim \in {-2, 0, 2, 3, 4}}
    \cup {RopeTurn(tag, Packed(<<1, 2, 2>>), Packed(<<1, 2, 2>>), 2, 2, 0, One),
          RopeTurn(tag, Packed(<<1, 1, 2, 2>>), Packed(<<1, 1, 2, 1>>), 2, 2, 0, One)} :
      tag \in {"ROPE", "ROPE_BWD"}}

MCCases ==
  SliceCases \cup RefusedSlices \cup ModeCases \cup BroadcastCases \cup ResampleCases
    \cup RefusedSamples \cup RngCases \cup RopeCases
=============================================================================
