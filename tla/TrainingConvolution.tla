------------------------- MODULE TrainingConvolution -------------------------
(***************************************************************************)
(* CONV_FPROP, CONV_DGRAD and CONV_WGRAD of lib/Compiler/TrainingGraph.cpp *)
(* from the serialized node to the loops that run: a node is decoded when  *)
(* the graph is validated and again when it is emitted, and becomes one    *)
(* flat loop over the tensor it writes around one reduction.               *)
(*                                                                         *)
(* A node is [tag, inputs, outputs, compute, mode, pre, post, stride,      *)
(* dilation, tensors]; inputs and outputs give the uids of the ports and   *)
(* tensors the extents.  A product is the pair of the logical indices it   *)
(* loads; a sum is the set of the iterations that added a product to it.   *)
(***************************************************************************)
EXTENDS TensorLayout

CONSTANT TrainingNodes   (* nodes compiled                                 *)

VARIABLES
  conv,       (* the node                                                  *)
  progress,   (* validate, emit, loop, done, or why it was refused         *)
  iteration,  (* next iteration of the flat loop                           *)
  sums,       (* index |-> sum, of the elements stored so far              *)
  outside     (* a load left its tensor                                    *)

trainingVars == <<conv, progress, iteration, sums, outside>>

(* What is known of a node before it is emitted: the extents of tensors    *)
(* are positive and the bits they are stored in, of which an element has   *)
(* several, have been counted in 64 bits (Capability.cpp:132).             *)
NodesWellFormed ==
  \A c \in TrainingNodes :
    /\ \A u \in DOMAIN c.tensors :
         c.tensors[u] \in Seq(Nat \ {0}) /\ ElementCount(c.tensors[u]) <= MaxI64
    /\ \A list \in {c.pre, c.post, c.stride, c.dilation} : list \in Seq(Int)

(***************************************************************************)
(* Decoding.                                                               *)
(***************************************************************************)
Tags == {"CONV_FPROP", "CONV_DGRAD", "CONV_WGRAD"}

(* Ports that play X, W and Y, and the one of them that is the output.     *)
PortsOf(tag) ==
  CASE tag = "CONV_FPROP" -> [x |-> "X", w |-> "W", y |-> "Y", out |-> "Y"]
    [] tag = "CONV_DGRAD" -> [x |-> "DX", w |-> "W", y |-> "DY", out |-> "DX"]
    [] tag = "CONV_WGRAD" -> [x |-> "X", w |-> "DW", y |-> "DY", out |-> "DW"]

HasPorts(c) ==
  LET p == PortsOf(c.tag)
  IN /\ DOMAIN c.outputs = {p.out}
     /\ DOMAIN c.inputs = {p.x, p.w, p.y} \ {p.out}

Uid(c, port) ==
  IF port = PortsOf(c.tag).out THEN c.outputs[port] ELSE c.inputs[port]
X(c) == c.tensors[Uid(c, PortsOf(c.tag).x)]
W(c) == c.tensors[Uid(c, PortsOf(c.tag).w)]
Y(c) == c.tensors[Uid(c, PortsOf(c.tag).y)]
Target(c) == c.tensors[Uid(c, PortsOf(c.tag).out)]

Resolves(c) ==
  \A port \in DOMAIN c.inputs \cup DOMAIN c.outputs : Uid(c, port) \in DOMAIN c.tensors

HasAttributes(c) ==
  c.compute = "FLOAT" /\ c.mode \in {"CROSS_CORRELATION", "CONVOLUTION"}

SpatialAxes(c) == 1..(Len(X(c)) - 2)

HasRanks(c) ==
  /\ Len(X(c)) \in 3..5 /\ Len(W(c)) = Len(X(c)) /\ Len(Y(c)) = Len(X(c))
  /\ \A list \in {c.pre, c.post, c.stride, c.dilation} : Len(list) = Len(X(c)) - 2

Groups(c) == X(c)[2] \div W(c)[2]
OutputChannelsPerGroup(c) == Y(c)[2] \div Groups(c)

HasChannels(c) ==
  /\ X(c)[1] = Y(c)[1] /\ W(c)[1] = Y(c)[2]
  /\ W(c)[2] > 0 /\ X(c)[2] % W(c)[2] = 0
  /\ Groups(c) > 0 /\ Y(c)[2] % Groups(c) = 0

DilatedFilter(c, s) == c.dilation[s] * (W(c)[s + 2] - 1) + 1
PaddedInput(c, s) == X(c)[s + 2] + c.pre[s] + c.post[s]

HasExtent(c, s) ==
  /\ c.pre[s] >= 0 /\ c.post[s] >= 0 /\ c.stride[s] > 0 /\ c.dilation[s] > 0
  /\ DilatedFilter(c, s) <= MaxI64 /\ PaddedInput(c, s) <= MaxI64
  /\ PaddedInput(c, s) >= DilatedFilter(c, s)
  /\ Y(c)[s + 2] = 1 + ((PaddedInput(c, s) - DilatedFilter(c, s)) \div c.stride[s])

DecodeConvolution(c) ==
  /\ c.tag \in Tags
  /\ HasPorts(c) /\ Resolves(c) /\ HasAttributes(c) /\ HasRanks(c)
  /\ HasChannels(c)
  /\ \A s \in SpatialAxes(c) : HasExtent(c, s)

(***************************************************************************)
(* The reductions.  At is the index stored to, r the reduction's own       *)
(* indices: the channel, or the image of the gradient of the filter, and   *)
(* one index for each spatial axis.                                        *)
(***************************************************************************)
FilterCoordinate(c, s, index) ==
  IF c.mode = "CONVOLUTION" THEN W(c)[s + 2] - 1 - index ELSE index

(* The coordinate of X that an output and a filter element meet at.        *)
InputCoordinate(c, s, y, w) ==
  y * c.stride[s] + FilterCoordinate(c, s, w) * c.dilation[s] - c.pre[s]

FpropExtents(c) == SubSeq(W(c), 2, Len(W(c)))
Fprop(c, at, r) ==
  LET x == [s \in SpatialAxes(c) |-> InputCoordinate(c, s, at[s + 2], r[s + 1])]
      group == at[2] \div OutputChannelsPerGroup(c)
  IN [valid |-> \A s \in SpatialAxes(c) : x[s] \in 0..(X(c)[s + 2] - 1),
      left |-> <<at[1], group * W(c)[2] + r[1]>> \o x,
      right |-> <<at[2]>> \o r]

DgradExtents(c) == <<OutputChannelsPerGroup(c)>> \o SubSeq(W(c), 3, Len(W(c)))
Numerator(c, s, x, w) ==
  x + c.pre[s] - FilterCoordinate(c, s, w) * c.dilation[s]

(* Fault: an output between two strides is taken for the one before it.    *)
MeetsBetween(c, s, numerator) ==
  numerator >= 0 /\ numerator \div c.stride[s] < Y(c)[s + 2]
Meets(c, s, numerator) ==
  /\ numerator >= 0
  /\ numerator % c.stride[s] = 0
  /\ numerator \div c.stride[s] < Y(c)[s + 2]

Dgrad(c, at, r) ==
  LET numerator == [s \in SpatialAxes(c) |-> Numerator(c, s, at[s + 2], r[s + 1])]
      channel == (at[2] \div W(c)[2]) * OutputChannelsPerGroup(c) + r[1]
  IN [valid |-> \A s \in SpatialAxes(c) : Meets(c, s, numerator[s]),
      left |-> <<at[1], channel>> \o [s \in SpatialAxes(c) |-> numerator[s] \div c.stride[s]],
      right |-> <<channel, at[2] % W(c)[2]>> \o SubSeq(r, 2, Len(r))]

WgradExtents(c) == <<X(c)[1]>> \o SubSeq(Y(c), 3, Len(Y(c)))
Wgrad(c, at, r) ==
  LET x == [s \in SpatialAxes(c) |-> InputCoordinate(c, s, r[s + 1], at[s + 2])]
      group == at[1] \div OutputChannelsPerGroup(c)
  IN [valid |-> \A s \in SpatialAxes(c) : x[s] \in 0..(X(c)[s + 2] - 1),
      left |-> <<r[1], group * W(c)[2] + at[2]>> \o x,
      right |-> <<r[1], at[1]>> \o SubSeq(r, 2, Len(r))]

(***************************************************************************)
(* The operations of the compiler and the steps of the loop.               *)
(***************************************************************************)
ValidateTrainingOperation ==
  /\ progress = "validate"
  /\ progress' = IF DecodeConvolution(conv) THEN "emit" ELSE "refused"
  /\ UNCHANGED <<conv, iteration, sums, outside>>

(* The element count of the target has to fit the loop's index.            *)
FlatCountFits(dims) == ElementCountFits(dims) /\ ElementCount(dims) <= MaxI64

EmitTrainingOperation ==
  /\ progress = "emit"
  /\ progress' = IF DecodeConvolution(conv) /\ FlatCountFits(Target(conv))
              THEN "loop" ELSE "unemitted"
  /\ UNCHANGED <<conv, iteration, sums, outside>>

Current == Delinear(iteration, Target(conv))

(* One iteration of the flat loop: the reduction, whose guarded loads run  *)
(* only where the condition holds, and the store.                          *)
Element(visits, dims1, dims2) ==
  LET products == {v \in visits : v[2].valid}
  IN /\ progress = "loop" /\ iteration < ElementCount(Target(conv))
     /\ sums' = [at \in DOMAIN sums \cup {Current} |->
                      IF at = Current THEN {<<v[1], v[2].left, v[2].right>> : v \in products}
                      ELSE sums[at]]
     /\ outside' = (outside \/ \E v \in products :
                             v[2].left \notin Indices(dims1) \/ v[2].right \notin Indices(dims2))
     /\ iteration' = iteration + 1
     /\ UNCHANGED <<conv, progress>>

FpropElement ==
  /\ progress = "loop" /\ conv.tag = "CONV_FPROP"
  /\ Element({<<r, Fprop(conv, Current, r)>> : r \in Indices(FpropExtents(conv))}, X(conv), W(conv))

DgradElement ==
  /\ progress = "loop" /\ conv.tag = "CONV_DGRAD"
  /\ Element({<<r, Dgrad(conv, Current, r)>> : r \in Indices(DgradExtents(conv))}, Y(conv), W(conv))

WgradElement ==
  /\ progress = "loop" /\ conv.tag = "CONV_WGRAD"
  /\ Element({<<r, Wgrad(conv, Current, r)>> : r \in Indices(WgradExtents(conv))}, X(conv), Y(conv))

LoopEnds ==
  /\ progress = "loop" /\ iteration = ElementCount(Target(conv))
  /\ progress' = "done"
  /\ UNCHANGED <<conv, iteration, sums, outside>>

TrainingInit ==
  /\ conv \in TrainingNodes
  /\ progress = "validate" /\ iteration = 0 /\ sums = <<>> /\ outside = FALSE

TrainingNext ==
  \/ ValidateTrainingOperation \/ EmitTrainingOperation
  \/ FpropElement \/ DgradElement \/ WgradElement \/ LoopEnds

TrainingSpec == TrainingInit /\ [][TrainingNext]_trainingVars

(***************************************************************************)
(* Properties.                                                             *)
(***************************************************************************)
(* The products X[x] * W[w] that Y[y] is the sum of, by the definition of  *)
(* a grouped, strided, dilated and padded convolution.                     *)
Contraction(c) ==
  LET filter(s, k) == IF c.mode = "CONVOLUTION" THEN W(c)[s + 2] - k ELSE k + 1
      spatial(dims) == Indices(SubSeq(dims, 3, Len(dims)))
      reached ==
        {t \in Indices(W(c)) \X spatial(X(c)) \X spatial(Y(c)) :
           \A s \in SpatialAxes(c) :
             t[2][s] + c.pre[s] = t[3][s] * c.stride[s] + (filter(s, t[1][s + 2]) - 1) * c.dilation[s]}
      grouped ==
        {p \in (0..(Groups(c) - 1)) \X reached :
           p[2][1][1] \in (p[1] * OutputChannelsPerGroup(c))..((p[1] + 1) * OutputChannelsPerGroup(c) - 1)}
      Product(n, g, w, x, y) == <<<<n, g * W(c)[2] + w[2]>> \o x, w, <<n, w[1]>> \o y>>
  IN {Product(n, p[1], p[2][1], p[2][2], p[2][3]) : n \in 0..(X(c)[1] - 1), p \in grouped}

(* What each of the three kernels has to multiply for an element of its    *)
(* output: the other two factors of the same products.                     *)
Factors(tag, products, at) ==
  CASE tag = "CONV_FPROP" -> {<<t[1], t[2]>> : t \in {u \in products : u[3] = at}}
    [] tag = "CONV_DGRAD" -> {<<t[3], t[2]>> : t \in {u \in products : u[1] = at}}
    [] tag = "CONV_WGRAD" -> {<<t[1], t[3]>> : t \in {u \in products : u[2] = at}}

(* No element of Y lies beyond what the padded input reaches, while one    *)
(* more would.                                                             *)
ExtentsAreExact ==
  \A s \in SpatialAxes(conv) :
    Y(conv)[s + 2] =
      Cardinality({y \in 0..PaddedInput(conv, s) :
                     \A w \in 0..(W(conv)[s + 2] - 1) :
                       y * conv.stride[s] + w * conv.dilation[s]
                         \in 0..(PaddedInput(conv, s) - 1)})

(* The forward convolution and its two gradients run over the same         *)
(* products: an accepted node has an output as large as the filter reaches *)
(* and no larger, is emitted, stores every element of its output, and      *)
(* leaves in it each product of the contraction that element takes part in *)
(* once and no other, without a load outside a tensor, for every grouping, *)
(* stride, dilation, padding and math mode (emit_fprop, emit_dgrad,        *)
(* emit_wgrad, decode_convolution).                                        *)
GradientsAreAdjoint ==
  /\ progress # "unemitted" /\ ~outside
  /\ progress = "done" =>
       LET products == Contraction(conv)
       IN /\ ExtentsAreExact
          /\ DOMAIN sums = Indices(Target(conv))
          /\ \A at \in DOMAIN sums :
               /\ {<<t[2], t[3]>> : t \in sums[at]} = Factors(conv.tag, products, at)
               /\ \A t, u \in sums[at] : <<t[2], t[3]>> = <<u[2], u[3]>> => t = u

=============================================================================
