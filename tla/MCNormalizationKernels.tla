------------------------ MODULE MCNormalizationKernels ------------------------
EXTENDS NormalizationKernels, TLC

(* Tensors are named for the port they are first used at.                  *)
Ports(names) == [port \in names |-> port]
Op(tag, inputs, outputs) ==
  [tag |-> tag, inputs |-> Ports(inputs), outputs |-> Ports(outputs), phase |-> "TRAINING",
   floatCompute |-> TRUE, peers |-> FALSE]

ShapeOf(port, x, scale, stats) ==
  CASE port \in {"X", "Y", "DY", "DX"} -> x
    [] port \in {"SCALE", "BIAS", "DSCALE", "DBIAS"} -> scale
    [] port \in {"EPSILON", "MOMENTUM", "ACCUM_COUNT"} -> [a \in Axes(x) |-> 1]
    [] OTHER -> stats

Third(n) == Over(Number(n), Number(3))
(* What each input holds, over and over.                                   *)
Values ==
  [SCALE |-> <<Number(2), Number(-3), Third(1), Number(5)>>, BIAS |-> <<Number(1), Number(-4)>>,
   DY |-> <<Number(1), Number(0), Number(-2), Number(3), Number(5)>>,
   MEAN |-> <<Number(3), Number(-1), Number(2)>>,
   INV_VARIANCE |-> <<Over(One, Number(2)), Third(1), Number(1)>>,
   PREV_RUNNING_MEAN |-> <<Number(2), Number(6)>>, PREV_RUNNING_VAR |-> <<Number(4), Number(8)>>,
   EPSILON |-> <<Number(144)>>, MOMENTUM |-> <<Over(One, Number(4))>>, ACCUM_COUNT |-> <<Number(4)>>]

Case(nodes, x, scale, stats, values) ==
  LET ins == UNION {DOMAIN nodes[k].inputs : k \in DOMAIN nodes}
      outs == UNION {DOMAIN nodes[k].outputs : k \in DOMAIN nodes}
      held == values @@ Values
  IN [nodes |-> nodes,
      dims |-> [uid \in ins \cup outs |-> ShapeOf(uid, x, scale, stats)],
      contents |-> [uid \in ins \ outs |->
                      [i \in Indices(ShapeOf(uid, x, scale, stats)) |->
                         held[uid][(Linear(i, ShapeOf(uid, x, scale, stats)) % Len(held[uid])) + 1]]]]

Numbers(list) == [k \in DOMAIN list |-> Number(list[k])]
X(list) == [X |-> Numbers(list)]
NoEpsilon == [EPSILON |-> <<Number(0)>>]

(***************************************************************************)
(* Variances are chosen for their roots: 144 more than 0, 25, 81, 256 and  *)
(* 1225 is the square of 12, 13, 15, 20 and 37.                            *)
(***************************************************************************)
Statistics == {"MEAN", "INV_VARIANCE"}
Affine == {"X", "SCALE", "BIAS", "EPSILON"}
BatchNorm == Op("BATCHNORM", Affine, {"Y"} \cup Statistics)
BatchNormRunning == Op("BATCHNORM", Affine \cup RunningInputs, {"Y"} \cup Statistics \cup RunningOutputs)
Norm(tag) == Op(tag, Affine, {"Y"} \cup Statistics)
RmsNorm(bias) == Op("RMS_NORM", {"X", "SCALE", "EPSILON"} \cup bias, {"Y", "INV_VARIANCE"})
Inferring(n) == [n EXCEPT !.phase = "INFERENCE", !.outputs = Ports({"Y"})]

Channels == <<15, 5, 6, -12, 5, 15, -12, 6>>
Pairs == <<15, 5, 6, -12, 16, -16, 37, -33>>
Rows2 == <<15, 5, 5, 15, -8, 10, 10, -8>>
Columns == <<15, 6, 5, -12, 16, 37, -16, -33>>
Cube == <<2, 2, 2>>

BatchCases ==
  {Case(<<n>>, Cube, <<1, 2, 1>>, <<1, 2, 1>>, X(Channels)) : n \in {BatchNorm, BatchNormRunning}}
  \cup {Case(<<BatchNormRunning>>, <<2, 2>>, <<1, 2>>, <<1, 2>>, X(<<7, 9, -3, 41>>)),
        Case(<<BatchNormRunning>>, <<1, 2>>, <<1, 2>>, <<1, 2>>, X(<<7, 9>>)),
        Case(<<BatchNormRunning>>, <<1, 2, 2, 1>>, <<1, 2, 1, 1>>, <<1, 2, 1, 1>>, X(<<11, 1, 20, 2>>))}

Widths ==   (* the shapes of scale and statistics, and data to match       *)
  {[tag |-> "INSTANCE_NORM", scale |-> <<1, 2, 1>>, stats |-> <<2, 2, 1>>, data |-> Pairs],
   [tag |-> "LAYER_NORM", scale |-> <<1, 1, 2>>, stats |-> <<2, 2, 1>>, data |-> Pairs],
   [tag |-> "LAYER_NORM", scale |-> <<1, 2, 2>>, stats |-> <<2, 1, 1>>, data |-> Rows2],
   [tag |-> "LAYER_NORM", scale |-> <<1, 2, 1>>, stats |-> <<2, 1, 2>>, data |-> Columns],
   [tag |-> "LAYER_NORM", scale |-> <<1, 1, 1>>, stats |-> <<2, 2, 2>>, data |-> Pairs],
   [tag |-> "LAYER_NORM", scale |-> Cube, stats |-> <<1, 1, 1>>,
    data |-> <<19, -13, -13, 19, 19, 19, -13, -13>>],
   [tag |-> "ADA_LAYER_NORM", scale |-> <<2, 1, 2>>, stats |-> <<2, 2, 1>>, data |-> Pairs],
   [tag |-> "ADA_LAYER_NORM", scale |-> Cube, stats |-> <<2, 1, 1>>, data |-> Rows2],
   [tag |-> "ADA_LAYER_NORM", scale |-> <<1, 2, 2>>, stats |-> <<2, 1, 1>>, data |-> Rows2]}

NormCases ==
  {Case(<<n>>, Cube, w.scale, w.stats, X(w.data)) :
     w \in Widths, n \in {Norm("INSTANCE_NORM"), Norm("LAYER_NORM"), Norm("ADA_LAYER_NORM")}}
RmsCases ==
  {Case(<<n>>, Cube, <<1, 1, 2>>, <<2, 2, 1>>, X(<<1, 7, -2, 14, 3, -21, 7, 1>>) @@ NoEpsilon) :
     n \in {RmsNorm({}), RmsNorm({"BIAS"}), Inferring(RmsNorm({}))}}
  \cup {Case(<<RmsNorm({})>>, Cube, <<1, 2, 2>>, <<2, 1, 1>>,
             X(<<1, 7, 7, -1, 2, 14, -14, 2>>) @@ NoEpsilon)}
  \cup {Case(<<RmsNorm({"BIAS"})>>, Cube, <<1, 1, 1>>, Cube,
             X(<<5, 9, 16, 35, -5, -9, -16, 0>>))}
Applied ==
  Case(<<Op("BATCHNORM_INFERENCE", {"X", "SCALE", "BIAS"} \cup Statistics, {"Y"})>>,
       Cube, <<1, 2, 1>>, <<1, 2, 1>>, X(Pairs))
InferenceCases ==
  {Case(<<Inferring(Norm(w.tag))>>, Cube, w.scale, w.stats, X(w.data)) : w \in Widths}
  \cup {Applied}

(***************************************************************************)
(* Gradients.                                                              *)
(***************************************************************************)
Saved == {"DY", "X", "SCALE", "INV_VARIANCE"}
Gradients == {"DX", "DSCALE", "DBIAS"}
GradientOf(tag) ==
  Op(tag \o "_BPROP", Saved \cup {"MEAN"} \cup (IF tag = "INSTANCE_NORM" THEN {} ELSE {"EPSILON"}),
     Gradients)
RmsGradient(bias) == Op("RMS_NORM_BPROP", Saved, {"DX", "DSCALE"} \cup bias)
Dbn == Op("DBN", Saved \cup {"MEAN"}, Gradients)
DbnWeight == Op("DBN_WEIGHT", Saved \cup {"MEAN"}, DbnOutputs)

Small == <<4, -1, 2, 0, 3, 5, -2, 1>>
GradientCases ==
  {Case(<<GradientOf(w.tag)>>, Cube, w.scale, w.stats, X(Small)) : w \in Widths}
  \cup {Case(<<RmsGradient(bias)>>, Cube, scale, stats, X(Small)) :
          bias \in {{}, {"DBIAS"}}, scale \in {<<1, 1, 2>>, <<1, 2, 2>>}, stats \in {<<2, 2, 1>>, <<2, 1, 1>>}}
  \cup {Case(<<[GradientOf("ADA_LAYER_NORM") EXCEPT !.outputs = Ports({"DX", "DSCALE"})]>>,
             Cube, <<2, 1, 2>>, <<2, 2, 1>>, X(Small))}
  \cup {Case(<<n>>, Cube, <<1, 2, 1>>, <<1, 2, 1>>, X(Small)) : n \in {Dbn, DbnWeight}}
  \cup {Case(<<n>>, <<1, 2>>, <<1, 2>>, <<1, 2>>, X(Small)) : n \in {Dbn, DbnWeight}}
  (* With the statistics that the forward node has just stored.            *)
  \cup {Case(<<BatchNorm, n>>, Cube, <<1, 2, 1>>, <<1, 2, 1>>, X(Channels)) : n \in {Dbn, DbnWeight}}
  \cup {Case(<<Norm("INSTANCE_NORM"), GradientOf("INSTANCE_NORM")>>, Cube, <<1, 2, 1>>, <<2, 2, 1>>,
             X(Pairs))}

(***************************************************************************)
(* Statistics in two nodes.                                                *)
(***************************************************************************)
GenStats == Op("GENSTATS", {"X"}, {"SUM", "SQ_SUM"})
Finalize == Op("BN_FINALIZE", FinalizeChannels \cup FinalizeScalars, FinalizeOutputs)
Counting(n) == [ACCUM_COUNT |-> <<Number(n)>>]
SplitCases ==
  {Case(<<GenStats, Finalize>>, Cube, <<1, 2, 1>>, <<1, 2, 1>>, X(Channels) @@ Counting(4)),
   Case(<<GenStats, Finalize>>, <<2, 2>>, <<1, 2>>, <<1, 2>>, X(<<7, 9, -3, 41>>) @@ Counting(2)),
   Case(<<GenStats, Finalize>>, <<1, 2>>, <<1, 2>>, <<1, 2>>, X(<<7, 9>>) @@ Counting(1))}

(***************************************************************************)
(* Nodes that are refused.                                                 *)
(***************************************************************************)
Layer == Case(<<Norm("LAYER_NORM")>>, Cube, <<1, 1, 2>>, <<2, 2, 1>>, X(Pairs))
Tracked == Case(<<BatchNormRunning>>, Cube, <<1, 2, 1>>, <<1, 2, 1>>, X(Channels))
Back == Case(<<GradientOf("LAYER_NORM")>>, Cube, <<1, 1, 2>>, <<2, 2, 1>>, X(Small))
Without(c, port) ==
  [c EXCEPT !.nodes[1].inputs = Restrict(@, DOMAIN @ \ {port}),
            !.nodes[1].outputs = Restrict(@, DOMAIN @ \ {port})]
Shaped(c, uid, dims) == [c EXCEPT !.dims[uid] = dims]

RefusedCases ==
  {[Layer EXCEPT !.nodes[1].floatCompute = FALSE], [Layer EXCEPT !.nodes[1].peers = TRUE],
   [Layer EXCEPT !.nodes[1].phase = "NOT_SET"]}
  \cup {Without(Layer, port) : port \in {"MEAN", "BIAS", "EPSILON"}}
  \cup {Without(Tracked, port) : port \in RunningInputs \cup RunningOutputs}
  \cup {Without(Back, port) : port \in {"MEAN", "DBIAS", "EPSILON"}}
  \cup {Shaped(Layer, uid, dims) :
          uid \in {"Y", "SCALE", "BIAS", "MEAN", "INV_VARIANCE", "EPSILON"},
          dims \in {<<2, 2>>, <<2, 1, 1>>, <<3, 2, 2>>}}
  (* SCALE has fewer extents than X; the last two do not get to read it.   *)
  \cup {Shaped(c, "SCALE", <<2>>) :
          c \in {Case(<<n>>, Cube, <<1, 1, 2>>, <<2, 2, 1>>, X(Pairs)) :
                   n \in {Norm("ADA_LAYER_NORM"), RmsNorm({"BIAS"}), Norm("INSTANCE_NORM")}}
                \cup {Back}}
  \cup {Shaped(Back, uid, <<2, 1, 1>>) : uid \in {"DY", "DX", "DSCALE", "MEAN", "EPSILON"}}
  \cup {Shaped(Tracked, "MOMENTUM", <<1, 2, 1>>),
        (* Too many elements to reduce, and too many for one loop.          *)
        Shaped(Case(<<GenStats>>, Cube, <<1, 2, 1>>, <<1, 2, 1>>, X(Small)), "X", <<200, 2, 200>>),
        Shaped(Shaped(Applied, "X", <<200, 2, 200>>), "Y", <<200, 2, 200>>),
        Case(<<Dbn>>, <<4>>, <<1>>, <<1>>, X(Small)),
        Case(<<Norm("INSTANCE_NORM")>>, <<2, 2>>, <<1, 2>>, <<2, 2>>, X(Small)),
        Case(<<GenStats, [Finalize EXCEPT !.floatCompute = FALSE]>>, Cube, <<1, 2, 1>>, <<1, 2, 1>>,
             X(Channels))}

MCCases ==
  BatchCases \cup NormCases \cup RmsCases \cup InferenceCases \cup GradientCases \cup SplitCases
    \cup RefusedCases
=============================================================================
