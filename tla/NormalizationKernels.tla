------------------------- MODULE NormalizationKernels -------------------------
(***************************************************************************)
(* The normalizations and batch statistics of                              *)
(* lib/Compiler/NormalizationGraph.cpp: which nodes are accepted, and the  *)
(* loops that run, one after the other, when the graph is executed.        *)
(*                                                                         *)
(* A case c is a graph with the call that runs it: [nodes, dims, contents].*)
(* A node is [tag, inputs, outputs, phase, floatCompute, peers], inputs    *)
(* and outputs functions from ports to uids; dims gives the shape of each  *)
(* uid, contents what the caller's inputs hold.  Tensors are f32 and are   *)
(* addressed by index: layouts are the matter of other modules.            *)
(***************************************************************************)
EXTENDS TensorLayout, Fractions

CONSTANT Cases   (* graphs with their calls                                *)

VARIABLES
  call,     (* the case                                                    *)
  phase,    (* validate, emit, loop, done, refused or crashed              *)
  node,     (* the node at hand                                            *)
  stage,    (* its loop that runs, an index of Stages                      *)
  next,     (* the next iteration of the loop                              *)
  memory    (* uid |-> index |-> number                                    *)

vars == <<call, phase, node, stage, next, memory>>

Adaptive == {"ADA_LAYER_NORM", "ADA_LAYER_NORM_BPROP"}
Instance == {"INSTANCE_NORM", "INSTANCE_NORM_BPROP"}
Batch == {"BATCHNORM", "DBN"}
RootMean == {"RMS_NORM", "RMS_NORM_BPROP"}
Forward == {"BATCHNORM", "INSTANCE_NORM", "LAYER_NORM", "ADA_LAYER_NORM", "RMS_NORM"}
Backward ==
  {"DBN", "INSTANCE_NORM_BPROP", "LAYER_NORM_BPROP", "ADA_LAYER_NORM_BPROP", "RMS_NORM_BPROP"}

Has(n, port) == port \in DOMAIN n.inputs \cup DOMAIN n.outputs
Uid(n, port) == IF port \in DOMAIN n.inputs THEN n.inputs[port] ELSE n.outputs[port]
Dims(c, n, port) == c.dims[Uid(n, port)]

(***************************************************************************)
(* Validation.                                                             *)
(***************************************************************************)
PortsMatch(ports, required, optional) ==
  required \subseteq DOMAIN ports /\ DOMAIN ports \subseteq required \cup optional

RunningInputs == {"PREV_RUNNING_MEAN", "PREV_RUNNING_VAR", "MOMENTUM"}
RunningOutputs == {"NEXT_RUNNING_MEAN", "NEXT_RUNNING_VAR"}

(* BATCHNORM always trains.                                                *)
Trains(n) == n.tag = "BATCHNORM" \/ n.phase = "TRAINING"

ForwardPortsMatch(n) ==
  IF n.tag = "BATCHNORM"
  THEN /\ PortsMatch(n.inputs, {"X", "SCALE", "BIAS", "EPSILON"}, RunningInputs)
       /\ PortsMatch(n.outputs, {"Y", "MEAN", "INV_VARIANCE"}, RunningOutputs)
       /\ <<RunningInputs \cap DOMAIN n.inputs, RunningOutputs \cap DOMAIN n.outputs>>
            \in {<<{}, {}>>, <<RunningInputs, RunningOutputs>>}
  ELSE /\ n.phase \in {"TRAINING", "INFERENCE"}
       /\ IF n.tag = "RMS_NORM" THEN PortsMatch(n.inputs, {"X", "SCALE", "EPSILON"}, {"BIAS"})
          ELSE PortsMatch(n.inputs, {"X", "SCALE", "BIAS", "EPSILON"}, {})
       /\ DOMAIN n.outputs = {"Y"} \cup
            (IF ~ Trains(n) THEN {} ELSE IF n.tag = "RMS_NORM" THEN {"INV_VARIANCE"}
             ELSE {"MEAN", "INV_VARIANCE"})

BackwardPortsMatch(n) ==
  /\ DOMAIN n.inputs = {"DY", "X", "SCALE", "INV_VARIANCE"}
       \cup (IF n.tag = "RMS_NORM_BPROP" THEN {} ELSE {"MEAN"})
       \cup (IF n.tag \in {"LAYER_NORM_BPROP", "ADA_LAYER_NORM_BPROP"} THEN {"EPSILON"} ELSE {})
  /\ IF n.tag \in {"RMS_NORM_BPROP", "ADA_LAYER_NORM_BPROP"}
     THEN PortsMatch(n.outputs, {"DX", "DSCALE"}, {"DBIAS"})
     ELSE PortsMatch(n.outputs, {"DX", "DSCALE", "DBIAS"}, {})

FinalizeChannels == {"SUM", "SQ_SUM", "SCALE", "BIAS", "PREV_RUNNING_MEAN", "PREV_RUNNING_VAR"}
FinalizeScalars == {"EPSILON", "ACCUM_COUNT", "MOMENTUM"}
FinalizeOutputs == {"EQ_SCALE", "EQ_BIAS", "MEAN", "INV_VARIANCE"} \cup RunningOutputs
DbnChannels == {"SCALE", "MEAN", "INV_VARIANCE"}
DbnOutputs == {"DSCALE", "DBIAS", "EQ_BIAS", "EQ_SCALE_DY", "EQ_SCALE_X"}

OtherPortsMatch(n) ==
  CASE n.tag = "BATCHNORM_INFERENCE" ->
         DOMAIN n.inputs = {"X", "SCALE", "BIAS", "MEAN", "INV_VARIANCE"} /\ DOMAIN n.outputs = {"Y"}
    [] n.tag = "GENSTATS" -> DOMAIN n.inputs = {"X"} /\ DOMAIN n.outputs = {"SUM", "SQ_SUM"}
    [] n.tag = "BN_FINALIZE" ->
         DOMAIN n.inputs = FinalizeChannels \cup FinalizeScalars /\ DOMAIN n.outputs = FinalizeOutputs
    [] OTHER -> DOMAIN n.inputs = {"DY", "X"} \cup DbnChannels /\ DOMAIN n.outputs = DbnOutputs

IsScalar(dims, rank) == dims = [a \in 1..rank |-> 1]
Broadcasts(dims, target) ==
  Len(dims) = Len(target) /\ \A a \in Axes(dims) : dims[a] \in {1, target[a]}

PerChannelShape(x) == [a \in Axes(x) |-> IF a = 2 THEN x[2] ELSE 1]
InstanceStatsShape(x) == [a \in Axes(x) |-> IF a > 2 THEN 1 ELSE x[a]]

(* Statistics run along the axes in which the parameters do not broadcast. *)
ParameterStatsShape(x, scale, preserveBatch) ==
  [a \in Axes(x) |-> IF scale[a] = 1 \/ (preserveBatch /\ a = 1) THEN x[a] ELSE 1]

StatsShape(c, n) ==
  LET x == Dims(c, n, "X")
  IN IF n.tag \in Batch THEN PerChannelShape(x)
     ELSE IF n.tag \in Instance THEN InstanceStatsShape(x)
     ELSE ParameterStatsShape(x, Dims(c, n, "SCALE"), n.tag \in Adaptive)

ParametersFit(c, n) ==
  LET x == Dims(c, n, "X")
      scale == Dims(c, n, "SCALE")
  IN /\ Broadcasts(scale, x)
     /\ n.tag \in Batch => Len(x) >= 2 /\ scale = PerChannelShape(x)
     /\ n.tag \in Instance => Len(x) >= 3 /\ scale = PerChannelShape(x)

ReductionAxes(x, shape) == {a \in Axes(x) : shape[a] = 1 /\ x[a] # 1}
ReductionCount(x, shape) ==
  ElementCount([a \in Axes(x) |-> IF a \in ReductionAxes(x, shape) THEN x[a] ELSE 1])
ReductionFits(x, shape) == ReductionCount(x, shape) <= MaxI64

AllHave(c, n, ports, dims) == \A port \in ports : Has(n, port) => Dims(c, n, port) = dims

ValidateForwardNorm(c, n) ==
  LET x == Dims(c, n, "X")
  IN /\ ForwardPortsMatch(n)
     /\ ParametersFit(c, n)
     /\ Dims(c, n, "Y") = x
     /\ AllHave(c, n, {"BIAS"}, Dims(c, n, "SCALE"))
     /\ IsScalar(Dims(c, n, "EPSILON"), Len(x))
     /\ Has(n, "MOMENTUM") => IsScalar(Dims(c, n, "MOMENTUM"), Len(x))
     /\ AllHave(c, n, {"MEAN", "INV_VARIANCE", "PREV_RUNNING_MEAN", "PREV_RUNNING_VAR"}
                        \cup RunningOutputs, StatsShape(c, n))
     /\ ReductionFits(x, StatsShape(c, n))

ValidateBackwardNorm(c, n) ==
  LET x == Dims(c, n, "X")
  IN /\ BackwardPortsMatch(n)
     /\ ParametersFit(c, n)
     /\ AllHave(c, n, {"DY", "DX"}, x)
     /\ AllHave(c, n, {"DSCALE", "DBIAS"}, Dims(c, n, "SCALE"))
     /\ Has(n, "EPSILON") => IsScalar(Dims(c, n, "EPSILON"), Len(x))
     /\ AllHave(c, n, {"MEAN", "INV_VARIANCE"}, StatsShape(c, n))
     /\ ReductionFits(x, StatsShape(c, n))

ValidateOther(c, n) ==
  /\ OtherPortsMatch(n)
  /\ IF n.tag = "BN_FINALIZE"
     THEN LET sum == Dims(c, n, "SUM")
          IN /\ AllHave(c, n, FinalizeChannels \cup FinalizeOutputs, sum)
             /\ AllHave(c, n, FinalizeScalars, [a \in Axes(sum) |-> 1])
     ELSE LET x == Dims(c, n, "X")
          IN /\ Len(x) >= 2
             /\ AllHave(c, n, {"Y", "DY"}, x)
             /\ AllHave(c, n, {"SCALE", "BIAS", "MEAN", "INV_VARIANCE", "SUM", "SQ_SUM"} \cup DbnOutputs,
                        PerChannelShape(x))
             /\ n.tag = "BATCHNORM_INFERENCE" \/ ReductionFits(x, PerChannelShape(x))

ValidateOperation(c, n) ==
  /\ n.floatCompute /\ ~ n.peers
  /\ CASE n.tag \in Forward -> ValidateForwardNorm(c, n)
       [] n.tag \in Backward -> ValidateBackwardNorm(c, n)
       [] OTHER -> ValidateOther(c, n)

(* The statistics shape of these nodes is taken before the ranks are       *)
(* compared: if SCALE has fewer extents than X, those past its end are     *)
(* read.                                                                   *)
ReadsPastScale(c, n) ==
  /\ n.floatCompute /\ ~ n.peers
  /\ n.tag \in Forward \ (Batch \cup Instance)
  /\ ForwardPortsMatch(n)
  /\ \E a \in Axes(Dims(c, n, "X")) :
       a > Len(Dims(c, n, "SCALE")) /\ ~ (n.tag \in Adaptive /\ a = 1)

(***************************************************************************)
(* What the loops load and compute.                                        *)
(***************************************************************************)
Load(n, port, i) == memory[Uid(n, port)][i]
LoadScalar(c, n, port) == Load(n, port, [a \in Axes(Dims(c, n, port)) |-> 0])
BroadcastIndices(i, dims) == [a \in Axes(i) |-> IF dims[a] = 1 THEN 0 ELSE i[a]]
LoadFor(c, n, port, i) == Load(n, port, BroadcastIndices(i, Dims(c, n, port)))

Less(v, w) == Plus(v, Negated(w))
One == Number(1)
Squared(v) == Times(v, v)

(* The elements that the loops around index i visit.                       *)
Reduced(x, shape, i) ==
  {j \in Indices(x) : \A a \in Axes(x) \ ReductionAxes(x, shape) : j[a] = i[a]}

InverseRoot(variance, epsilon) == Over(One, SquareRoot(Plus(variance, epsilon)))
PopulationVariance(meanSquare, mean) ==
  LET variance == Less(meanSquare, Times(mean, mean))
  IN IF variance[1] < 0 THEN Number(0) ELSE variance

Sum(n, x, shape, i) == Total([j \in Reduced(x, shape, i) |-> Load(n, "X", j)])
SquareSum(n, x, shape, i) == Total([j \in Reduced(x, shape, i) |-> Squared(Load(n, "X", j))])

Moments(n, mean, meanSquare) ==
  IF n.tag \in RootMean THEN [mean |-> Number(0), variance |-> meanSquare]
  ELSE [mean |-> mean, variance |-> PopulationVariance(meanSquare, mean)]

ComputeStatistics(c, n, i) ==
  LET x == Dims(c, n, "X")
      shape == StatsShape(c, n)
      count == Number(ReductionCount(x, shape))
  IN Moments(n, Over(Sum(n, x, shape, i), count), Over(SquareSum(n, x, shape, i), count))

Running(previous, current, momentum) ==
  Plus(Times(previous, Less(One, momentum)), Times(current, momentum))
SampleVariance(variance, count) ==
  IF Larger(count, One) THEN Times(variance, Over(count, Less(count, One))) ELSE variance

(* What an iteration stores: ports with their values.                      *)
StoredStatistics(c, n, i, s, inverse) ==
  LET count == Number(ReductionCount(Dims(c, n, "X"), StatsShape(c, n)))
      Updated(port, current) == Running(Load(n, port, i), current, LoadScalar(c, n, "MOMENTUM"))
  IN [port \in DOMAIN n.outputs \ {"Y"} |->
        CASE port = "MEAN" -> s.mean
          [] port = "INV_VARIANCE" -> inverse
          [] port = "NEXT_RUNNING_MEAN" -> Updated("PREV_RUNNING_MEAN", s.mean)
          [] OTHER -> Updated("PREV_RUNNING_VAR", SampleVariance(s.variance, count))]

InverseOf(c, n, s) == InverseRoot(s.variance, LoadScalar(c, n, "EPSILON"))
StatisticsBody(c, n, i) ==
  LET s == ComputeStatistics(c, n, i) IN StoredStatistics(c, n, i, s, InverseOf(c, n, s))

Normalized(c, n, i, mean, inverse) == Times(Less(Load(n, "X", i), mean), inverse)

SavedMean(c, n, i) == IF n.tag \in RootMean THEN Number(0) ELSE LoadFor(c, n, "MEAN", i)
XHat(c, n, i) == Normalized(c, n, i, SavedMean(c, n, i), LoadFor(c, n, "INV_VARIANCE", i))

Affinely(c, n, i, normalized) ==
  LET scaled == Times(normalized, LoadFor(c, n, "SCALE", i))
  IN IF Has(n, "BIAS") THEN Plus(scaled, LoadFor(c, n, "BIAS", i)) ELSE scaled

NormalizedBy(c, n, i, s) == Normalized(c, n, i, s.mean, InverseOf(c, n, s))

ForwardBody(c, n, i) ==
  [port \in {"Y"} |->
     Affinely(c, n, i,
              IF Trains(n) THEN XHat(c, n, i) ELSE NormalizedBy(c, n, i, ComputeStatistics(c, n, i)))]

InferenceBody(c, n, i) ==
  [port \in {"Y"} |->
     Plus(Times(Normalized(c, n, i, LoadFor(c, n, "MEAN", i), LoadFor(c, n, "INV_VARIANCE", i)),
                LoadFor(c, n, "SCALE", i)),
          LoadFor(c, n, "BIAS", i))]

GradientSums(c, n, i) ==
  LET over == Reduced(Dims(c, n, "X"), Dims(c, n, "SCALE"), i)
  IN [DSCALE |-> Total([j \in over |-> Times(Load(n, "DY", j), XHat(c, n, j))]),
      DBIAS |-> Total([j \in over |-> Load(n, "DY", j)])]
ParameterBody(c, n, i) == Restrict(GradientSums(c, n, i), DOMAIN n.outputs \cap {"DSCALE", "DBIAS"})

ScaledGradient(c, n, i) == Times(Load(n, "DY", i), LoadFor(c, n, "SCALE", i))

(* Fault: the group is that of the parameters.                             *)
GradientGroupOfScale(c, n, i) == Reduced(Dims(c, n, "X"), Dims(c, n, "SCALE"), i)
GradientGroup(c, n, i) == Reduced(Dims(c, n, "X"), StatsShape(c, n), i)

DataBody(c, n, i) ==
  LET group == GradientGroup(c, n, i)
      count == Number(ReductionCount(Dims(c, n, "X"), StatsShape(c, n)))
      inverse == LoadFor(c, n, "INV_VARIANCE", i)
      g == ScaledGradient(c, n, i)
      Product(j) ==
        Times(ScaledGradient(c, n, j), IF n.tag \in RootMean THEN Load(n, "X", j) ELSE XHat(c, n, j))
      gMean == Over(Total([j \in group |-> ScaledGradient(c, n, j)]), count)
      productMean == Over(Total([j \in group |-> Product(j)]), count)
      corrected ==
        IF n.tag \in RootMean
        THEN Less(g, Times(Load(n, "X", i), Times(Times(inverse, inverse), productMean)))
        ELSE Less(Less(g, gMean), Times(XHat(c, n, i), productMean))
  IN [port \in {"DX"} |-> Times(inverse, corrected)]

GenStatsBody(c, n, i) ==
  [SUM |-> Sum(n, Dims(c, n, "X"), Dims(c, n, "SUM"), i),
   SQ_SUM |-> SquareSum(n, Dims(c, n, "X"), Dims(c, n, "SUM"), i)]

FinalizeBody(c, n, i) ==
  LET count == LoadScalar(c, n, "ACCUM_COUNT")
      momentum == LoadScalar(c, n, "MOMENTUM")
      mean == Over(Load(n, "SUM", i), count)
      variance == PopulationVariance(Over(Load(n, "SQ_SUM", i), count), mean)
      inverse == InverseRoot(variance, LoadScalar(c, n, "EPSILON"))
      scale == Times(Load(n, "SCALE", i), inverse)
  IN [EQ_SCALE |-> scale, EQ_BIAS |-> Less(Load(n, "BIAS", i), Times(mean, scale)),
      MEAN |-> mean, INV_VARIANCE |-> inverse,
      NEXT_RUNNING_MEAN |-> Running(Load(n, "PREV_RUNNING_MEAN", i), mean, momentum),
      NEXT_RUNNING_VAR |->
        Running(Load(n, "PREV_RUNNING_VAR", i), SampleVariance(variance, count), momentum)]

DbnWeightBody(c, n, i) ==
  LET sums == GradientSums(c, n, i)
      count == Number(ReductionCount(Dims(c, n, "X"), Dims(c, n, "SCALE")))
      inverse == Load(n, "INV_VARIANCE", i)
      dy == Times(Load(n, "SCALE", i), inverse)
      x == Negated(Over(Times(dy, Times(inverse, sums.DSCALE)), count))
      bias == Less(Negated(Over(Times(dy, sums.DBIAS), count)), Times(Load(n, "MEAN", i), x))
  IN [DSCALE |-> sums.DSCALE, DBIAS |-> sums.DBIAS, EQ_BIAS |-> bias,
      EQ_SCALE_DY |-> dy, EQ_SCALE_X |-> x]

(***************************************************************************)
(* The loops.                                                              *)
(***************************************************************************)
Stages(c, n) ==
  LET Loop(body, dims) == <<[body |-> body, dims |-> dims]>>
  IN CASE n.tag \in Forward ->
            (IF Trains(n) THEN Loop("statistics", StatsShape(c, n)) ELSE <<>>)
              \o Loop("forward", Dims(c, n, "X"))
       [] n.tag \in Backward ->
            Loop("parameters", Dims(c, n, "SCALE")) \o Loop("data", Dims(c, n, "X"))
       [] n.tag = "BATCHNORM_INFERENCE" -> Loop("inference", Dims(c, n, "X"))
       [] n.tag = "GENSTATS" -> Loop("genstats", Dims(c, n, "SUM"))
       [] n.tag = "BN_FINALIZE" -> Loop("finalize", Dims(c, n, "SUM"))
       [] OTHER -> Loop("weight", Dims(c, n, "SCALE"))

Body(c, n, body, i) ==
  CASE body = "statistics" -> StatisticsBody(c, n, i)
    [] body = "forward" -> ForwardBody(c, n, i)
    [] body = "parameters" -> ParameterBody(c, n, i)
    [] body = "data" -> DataBody(c, n, i)
    [] body = "inference" -> InferenceBody(c, n, i)
    [] body = "genstats" -> GenStatsBody(c, n, i)
    [] body = "finalize" -> FinalizeBody(c, n, i)
    [] OTHER -> DbnWeightBody(c, n, i)

Junk == Fraction(1, 7, 3)

CallMemory(c) ==
  [uid \in DOMAIN c.dims |->
     IF uid \in DOMAIN c.contents THEN c.contents[uid] ELSE [i \in Indices(c.dims[uid]) |-> Junk]]

Advance(then) ==
  /\ node' = IF node = Len(call.nodes) THEN 1 ELSE node + 1
  /\ phase' = IF node = Len(call.nodes) THEN then ELSE phase

(* Whatever is read past SCALE, the node is refused for its rank, unless   *)
(* the read itself ends the compiler.                                      *)
ValidateNormalizationOperation ==
  /\ phase = "validate"
  /\ \/ ValidateOperation(call, call.nodes[node]) /\ Advance("emit")
     \/ /\ ~ ValidateOperation(call, call.nodes[node])
        /\ phase' = "refused" /\ UNCHANGED node
     \/ /\ ReadsPastScale(call, call.nodes[node])
        /\ phase' = "crashed" /\ UNCHANGED node
  /\ UNCHANGED <<call, stage, next, memory>>

EmitNormalizationOperation ==
  /\ phase = "emit"
  /\ IF \A s \in DOMAIN Stages(call, call.nodes[node]) :
          ElementCount(Stages(call, call.nodes[node])[s].dims) <= MaxI64
     THEN /\ Advance("loop")
          /\ memory' = IF phase' = "loop" THEN CallMemory(call) ELSE memory
     ELSE phase' = "refused" /\ UNCHANGED <<node, memory>>
  /\ UNCHANGED <<call, stage, next>>

Iterate ==
  /\ phase = "loop"
  /\ LET n == call.nodes[node]
         loop == Stages(call, n)[stage]
         i == Delinear(next, loop.dims)
         stored == Body(call, n, loop.body, i)
         last == next + 1 = ElementCount(loop.dims)
         finished == last /\ stage = Len(Stages(call, n))
     IN /\ memory' =
             [uid \in DOMAIN memory |->
                IF \E port \in DOMAIN stored : n.outputs[port] = uid
                THEN [memory[uid] EXCEPT ![i] =
                        stored[CHOOSE port \in DOMAIN stored : n.outputs[port] = uid]]
                ELSE memory[uid]]
        /\ next' = IF last THEN 0 ELSE next + 1
        /\ stage' = IF finished THEN 1 ELSE IF last THEN stage + 1 ELSE stage
        /\ IF finished THEN Advance("done") ELSE UNCHANGED <<node, phase>>
  /\ UNCHANGED call

Init ==
  /\ call \in Cases
  /\ phase = "validate" /\ node = 1 /\ stage = 1 /\ next = 0
  /\ memory = [uid \in {} |-> [i \in {} |-> Junk]]

Next == ValidateNormalizationOperation \/ EmitNormalizationOperation \/ Iterate

Spec == Init /\ [][Next]_vars

(***************************************************************************)
(* What the operations mean, element by element.                           *)
(***************************************************************************)
Same(v, w) == IsZero(Distance(v, w))

(* Elements that share their statistics agree on these axes.               *)
SharedAxes(c, n) ==
  IF n.tag \in Instance THEN {1, 2}
  ELSE IF n.tag \in Batch \cup {"GENSTATS", "DBN_WEIGHT"} THEN {2}
  ELSE {a \in Axes(Dims(c, n, "X")) : Dims(c, n, "SCALE")[a] = 1}
         \cup (IF n.tag \in Adaptive THEN {1} ELSE {})
Elements(c, n) == Indices(Dims(c, n, "X"))
Peers(c, n, i) == {j \in Elements(c, n) : \A a \in SharedAxes(c, n) : j[a] = i[a]}

(* The entry of a smaller tensor that belongs to element i.                *)
EntryFor(c, n, port, i) ==
  LET dims == Dims(c, n, port)
      Belongs(p) == \A a \in Axes(dims) : p[a] = i[a] \/ dims[a] = 1
  IN Load(n, port, CHOOSE p \in Indices(dims) : Belongs(p))

MeanOf(f) == Over(Total(f), Number(Cardinality(DOMAIN f)))
Mean(c, n, i) == MeanOf([j \in Peers(c, n, i) |-> Load(n, "X", j)])
Deviation(c, n, i) ==
  IF n.tag \in RootMean THEN Load(n, "X", i) ELSE Less(Load(n, "X", i), Mean(c, n, i))
SquaredDeviation(c, n, i) == Squared(Deviation(c, n, i))
Variance(c, n, i) == MeanOf([j \in Peers(c, n, i) |-> SquaredDeviation(c, n, j)])
Sample(c, n, i) ==
  LET count == Cardinality(Peers(c, n, i))
  IN IF count = 1 THEN Number(0)
     ELSE Over(Total([j \in Peers(c, n, i) |-> SquaredDeviation(c, n, j)]), Number(count - 1))

(* The statistics of the elements of node n, in ports of node m.           *)
StatisticsAre(c, n, m, i) ==
  LET inverse == Over(One, SquareRoot(Plus(Variance(c, n, i), LoadScalar(c, m, "EPSILON"))))
      Moved(from, to, current) ==
        Has(m, to) => Same(EntryFor(c, m, to, i),
                           Running(EntryFor(c, m, from, i), current, LoadScalar(c, m, "MOMENTUM")))
  IN /\ Has(m, "MEAN") => Same(EntryFor(c, m, "MEAN", i), Mean(c, n, i))
     /\ Has(m, "INV_VARIANCE") => Same(EntryFor(c, m, "INV_VARIANCE", i), inverse)
     /\ Moved("PREV_RUNNING_MEAN", "NEXT_RUNNING_MEAN", Mean(c, n, i))
     /\ Moved("PREV_RUNNING_VAR", "NEXT_RUNNING_VAR", Sample(c, n, i))

NormalizedAs(c, n, m, i, value) ==
  LET root == SquareRoot(Plus(Variance(c, n, i), LoadScalar(c, m, "EPSILON")))
      bias == IF Has(m, "BIAS") THEN EntryFor(c, m, "BIAS", i) ELSE Number(0)
  IN Same(value, Plus(bias, Over(Times(EntryFor(c, m, "SCALE", i), Deviation(c, n, i)), root)))

IsNormalized(c, n) ==
  \A i \in Elements(c, n) :
    StatisticsAre(c, n, n, i) /\ NormalizedAs(c, n, n, i, Load(n, "Y", i))

SavedHat(c, n, i) ==
  Times(EntryFor(c, n, "INV_VARIANCE", i),
        IF Has(n, "MEAN") THEN Less(Load(n, "X", i), EntryFor(c, n, "MEAN", i)) ELSE Load(n, "X", i))

(* The gradient of the loss by element i, through each peer j: how the     *)
(* normalized value of j moves with element i, by the chain rule.          *)
Gradient(c, n, i) ==
  LET peers == Peers(c, n, i)
      Through(j) ==
        LET own == IF i = j THEN One ELSE Number(0)
            both == Times(SavedHat(c, n, i), SavedHat(c, n, j))
            shared == IF n.tag \in RootMean THEN both ELSE Plus(One, both)
        IN Times(Times(Load(n, "DY", j), EntryFor(c, n, "SCALE", j)),
                 Times(EntryFor(c, n, "INV_VARIANCE", i),
                       Less(own, Over(shared, Number(Cardinality(peers))))))
  IN Total([j \in peers |-> Through(j)])

ParameterGradientsAre(c, n) ==
  \A p \in Indices(Dims(c, n, "SCALE")) :
    LET Under == {j \in Elements(c, n) :
                    \A a \in Axes(p) : Dims(c, n, "SCALE")[a] = 1 \/ j[a] = p[a]}
        dscale == Total([j \in Under |-> Times(Load(n, "DY", j), SavedHat(c, n, j))])
    IN /\ Same(Load(n, "DSCALE", p), dscale)
       /\ Has(n, "DBIAS") => Same(Load(n, "DBIAS", p), Total([j \in Under |-> Load(n, "DY", j)]))

(* What y or dx becomes once the equivalent scales and bias are applied.   *)
Equivalent(c, n, i, terms) ==
  Plus(EntryFor(c, n, "EQ_BIAS", i),
       Total([port \in DOMAIN terms |-> Times(EntryFor(c, n, port, i), terms[port])]))

IsReference(c, n) ==
  CASE n.tag \in Forward -> IsNormalized(c, n)
    [] n.tag \in Backward ->
         /\ ParameterGradientsAre(c, n)
         /\ \A i \in Elements(c, n) : Same(Load(n, "DX", i), Gradient(c, n, i))
    [] n.tag = "DBN_WEIGHT" ->
         /\ ParameterGradientsAre(c, n)
         /\ \A i \in Elements(c, n) :
              Same(Equivalent(c, n, i, [EQ_SCALE_DY |-> Load(n, "DY", i), EQ_SCALE_X |-> Load(n, "X", i)]),
                   Gradient(c, n, i))
    [] n.tag = "BATCHNORM_INFERENCE" ->
         \A i \in Elements(c, n) :
           Same(Load(n, "Y", i), Plus(EntryFor(c, n, "BIAS", i),
                                      Times(EntryFor(c, n, "SCALE", i), SavedHat(c, n, i))))
    [] OTHER -> TRUE

(* GENSTATS and BN_FINALIZE are halves: together they do what BATCHNORM    *)
(* does in one node.                                                       *)
SplitIsFused(c, n, m) ==
  \A i \in Elements(c, n) :
    /\ StatisticsAre(c, n, m, i)
    /\ NormalizedAs(c, n, m, i, Equivalent(c, m, i, [EQ_SCALE |-> Load(n, "X", i)]))

(***************************************************************************)
(* Properties.                                                             *)
(***************************************************************************)
(* A graph that ran has normalized each element by the mean and variance   *)
(* of its peers, whichever way statistics and parameters broadcast; the    *)
(* gradients are those of the chain rule; the split nodes, applied to x    *)
(* and dy, do what the fused ones do; and the inputs are as they were.     *)
NormalizationIsReference ==
  phase = "done" =>
    LET nodes == {call.nodes[k] : k \in DOMAIN call.nodes}
    IN /\ \A n \in nodes : IsReference(call, n)
       /\ \A n, m \in nodes :
            n.tag = "GENSTATS" /\ m.tag = "BN_FINALIZE" => SplitIsFused(call, n, m)
       /\ \A uid \in DOMAIN call.contents : memory[uid] = call.contents[uid]
=============================================================================
