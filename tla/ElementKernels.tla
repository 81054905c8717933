---------------------------- MODULE ElementKernels ----------------------------
(***************************************************************************)
(* The operations that store each element of their output once, from a few *)
(* elements of their inputs: SLICE, POINTWISE and RESAMPLE of              *)
(* lib/Compiler/FoundationalGraph.cpp, RNG, ROPE and ROPE_BWD of           *)
(* SequenceGraph.cpp.                                                      *)
(*                                                                         *)
(* A case c is one node with the call that runs it: [tag, ports, output,   *)
(* tensors, attributes, contents].  ports gives the uid of each port, of   *)
(* which output is the one that is stored, tensors the [type, dims,        *)
(* strides] of each uid, and contents what the caller holds at each index  *)
(* of an input's uid: a number, an integer, or for FREQS the name of an    *)
(* angle.  An optional attribute is a set of at most one value.            *)
(***************************************************************************)
EXTENDS TensorLayout, Fractions, FiniteSetsExt

CONSTANTS
  Cases,    (* nodes with their calls                                      *)
  Cosine,   (* of each angle                                               *)
  Sine,
  Kept,     (* counters, of those that stable_bernoulli_condition draws    *)
            (* from, whose sample is below the threshold                   *)
  FloatMax  (* the largest finite float                                    *)

VARIABLES
  call,     (* the case                                                    *)
  phase,    (* validate, loop, done or refused                             *)
  next,     (* the next element of the output, in row-major order          *)
  memory    (* uid |-> slot |-> contents                                   *)

vars == <<call, phase, next, memory>>

Has(c, port) == port \in DOMAIN c.ports
Tensor(c, port) == c.tensors[c.ports[port]]
Dims(c, port) == Tensor(c, port).dims
Rank(c, port) == Len(Dims(c, port))
Operands(c) == DOMAIN c.ports \ {c.output}

Infinity == <<1, 1, 0>>
Zero == Number(0)
One == Number(1)
Junk == Number(77)
The(S) == CHOOSE x \in S : TRUE

(* Of numbers with their signs: arith.cmpf, maximumf and minimumf.         *)
Negative(d) == d[1] = -1 /\ ~ IsZero(d) /\ ~ IsNaN(d)
Less(v, w) == ~ IsNaN(v) /\ ~ IsNaN(w) /\ Negative(Plus(v, Negated(w)))
Larger2(v, w) == IF IsNaN(v) \/ IsNaN(w) THEN NaN ELSE IF Less(v, w) THEN w ELSE v
Smaller2(v, w) == IF IsNaN(v) \/ IsNaN(w) THEN NaN ELSE IF Less(w, v) THEN w ELSE v
Equal(v, w) == ~ IsNaN(v) /\ (v = w \/ (IsZero(v) /\ IsZero(w)))
AsFloat(condition) == IF condition THEN One ELSE Zero

(***************************************************************************)
(* Validation: the graph's (ports, types, layouts), then the operation's.  *)
(***************************************************************************)
HasPorts(c, inputs) ==
  /\ DOMAIN c.ports = inputs \cup {c.output}
  /\ \A port \in inputs : c.ports[port] # c.ports[c.output]
  /\ \A port \in DOMAIN c.ports :
       /\ Tensor(c, port).type = IF port \in {"Seed", "Offset"} THEN "INT64" ELSE "FLOAT"
       /\ NonOverlapping(Dims(c, port), Tensor(c, port).strides)
  /\ ElementCount(Dims(c, c.output)) <= MaxI64

(* slice_strides may name fewer axes than there are.                       *)
SliceSteps(c) ==
  [a \in 1..Rank(c, "X") |-> IF a <= Len(c.attributes.steps) THEN c.attributes.steps[a] ELSE 1]

AcceptsSlice(c) ==
  /\ HasPorts(c, {"X"})
  /\ Len(c.attributes.slices) = Rank(c, "X")
  /\ Rank(c, "Y") = Rank(c, "X")
  /\ Len(c.attributes.steps) <= Rank(c, "X")
  /\ \A a \in 1..Rank(c, "X") :
       LET start == c.attributes.slices[a][1]
           limit == c.attributes.slices[a][2]
           step == SliceSteps(c)[a]
       IN /\ 0 <= start /\ start < limit /\ limit <= Dims(c, "X")[a] /\ step > 0
          /\ Dims(c, "Y")[a] = 1 + ((limit - start - 1) \div step)

Inputs(n) == {<<"IN_0", "IN_1", "IN_2">>[k] : k \in 1..n}
Unary ==
  {"NEG", "ABS", "CEIL", "FLOOR", "RECIPROCAL", "IDENTITY", "GEN_INDEX", "LOGICAL_NOT", "RELU_FWD"}
Binary ==
  {"ADD", "MUL", "DIV", "SUB", "ADD_SQUARE", "MIN", "MAX", "MOD", "LOGICAL_AND", "LOGICAL_OR",
   "CMP_EQ", "CMP_NEQ", "CMP_GT", "CMP_GE", "CMP_LT", "CMP_LE", "RELU_BWD"}
Arity(mode) == CASE mode \in Unary -> 1 [] mode \in Binary -> 2 [] mode = "BINARY_SELECT" -> 3

(* The axis of an input that axis a of the output runs along, if positive. *)
Aligned(c, port, a) == a - (Rank(c, "OUT_0") - Rank(c, port))

AcceptsPointwise(c) ==
  LET extents(a) ==
        {Dims(c, port)[Aligned(c, port, a)] :
           port \in {p \in Operands(c) : Aligned(c, p, a) > 0}}
  IN /\ HasPorts(c, Inputs(Arity(c.attributes.mode)))
     /\ c.attributes.mode = "GEN_INDEX" =>
          \E axis \in c.attributes.axis : 0 <= axis /\ axis < Rank(c, "OUT_0")
     /\ \A lower \in c.attributes.lower, upper \in c.attributes.upper : ~ Less(upper, lower)
     /\ \A port \in Operands(c) : Rank(c, port) <= Rank(c, "OUT_0")
     /\ \A a \in 1..Rank(c, "OUT_0") :
          /\ Cardinality(extents(a) \ {1}) <= 1
          /\ Dims(c, "OUT_0")[a] = Max(extents(a) \cup {1})

Pools == {"AVGPOOL_EXCLUDE_PADDING", "AVGPOOL_INCLUDE_PADDING", "MAXPOOL"}

AcceptsResample(c) ==
  LET p == c.attributes
      spatial == Rank(c, "X") - 2
  IN /\ HasPorts(c, {"X"})
     /\ p.mode = "MAXPOOL" => ~ p.index
     /\ p.mode \in Pools \cup {"NEAREST"}
     /\ Rank(c, "X") >= 3
     /\ Rank(c, "Y") = Rank(c, "X")
     /\ {Len(p.pre), Len(p.post), Len(p.steps), Len(p.windows)} = {spatial}
     /\ \A a \in 1..2 : Dims(c, "X")[a] = Dims(c, "Y")[a]
     /\ \A s \in 1..spatial :
          LET padded == Dims(c, "X")[s + 2] + p.pre[s] + p.post[s]
          IN /\ p.pre[s] >= 0 /\ p.post[s] >= 0 /\ p.steps[s] > 0 /\ p.windows[s] > 0
             /\ padded <= MaxI64
             /\ p.windows[s] <= padded
             /\ Dims(c, "Y")[s + 2] = 1 + ((padded - p.windows[s]) \div p.steps[s])
             /\ p.mode = "NEAREST" => p.windows[s] = 1

IsScalar(c, port) == ElementCount(Dims(c, port)) = 1

AcceptsRng(c) ==
  /\ HasPorts(c, IF c.attributes.seed # {} THEN {} ELSE {"Seed", "Offset"})
  /\ c.attributes.dims = Dims(c, "Y")
  /\ c.attributes.strides = Tensor(c, "Y").strides
  /\ \A port \in Operands(c) : IsScalar(c, port)

RopeInput(c) == IF c.tag = "ROPE" THEN "INPUT" ELSE "DY"
Rotated(c) == IF c.attributes.dim = 0 THEN Dims(c, c.output)[4] ELSE c.attributes.dim

AcceptsRope(c) ==
  /\ HasPorts(c, {RopeInput(c), "FREQS"})
  /\ c.attributes.dim >= 0
  /\ Rank(c, RopeInput(c)) = 4
  /\ Dims(c, c.output) = Dims(c, RopeInput(c))
  /\ Rank(c, "FREQS") = 4
  /\ Dims(c, "FREQS")[1] >= Dims(c, RopeInput(c))[3]
  /\ Dims(c, "FREQS")[2] = 1 /\ Dims(c, "FREQS")[3] = 1
  /\ Rotated(c) <= Dims(c, RopeInput(c))[4]
  /\ Rotated(c) % 2 = 0
  /\ Dims(c, "FREQS")[4] = Rotated(c)

Accepts(c) ==
  CASE c.tag = "SLICE" -> AcceptsSlice(c)
    [] c.tag = "POINTWISE" -> AcceptsPointwise(c)
    [] c.tag = "RESAMPLE" -> AcceptsResample(c)
    [] c.tag = "RNG" -> AcceptsRng(c)
    [] OTHER -> AcceptsRope(c)

(***************************************************************************)
(* Loads and stores.  A load that leaves its tensor finds junk.            *)
(***************************************************************************)
Slots(t) == 0..(StorageSlots(t.dims, t.strides) - 1)
SlotOf(t, i) == Dot(i, t.strides)
LoadSlot(held, slot) == IF slot \in DOMAIN held THEN held[slot] ELSE Junk
Load(c, port, i) == LoadSlot(memory[c.ports[port]], SlotOf(Tensor(c, port), i))

Sliced(c, i) ==
  Load(c, "X", [a \in DOMAIN i |-> i[a] * SliceSteps(c)[a] + c.attributes.slices[a][1]])

(* broadcast_indices.                                                      *)
BroadcastIndices(c, port, i) ==
  [a \in 1..Rank(c, port) |->
     IF Dims(c, port)[a] = 1 THEN 0 ELSE i[a + Rank(c, "OUT_0") - Rank(c, port)]]
LoadBroadcast(c, port, i) ==
  IF Has(c, port) THEN Load(c, port, BroadcastIndices(c, port, i)) ELSE Zero

Lower(c) == IF c.attributes.lower = {} THEN Zero ELSE The(c.attributes.lower)
Upper(c) == IF c.attributes.upper = {} THEN FloatMax ELSE The(c.attributes.upper)
Slope(c) == IF c.attributes.slope = {} THEN Zero ELSE The(c.attributes.slope)

Relu(x, lower, upper, slope) ==
  IF Less(x, lower) THEN Plus(lower, Times(slope, Plus(x, Negated(lower))))
  ELSE Smaller2(Larger2(x, lower), upper)
ReluSlope(y, lower, upper, slope) ==
  IF Less(y, lower) THEN slope ELSE IF Less(upper, y) THEN Zero ELSE One

(* Towards zero, and down.                                                 *)
Truncated(v) == <<v[1], v[2] \div v[3], 1>>
Floor(v) == Number(IF v[1] = 1 THEN v[2] \div v[3] ELSE -((v[2] + v[3] - 1) \div v[3]))
Remainder(x, y) ==
  IF IsZero(y) THEN NaN ELSE Plus(x, Negated(Times(y, Truncated(Over(x, y)))))

PointwiseResult(c, i, x, y, z) ==
  LET mode == c.attributes.mode
  IN CASE mode = "ADD" -> Plus(x, y)
       [] mode = "MUL" -> Times(x, y)
       [] mode = "DIV" -> Over(x, y)
       [] mode = "SUB" -> Plus(x, Negated(y))
       [] mode = "ADD_SQUARE" -> Plus(x, Times(y, y))
       [] mode = "MIN" -> Smaller2(x, y)
       [] mode = "MAX" -> Larger2(x, y)
       [] mode = "MOD" -> Remainder(x, y)
       [] mode = "NEG" -> Negated(x)
       [] mode = "ABS" -> Magnitude(x)
       [] mode = "CEIL" -> Negated(Floor(Negated(x)))
       [] mode = "FLOOR" -> Floor(x)
       [] mode = "RECIPROCAL" -> Over(One, x)
       [] mode = "IDENTITY" -> x
       [] mode = "GEN_INDEX" -> Number(i[The(c.attributes.axis) + 1])
       [] mode = "LOGICAL_NOT" -> AsFloat(Equal(x, Zero))
       [] mode = "LOGICAL_AND" -> AsFloat(~ Equal(x, Zero) /\ ~ Equal(y, Zero))
       [] mode = "LOGICAL_OR" -> AsFloat(~ Equal(x, Zero) \/ ~ Equal(y, Zero))
       [] mode = "BINARY_SELECT" -> IF Equal(z, Zero) THEN x ELSE y
       [] mode = "CMP_EQ" -> AsFloat(Equal(x, y))
       [] mode = "CMP_NEQ" -> AsFloat(~ Equal(x, y))
       [] mode = "CMP_GT" -> AsFloat(Less(y, x))
       [] mode = "CMP_GE" -> AsFloat(Less(y, x) \/ Equal(x, y))
       [] mode = "CMP_LT" -> AsFloat(Less(x, y))
       [] mode = "CMP_LE" -> AsFloat(Less(x, y) \/ Equal(x, y))
       [] mode = "RELU_FWD" -> Relu(x, Lower(c), Upper(c), Slope(c))
       [] mode = "RELU_BWD" -> Times(x, ReluSlope(y, Lower(c), Upper(c), Slope(c)))

Combined(c, i) ==
  PointwiseResult(c, i, LoadBroadcast(c, "IN_0", i), LoadBroadcast(c, "IN_1", i),
                  LoadBroadcast(c, "IN_2", i))

(* resample_coordinates: of a position of the window, before padding.      *)
Coordinates(c, i, w) ==
  [a \in DOMAIN i |->
     IF a <= 2 THEN i[a] ELSE i[a] * c.attributes.steps[a - 2] + w[a - 2] - c.attributes.pre[a - 2]]
IsInside(c, x) == \A a \in DOMAIN x : 0 <= x[a] /\ x[a] < Dims(c, "X")[a]
Clamped(c, x) ==
  [a \in DOMAIN x |->
     IF a <= 2 THEN x[a] ELSE IF x[a] < 0 THEN 0 ELSE Min({x[a], Dims(c, "X")[a] - 1})]

ClampsToEdge(c) == c.attributes.padding = "EDGE_VAL_PAD"
PaddingValue(c) == IF c.attributes.padding = "NEG_INF_PAD" THEN Negated(Infinity) ELSE Zero

(* resample_load.                                                          *)
Sampled(c, x, outside) ==
  IF ClampsToEdge(c) THEN Load(c, "X", Clamped(c, x))
  ELSE IF IsInside(c, x) THEN Load(c, "X", x) ELSE outside

(* Fault: padding that is left out of the sum is counted.                  *)
CountsAlways(c, x) == TRUE

Counts(c, x) == c.attributes.mode = "AVGPOOL_INCLUDE_PADDING" \/ ClampsToEdge(c) \/ IsInside(c, x)

Window(c) == Indices(c.attributes.windows)
WindowSum(c, i, outside) ==
  Total([w \in Window(c) |-> Sampled(c, Coordinates(c, i, w), outside)])
WindowCount(c, i) == Cardinality({w \in Window(c) : Counts(c, Coordinates(c, i, w))})

Resampled(c, i) ==
  CASE c.attributes.mode = "NEAREST" ->
         Sampled(c, Coordinates(c, i, [a \in DOMAIN c.attributes.pre |-> 0]), PaddingValue(c))
    [] c.attributes.mode = "MAXPOOL" ->
         FoldFunction(Larger2, Negated(Infinity),
                      [w \in Window(c) |-> Sampled(c, Coordinates(c, i, w), PaddingValue(c))])
    [] OTHER ->
         IF WindowCount(c, i) = 0 THEN Zero
         ELSE Over(WindowSum(c, i, IF c.attributes.mode = "AVGPOOL_EXCLUDE_PADDING" THEN Zero
                                   ELSE PaddingValue(c)),
                   Number(WindowCount(c, i)))

(* stable_bernoulli_condition, of a sum in std::uint64_t.                  *)
Drawn(seed, offset, position) == (seed + offset + position) % (MaxU64 + 1) \in Kept
LoadScalar(c, port) == Load(c, port, [a \in DOMAIN Dims(c, port) |-> 0])
Random(c, i) ==
  AsFloat(IF c.attributes.seed # {} THEN Drawn(The(c.attributes.seed), 0, Linear(i, Dims(c, "Y")))
          ELSE Drawn(LoadScalar(c, "Seed"), LoadScalar(c, "Offset"), Linear(i, Dims(c, "Y"))))

(* emit_rope, of element d of a row whose last elements turn in pairs.     *)
RotatedTerm(cosineTerm, sineTerm, plus) ==
  Plus(cosineTerm, IF plus THEN sineTerm ELSE Negated(sineTerm))
Turned(c, i, start, half) ==
  LET isLow == i[4] < start + half
      angle == Load(c, "FREQS", <<i[3], 0, 0, i[4] - (IF isLow THEN start ELSE start + half)>>)
      pair == Load(c, RopeInput(c), [i EXCEPT ![4] = IF isLow THEN @ + half ELSE @ - half])
  IN RotatedTerm(Times(Load(c, RopeInput(c), i), Cosine[angle]), Times(pair, Sine[angle]),
                 isLow = (c.tag = "ROPE_BWD"))
Rope(c, i) ==
  LET start == Dims(c, RopeInput(c))[4] - Rotated(c)
      half == Rotated(c) \div 2
  IN Times(c.attributes.scale,
           IF i[4] < start THEN Load(c, RopeInput(c), i) ELSE Turned(c, i, start, half))

Result(c, i) ==
  CASE c.tag = "SLICE" -> Sliced(c, i)
    [] c.tag = "POINTWISE" -> Combined(c, i)
    [] c.tag = "RESAMPLE" -> Resampled(c, i)
    [] c.tag = "RNG" -> Random(c, i)
    [] OTHER -> Rope(c, i)

(* What the caller holds: its inputs, in slots that hold an element.       *)
Held(c, port) ==
  LET t == Tensor(c, port)
      In(slot) == {i \in Indices(t.dims) : SlotOf(t, i) = slot}
  IN [slot \in Slots(t) |->
        IF port = c.output \/ In(slot) = {} THEN Junk
        ELSE c.contents[c.ports[port]][CHOOSE i \in In(slot) : TRUE]]
-----------------------------------------------------------------------------
Validate ==
  /\ phase = "validate"
  /\ Accepts(call)
  /\ phase' = "loop"
  /\ memory' = [uid \in {call.ports[port] : port \in DOMAIN call.ports} |->
                  Held(call, CHOOSE port \in DOMAIN call.ports : call.ports[port] = uid)]
  /\ UNCHANGED <<call, next>>

Refuse ==
  /\ phase = "validate"
  /\ ~ Accepts(call)
  /\ phase' = "refused"
  /\ UNCHANGED <<call, next, memory>>

(* emit_flat_loop.                                                         *)
StoreElement ==
  /\ phase = "loop"
  /\ next < ElementCount(Dims(call, call.output))
  /\ LET i == Delinear(next, Dims(call, call.output))
     IN memory' = [memory EXCEPT ![call.ports[call.output]][SlotOf(Tensor(call, call.output), i)] =
                                   Result(call, i)]
  /\ next' = next + 1
  /\ UNCHANGED <<call, phase>>

Finish ==
  /\ phase = "loop"
  /\ next = ElementCount(Dims(call, call.output))
  /\ phase' = "done"
  /\ UNCHANGED <<call, next, memory>>

Init ==
  /\ call \in Cases
  /\ phase = "validate"
  /\ next = 0
  /\ memory = <<>>

Next == Validate \/ Refuse \/ StoreElement \/ Finish

Spec == Init /\ [][Next]_vars
-----------------------------------------------------------------------------
(* What the operations mean, of what the caller gave.                      *)
Given(c, port, i) == c.contents[c.ports[port]][i]
Stored(c, i) == memory[c.ports[c.output]][SlotOf(Tensor(c, c.output), i)]

(* The indices along an axis that a slice picks, in their order.           *)
Picked(c, a) ==
  {k \in c.attributes.slices[a][1]..(c.attributes.slices[a][2] - 1) :
     (k - c.attributes.slices[a][1]) % SliceSteps(c)[a] = 0}

IsSlice(c) ==
  /\ \A a \in 1..Rank(c, "Y") : Dims(c, "Y")[a] = Cardinality(Picked(c, a))
  /\ \A j \in Box([a \in 1..Rank(c, "X") |-> Picked(c, a)]) :
       Given(c, "X", j) =
         Stored(c, [a \in DOMAIN j |-> Cardinality({k \in Picked(c, a) : k < j[a]})])

(* The element of an input that goes with element i of the output: along   *)
(* each axis the same, or the only one.                                    *)
With(c, port, i) ==
  Given(c, port,
        CHOOSE j \in Indices(Dims(c, port)) :
          \A a \in 1..Rank(c, port) :
            j[a] = i[Len(i) - Rank(c, port) + a] \/ Dims(c, port)[a] = 1)

(* The slope of the forward function between y and a point on one side.    *)
IsReluSlope(c, y, d) ==
  \E h \in {<<1, 1, 4>>, <<-1, 1, 4>>} :
    Equal(Times(d, h),
          Plus(Relu(Plus(y, h), Lower(c), Upper(c), Slope(c)),
               Negated(Relu(y, Lower(c), Upper(c), Slope(c)))))

IsPointwise(c) ==
  \A i \in Indices(Dims(c, "OUT_0")) :
    LET v == Stored(c, i)
        x == With(c, "IN_0", i)
        y == IF Has(c, "IN_1") THEN With(c, "IN_1", i) ELSE Zero
        z == IF Has(c, "IN_2") THEN With(c, "IN_2", i) ELSE Zero
    IN CASE c.attributes.mode = "RELU_BWD" ->
              IF IsZero(x) THEN IsZero(v) ELSE IsReluSlope(c, y, Over(v, x))
         [] c.attributes.mode \in {"FLOOR", "CEIL"} ->
              /\ v[3] = 1 /\ Less(Distance(x, v), One)
              /\ ~ IF c.attributes.mode = "FLOOR" THEN Less(x, v) ELSE Less(v, x)
         [] c.attributes.mode = "MOD" /\ ~ IsZero(y) ->
              /\ Less(Magnitude(v), Magnitude(y))
              /\ IsZero(v) \/ v[1] = x[1]
              /\ Over(Plus(x, Negated(v)), y)[3] = 1
         [] OTHER -> v = PointwiseResult(c, i, x, y, z)

(* The image with its padding, counted from the first padded position.     *)
PaddedExtent(c, s) == Dims(c, "X")[s + 2] + c.attributes.pre[s] + c.attributes.post[s]
Nearest(k, extent) ==
  CHOOSE n \in 0..(extent - 1) : \A m \in 0..(extent - 1) : (n - k) ^ 2 <= (m - k) ^ 2
AtPadded(c, i, p) ==
  LET x == <<i[1], i[2]>> \o [s \in DOMAIN p |-> p[s] - c.attributes.pre[s]]
  IN IF x \in Indices(Dims(c, "X")) THEN Given(c, "X", x)
     ELSE IF ClampsToEdge(c) THEN Given(c, "X", [a \in DOMAIN x |-> Nearest(x[a], Dims(c, "X")[a])])
     ELSE PaddingValue(c)

(* The first positions of windows that fit, in their order.                *)
Starts(c, s) ==
  {k \in 0..(PaddedExtent(c, s) - c.attributes.windows[s]) : k % c.attributes.steps[s] = 0}
Covered(c, i) ==
  Box([s \in DOMAIN c.attributes.windows |->
         LET first ==
               CHOOSE k \in Starts(c, s) : Cardinality({m \in Starts(c, s) : m < k}) = i[s + 2]
         IN first..(first + c.attributes.windows[s] - 1)])

(* An average without padding is one of the image; what repeats the edge   *)
(* of the image belongs to it.                                             *)
Averaged(c, i) ==
  IF c.attributes.mode = "AVGPOOL_INCLUDE_PADDING" \/ ClampsToEdge(c) THEN Covered(c, i)
  ELSE {p \in Covered(c, i) :
          \A s \in DOMAIN p : p[s] - c.attributes.pre[s] \in 0..(Dims(c, "X")[s + 2] - 1)}

IsResampled(c) ==
  /\ \A s \in DOMAIN c.attributes.pre : Dims(c, "Y")[s + 2] = Cardinality(Starts(c, s))
  /\ \A i \in Indices(Dims(c, "Y")) :
       LET seen == {AtPadded(c, i, p) : p \in Covered(c, i)}
       IN CASE c.attributes.mode = "NEAREST" -> {Stored(c, i)} = seen
            [] c.attributes.mode = "MAXPOOL" ->
                 Stored(c, i) \in seen /\ \A v \in seen : ~ Less(Stored(c, i), v)
            [] OTHER ->
                 IF Averaged(c, i) = {} THEN Stored(c, i) = Zero
                 ELSE Stored(c, i) = Over(Total([p \in Averaged(c, i) |-> AtPadded(c, i, p)]),
                                          Number(Cardinality(Averaged(c, i))))

(* Elements draw from consecutive counters in row-major order, whatever    *)
(* the layout.                                                             *)
Before(i, j) == \E a \in DOMAIN i : i[a] < j[a] /\ \A b \in 1..(a - 1) : i[b] = j[b]
IsRandom(c) ==
  LET first == IF c.attributes.seed # {} THEN The(c.attributes.seed)
               ELSE With(c, "Seed", <<0>>) + With(c, "Offset", <<0>>)
      all == Indices(Dims(c, "Y"))
  IN \A i \in all :
       LET position == Cardinality({j \in all : Before(j, i)})
       IN Stored(c, i) = AsFloat((first + position) % (MaxU64 + 1) \in Kept)

(* A row's pairs turn by the angles of its position, d and d + half by the *)
(* same; the gradient is the adjoint map.                                  *)
Entry(c, position, out, in) ==
  LET start == Dims(c, c.output)[4] - Rotated(c)
      half == Rotated(c) \div 2
      angle == Given(c, "FREQS", <<position, 0, 0, (out - start) % half>>)
  IN IF out < start THEN AsFloat(in = out)
     ELSE CASE in = out -> Cosine[angle]
            [] in = out + half /\ out < start + half -> Negated(Sine[angle])
            [] in = out - half /\ out >= start + half -> Sine[angle]
            [] OTHER -> Zero

IsRope(c) ==
  \A i \in Indices(Dims(c, c.output)) :
    LET row == 0..(Dims(c, c.output)[4] - 1)
        M(out, in) == IF c.tag = "ROPE" THEN Entry(c, i[3], out, in) ELSE Entry(c, i[3], in, out)
    IN Equal(Stored(c, i),
             Times(c.attributes.scale,
                   Total([d \in row |->
                            Times(M(i[4], d), Given(c, RopeInput(c), [i EXCEPT ![4] = d]))])))

(* A finished node has stored what its operation means, each element once  *)
(* and nothing else: slices and windows with strides, padding of each kind *)
(* inside and outside an average, operands that are broadcast, pairs that  *)
(* turn by the angle of their position.                                    *)
ElementsAreReference ==
  phase = "done" =>
    /\ CASE call.tag = "SLICE" -> IsSlice(call)
         [] call.tag = "POINTWISE" -> IsPointwise(call)
         [] call.tag = "RESAMPLE" -> IsResampled(call)
         [] call.tag = "RNG" -> IsRandom(call)
         [] OTHER -> IsRope(call)
    /\ LET t == Tensor(call, call.output)
           slots == {SlotOf(t, i) : i \in Indices(t.dims)}
       IN \A slot \in Slots(t) \ slots : memory[call.ports[call.output]][slot] = Junk
=============================================================================
