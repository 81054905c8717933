-------------------------- MODULE SpecializedKernels --------------------------
(***************************************************************************)
(* The block-scaled, FP8 and expert operations of                          *)
(* lib/Compiler/SpecializedGraph.cpp, with the M, N and K extents of       *)
(* MatmulGraph.cpp: which nodes are accepted, and the loops that run on    *)
(* the caller's memory, store by store.                                    *)
(*                                                                         *)
(* A case c is one node with the call that runs it: [tag, ports, tensors,  *)
(* floatCompute, blocks, block, axis, mode, topK, contents].  ports gives  *)
(* the uid of each port, tensors the descriptor [type, dims, strides,      *)
(* reordered, plain] of each uid, plain when it is external, not reordered *)
(* and has no prefix; axis is a set of at most one integer; contents gives *)
(* what the caller holds at each index of an input: a number, an integer,  *)
(* or the code of a format.                                                *)
(***************************************************************************)
EXTENDS LowPrecision

CONSTANT Cases   (* nodes with their calls                                 *)

VARIABLES
  call,     (* the case                                                    *)
  phase,    (* validate, emit, loop, done or refused                       *)
  stage,    (* the loop that runs, an index of Stages                      *)
  next,     (* its next iteration                                          *)
  memory    (* uid |-> cell |-> contents                                   *)

vars == <<call, phase, stage, next, memory>>

Has(c, port) == port \in DOMAIN c.ports
Tensor(c, port) == c.tensors[c.ports[port]]
Dims(c, port) == Tensor(c, port).dims
Rank(c, port) == Len(Dims(c, port))
Type(c, port) == Tensor(c, port).type

Floats == {"FLOAT", "HALF", "BFLOAT16"}
Float8s == {"FP8_E4M3", "FP8_E5M2"}
Extents == {"M_override", "N_override", "K_override"}

Outputs(c) ==
  CASE c.tag = "BLOCK_SCALE_DEQUANTIZE" -> {"Y"}
    [] c.tag = "BLOCK_SCALE_QUANTIZE" -> {"Y", "scale"}
    [] c.tag = "MATMUL_FP8" -> {"C", "Amax_C"}
    [] c.tag = "MOE_GROUPED_MATMUL" -> {"Output"}
    [] OTHER -> {"DWeight"}

Inputs(c) ==
  CASE c.tag = "BLOCK_SCALE_DEQUANTIZE" -> {"X", "scale"}
    [] c.tag = "BLOCK_SCALE_QUANTIZE" -> {"X"}
    [] c.tag = "MATMUL_FP8" ->
         {"A", "B", "Descale_A", "Descale_B", "Scale_C"} \cup (DOMAIN c.ports \cap Extents)
    [] c.tag = "MOE_GROUPED_MATMUL" -> {"Token", "Weight", "FirstTokenOffset"}
    [] OTHER -> {"DOutput", "Token", "FirstTokenOffset"}

ReorderedScalePorts(c) ==
  IF c.tag \in {"BLOCK_SCALE_DEQUANTIZE", "BLOCK_SCALE_QUANTIZE"} THEN {"scale"} ELSE {}

HasPorts(c) ==
  /\ DOMAIN c.ports = Inputs(c) \cup Outputs(c)
  /\ \A port \in DOMAIN c.ports :
       /\ c.ports[port] \in DOMAIN c.tensors
       /\ Tensor(c, port).reordered => port \in ReorderedScalePorts(c)

HasLayouts(c) ==
  \A uid \in DOMAIN c.tensors :
    LET t == c.tensors[uid]
    IN /\ NonOverlapping(t.dims, t.strides)
       /\ t.reordered => /\ t.type \in {"FP8_E4M3", "FP8_E5M2", "FP8_E8M0"}
                         /\ ReorderedAxes(t.dims, t.strides) # <<>>

IsScalar(c, port) == ElementCount(Dims(c, port)) = 1

(***************************************************************************)
(* Validation.                                                             *)
(***************************************************************************)
(* A reordered scale may be larger than the blocks in its last two axes.   *)
ScaleShapeMatches(t, logical) ==
  IF ~ t.reordered THEN t.dims = logical
  ELSE /\ Len(t.dims) = Len(logical) /\ Len(logical) >= 2
       /\ \A a \in Axes(logical) :
            IF a < Len(logical) - 1 THEN t.dims[a] = logical[a] ELSE t.dims[a] >= logical[a]

(* The extent of a block along each axis.                                  *)
DequantizeBlocks(c) ==
  [a \in Axes(Dims(c, "X")) |->
     LET k == a - (Rank(c, "X") - Len(c.blocks)) IN IF k >= 1 THEN c.blocks[k] ELSE 1]

BlockCounts(c, blocks) == [a \in Axes(blocks) |-> Dims(c, "X")[a] \div blocks[a]]
Divides(c, blocks) == \A a \in Axes(blocks) : Dims(c, "X")[a] % blocks[a] = 0

ValidateBlockDequantize(c) ==
  /\ c.floatCompute
  /\ Type(c, "X") \in {"FP4_E2M1", "FP8_E4M3", "FP8_E5M2", "INT4"}
  /\ Type(c, "scale") \in Floats \cup {"FP8_E4M3", "FP8_E8M0"}
  /\ Type(c, "Y") \in Floats
  /\ Len(c.blocks) \in 1..Rank(c, "X")
  /\ \A k \in Axes(c.blocks) : c.blocks[k] > 0
  /\ Dims(c, "X") = Dims(c, "Y")
  /\ Divides(c, DequantizeBlocks(c))
  /\ ScaleShapeMatches(Tensor(c, "scale"), BlockCounts(c, DequantizeBlocks(c)))

(* Without an axis, blocks run along the last one.                         *)
SelectedAxis(c) ==
  IF c.axis = {} THEN Rank(c, "X") ELSE 1 + (CHOOSE n \in c.axis : TRUE)
QuantizeBlocks(c) ==
  [a \in Axes(Dims(c, "X")) |-> IF a = SelectedAxis(c) THEN c.block ELSE 1]

ValidateBlockQuantize(c) ==
  /\ c.floatCompute
  /\ Type(c, "X") \in Floats
  /\ Type(c, "Y") \in {"FP4_E2M1"} \cup Float8s
  /\ Type(c, "scale") = IF Type(c, "Y") = "FP4_E2M1" THEN "FP8_E4M3" ELSE "FP8_E8M0"
  /\ c.block > 0 /\ SelectedAxis(c) \in Axes(Dims(c, "X"))
  /\ Dims(c, "Y") = Dims(c, "X")
  /\ Divides(c, QuantizeBlocks(c))
  /\ ScaleShapeMatches(Tensor(c, "scale"), BlockCounts(c, QuantizeBlocks(c)))

BatchesBroadcast(dims, output) ==
  \A a \in 1..(Len(output) - 2) : dims[a] \in {1, output[a]}

ExtentFits(c, port) ==
  LET dims == Dims(c, port)
      rank == Rank(c, "C")
  IN /\ Tensor(c, port).plain /\ Type(c, port) = "INT32"
     /\ Len(dims) = rank /\ dims[rank - 1] = 1 /\ dims[rank] = 1
     /\ BatchesBroadcast(dims, Dims(c, "C"))

ValidateMatmulFp8(c) ==
  LET rank == Rank(c, "A")
  IN /\ c.floatCompute
     /\ \A port \in {"A", "B"} : Type(c, port) \in Float8s
     /\ Type(c, "C") \in Float8s \cup Floats
     /\ \A port \in {"Amax_C", "Descale_A", "Descale_B", "Scale_C"} :
          Type(c, port) = "FLOAT" /\ IsScalar(c, port)
     /\ rank >= 2 /\ Rank(c, "B") = rank /\ Rank(c, "C") = rank
     /\ Dims(c, "A")[rank] = Dims(c, "B")[rank - 1]
     /\ Dims(c, "C")[rank - 1] = Dims(c, "A")[rank - 1]
     /\ Dims(c, "C")[rank] = Dims(c, "B")[rank]
     /\ \A port \in {"A", "B"} : BatchesBroadcast(Dims(c, port), Dims(c, "C"))
     /\ \A port \in Extents \cap DOMAIN c.ports : ExtentFits(c, port)

SharesFloat(c, ports) ==
  \E type \in Floats : \A port \in ports : Type(c, port) = type /\ Rank(c, port) = 3

(* tokens, inner and outer are the axes that the three tensors share.      *)
ExpertShapes(c, source, weights, result) ==
  /\ SharesFloat(c, {source, weights, result})
  /\ Type(c, "FirstTokenOffset") = "INT32"
  /\ Dims(c, "FirstTokenOffset") = <<Dims(c, weights)[1], 1, 1>>
  /\ Dims(c, source)[1] = 1 /\ Dims(c, result)[1] = 1
  /\ Dims(c, result)[2] = Dims(c, source)[2]
  /\ Dims(c, weights)[2] = Dims(c, source)[3]
  /\ Dims(c, weights)[3] = Dims(c, result)[3]

ValidateMoeForward(c) ==
  c.mode = "NONE" /\ c.topK \in 0..1 /\ ExpertShapes(c, "Token", "Weight", "Output")
ValidateMoeBackward(c) == ExpertShapes(c, "Token", "DWeight", "DOutput")

ValidateOperation(c) ==
  CASE c.tag = "BLOCK_SCALE_DEQUANTIZE" -> ValidateBlockDequantize(c)
    [] c.tag = "BLOCK_SCALE_QUANTIZE" -> ValidateBlockQuantize(c)
    [] c.tag = "MATMUL_FP8" -> ValidateMatmulFp8(c)
    [] c.tag = "MOE_GROUPED_MATMUL" -> ValidateMoeForward(c)
    [] OTHER -> ValidateMoeBackward(c)

(***************************************************************************)
(* What the loops load and compute.                                        *)
(***************************************************************************)
Load(c, port, i) == LoadAsF32(Tensor(c, port), memory[c.ports[port]], i)
LoadInteger(c, port, i) == memory[c.ports[port]][CellOf(Tensor(c, port), i)]
LoadScalar(c, port) == Load(c, port, [a \in Axes(Dims(c, port)) |-> 0])

BlockOf(i, blocks) == [a \in Axes(i) |-> i[a] \div blocks[a]]

Dequantized(c, i) ==
  Times(Load(c, "X", i), Load(c, "scale", BlockOf(i, DequantizeBlocks(c))))

(* The scale that maps the largest of a block to the largest of the format.*)
BlockScaleValue(amax, output, scale) ==
  LET desired == Over(amax, QuantizedMaximum(output))
      guarded == IF IsZero(desired) THEN Number(1) ELSE desired
  IN IF scale = "FP8_E8M0" THEN CeilingPower(guarded) ELSE guarded

(* Fault: the first element of a block is left out of its maximum.         *)
BlockMaximumLate(c, b) ==
  LET a == SelectedAxis(c)
      max[k \in 0..c.block] ==
        IF k <= 1 THEN Number(0)
        ELSE Maximum(max[k - 1], Magnitude(Load(c, "X", [b EXCEPT ![a] = @ * c.block + k - 1])))
  IN max[c.block]
BlockMaximum(c, b) ==
  LET a == SelectedAxis(c)
      max[k \in 0..c.block] ==
        IF k = 0 THEN Number(0)
        ELSE Maximum(max[k - 1], Magnitude(Load(c, "X", [b EXCEPT ![a] = @ * c.block + k - 1])))
  IN max[c.block]

BlockScale(c, b) == BlockScaleValue(BlockMaximum(c, b), Type(c, "Y"), Type(c, "scale"))
Quantized(c, i) == Over(Load(c, "X", i), Load(c, "scale", BlockOf(i, QuantizeBlocks(c))))

(* An index is active below its extent, which batches may share.           *)
IndexIsActive(c, port, index, i) ==
  Has(c, port) =>
    index < LoadInteger(c, port, [a \in Axes(i) |-> IF Dims(c, port)[a] = 1 THEN 0 ELSE i[a]])

BatchIndex(c, port, i) ==
  [a \in Axes(i) |-> IF a <= Len(i) - 2 /\ Dims(c, port)[a] = 1 THEN 0 ELSE i[a]]

MatmulElement(c, i) ==
  LET rank == Rank(c, "A")
      products ==
        [k \in 0..(Dims(c, "A")[rank] - 1) |->
           IF ~ IndexIsActive(c, "K_override", k, i) THEN Number(0)
           ELSE Times(Load(c, "A", [BatchIndex(c, "A", i) EXCEPT ![rank] = k]),
                      Load(c, "B", [BatchIndex(c, "B", i) EXCEPT ![rank - 1] = k]))]
  IN IF /\ IndexIsActive(c, "M_override", i[rank - 1], i)
        /\ IndexIsActive(c, "N_override", i[rank], i)
     THEN Times(Times(Total(products), LoadScalar(c, "Descale_A")), LoadScalar(c, "Descale_B"))
     ELSE Number(0)

AmaxC(c) ==
  LET count == ElementCount(Dims(c, "C"))
      max[k \in 0..count] ==
        IF k = 0 THEN Number(0)
        ELSE Maximum(max[k - 1], Magnitude(MatmulElement(c, Delinear(k - 1, Dims(c, "C")))))
  IN max[count]

(* The last expert that starts at or before a token, in unsigned numbers.  *)
ExpertForToken(c, experts, token) ==
  LET selected[e \in 0..experts] ==
        IF e = 0 THEN 0
        ELSE LET start == LoadInteger(c, "FirstTokenOffset", <<e - 1, 0, 0>>)
             IN IF start >= 0 /\ token >= start THEN e - 1 ELSE selected[e - 1]
  IN selected[experts]

MoeOutput(c, i) ==
  LET expert == ExpertForToken(c, Dims(c, "Weight")[1], i[2])
  IN Total([k \in 0..(Dims(c, "Token")[3] - 1) |->
              Times(Load(c, "Token", <<0, i[2], k>>), Load(c, "Weight", <<expert, k, i[3]>>))])

MoeGradient(c, i) ==
  Total([t \in 0..(Dims(c, "Token")[2] - 1) |->
           IF ExpertForToken(c, Dims(c, "DWeight")[1], t) # i[1] THEN Number(0)
           ELSE Times(Load(c, "Token", <<0, t, i[2]>>), Load(c, "DOutput", <<0, t, i[3]>>))])

(***************************************************************************)
(* The loops: the port each one stores to, its extents, and its values.    *)
(***************************************************************************)
Stages(c) ==
  CASE c.tag = "BLOCK_SCALE_DEQUANTIZE" -> <<[port |-> "Y", dims |-> Dims(c, "Y")]>>
    [] c.tag = "BLOCK_SCALE_QUANTIZE" ->
         <<[port |-> "scale", dims |-> Dims(c, "scale")],
           [port |-> "scale", dims |-> BlockCounts(c, QuantizeBlocks(c))],
           [port |-> "Y", dims |-> Dims(c, "Y")]>>
    [] c.tag = "MATMUL_FP8" ->
         <<[port |-> "Amax_C", dims |-> Dims(c, "Amax_C")], [port |-> "C", dims |-> Dims(c, "C")]>>
    [] c.tag = "MOE_GROUPED_MATMUL" -> <<[port |-> "Output", dims |-> Dims(c, "Output")]>>
    [] OTHER -> <<[port |-> "DWeight", dims |-> Dims(c, "DWeight")]>>

Computed(c, s, i) ==
  CASE c.tag = "BLOCK_SCALE_DEQUANTIZE" -> Dequantized(c, i)
    [] c.tag = "BLOCK_SCALE_QUANTIZE" ->
         (CASE s = 1 -> Number(1) [] s = 2 -> BlockScale(c, i) [] OTHER -> Quantized(c, i))
    [] c.tag = "MATMUL_FP8" ->
         IF s = 1 THEN AmaxC(c) ELSE Times(MatmulElement(c, i), LoadScalar(c, "Scale_C"))
    [] c.tag = "MOE_GROUPED_MATMUL" -> MoeOutput(c, i)
    [] OTHER -> MoeGradient(c, i)

(* What the caller's memory holds: its contents, and junk everywhere else. *)
Junk(type) ==
  IF type \in Formats \cup {"INT4"} THEN 165 ELSE IF type = "INT32" THEN -1 ELSE <<1, 7, 7>>

CallMemory(c) ==
  LET Cell(t, contents, cell) ==
        LET there == {i \in Indices(t.dims) : CellOf(t, i) = cell}
            Code(high) ==
              IF \E i \in there : IsHigh(t, i) = high
              THEN contents[CHOOSE i \in there : IsHigh(t, i) = high] ELSE 5
        IN IF there = {} THEN Junk(t.type)
           ELSE IF IsPacked(t.type) THEN 16 * Code(TRUE) + Code(FALSE)
           ELSE contents[CHOOSE i \in there : TRUE]
      Filled(port) ==
        LET t == Tensor(c, port)
        IN [cell \in Cells(t) |->
              IF port \in Outputs(c) THEN Junk(t.type) ELSE Cell(t, c.contents[port], cell)]
  IN [uid \in {c.ports[port] : port \in DOMAIN c.ports} |->
        Filled(CHOOSE port \in DOMAIN c.ports : c.ports[port] = uid)]

ValidateSpecializedOperation ==
  /\ phase = "validate"
  /\ phase' = IF HasPorts(call) /\ HasLayouts(call) /\ ValidateOperation(call)
              THEN "emit" ELSE "refused"
  /\ UNCHANGED <<call, stage, next, memory>>

EmitSpecializedOperation ==
  /\ phase = "emit"
  /\ IF \A s \in DOMAIN Stages(call) :
          /\ ElementCountFits(Stages(call)[s].dims)
          /\ ElementCount(Stages(call)[s].dims) <= MaxI64
     THEN phase' = "loop" /\ memory' = CallMemory(call)
     ELSE phase' = "refused" /\ UNCHANGED memory
  /\ UNCHANGED <<call, stage, next>>

Iterate ==
  /\ phase = "loop"
  /\ LET loop == Stages(call)[stage]
         last == next + 1 = ElementCount(loop.dims)
         i == Delinear(next, loop.dims)
         t == Tensor(call, loop.port)
         uid == call.ports[loop.port]
     IN /\ memory' = [memory EXCEPT ![uid][CellOf(t, i)] =
                        StoredFromF32(t, memory[uid], i, Computed(call, stage, i))]
        /\ next' = IF last THEN 0 ELSE next + 1
        /\ stage' = IF last THEN stage + 1 ELSE stage
        /\ phase' = IF last /\ stage = Len(Stages(call)) THEN "done" ELSE "loop"
  /\ UNCHANGED call

Init ==
  /\ call \in Cases
  /\ phase = "validate" /\ stage = 1 /\ next = 0
  /\ memory = [uid \in {} |-> [cell \in {} |-> 0]]

Next == ValidateSpecializedOperation \/ EmitSpecializedOperation \/ Iterate

Spec == Init /\ [][Next]_vars

(***************************************************************************)
(* What the operations mean, of the values that the caller provides.       *)
(***************************************************************************)
Given(c, port, i) == ValueOf(Type(c, port), c.contents[port][i])
Only(c, port) == Given(c, port, [a \in Axes(Dims(c, port)) |-> 0])

InBlock(i, b, blocks) ==
  \A a \in Axes(i) : i[a] \in (b[a] * blocks[a])..((b[a] + 1) * blocks[a] - 1)

StoredCode(c, port, i) == Held(Tensor(c, port), memory[c.ports[port]], i)

(* The code of a format nearest to v, of two the even one; beyond its      *)
(* largest number, that.                                                   *)
IsNearest(type, v, code) ==
  LET w == Decode(type, code)
      finite == {Decode(type, k) : k \in Codes(type)} \ {NaN, <<1, 1, 0>>, <<-1, 1, 0>>}
  IN IF IsNaN(v) THEN IsNaN(w) \/ type = "FP4_E2M1"
     ELSE /\ w \in finite
          /\ IF Larger(v, QuantizedMaximum(type))
             THEN Magnitude(w) = QuantizedMaximum(type) /\ w[1] = v[1]
             ELSE \A f \in finite :
                    \/ Larger(Distance(v, f), Distance(v, w))
                    \/ Distance(v, f) = Distance(v, w) /\ (code % 2 = 0 \/ Distance(w, f) = Number(0))

IsStored(c, port, i, v) ==
  IF Type(c, port) \in Formats THEN IsNearest(Type(c, port), v, StoredCode(c, port, i))
  ELSE Load(c, port, i) = v

IsDequantized(c) ==
  \A i \in Indices(Dims(c, "Y")), b \in Indices(BlockCounts(c, DequantizeBlocks(c))) :
    InBlock(i, b, DequantizeBlocks(c)) =>
      IsStored(c, "Y", i, Times(Given(c, "X", i), Given(c, "scale", b)))

(* An E8M0 scale is the least that saturates nothing, an E4M3 scale the    *)
(* nearest to what maps the largest of a block to the largest of FP4.      *)
IsScaleOf(c, b, xs) ==
  LET s == Load(c, "scale", b)
      max == QuantizedMaximum(Type(c, "Y"))
      Exceeds(x, scale) == Larger(x, Times(scale, max))
  IN IF NaN \in xs THEN IsNaN(s)
     ELSE IF \A x \in xs : IsZero(x) THEN s = Number(1)
     ELSE IF Type(c, "scale") = "FP8_E8M0"
     THEN /\ s # QuantizedMaximum("FP8_E8M0") => \A x \in xs : ~ Exceeds(x, s)
          /\ s # Decode("FP8_E8M0", 0) => \E x \in xs : Exceeds(x, Times(s, PowerOfTwo(-1)))
     ELSE LET amax == CHOOSE x \in xs : \A z \in xs : ~ Larger(z, x)
          IN IsNearest("FP8_E4M3", Over(Magnitude(amax), max), StoredCode(c, "scale", b))

IsQuantized(c) ==
  \A b \in Indices(BlockCounts(c, QuantizeBlocks(c))) :
    LET inside == {i \in Indices(Dims(c, "X")) : InBlock(i, b, QuantizeBlocks(c))}
        s == Load(c, "scale", b)
    IN /\ IsScaleOf(c, b, {Given(c, "X", i) : i \in inside})
       /\ \A i \in inside : IsStored(c, "Y", i, Over(Given(c, "X", i), s))

(* The extent of a product in the batch of element i.                      *)
Extent(c, port, i, all) ==
  IF ~ Has(c, port) THEN all
  ELSE c.contents[port][[a \in Axes(i) |-> IF Dims(c, port)[a] = 1 THEN 0 ELSE i[a]]]

ProductAt(c, i) ==
  LET rank == Rank(c, "C")
      depths == {k \in 0..(Dims(c, "A")[rank] - 1) : k < Extent(c, "K_override", i, Dims(c, "A")[rank])}
      Factor(port, x) ==
        Given(c, port, [a \in Axes(x) |-> IF Dims(c, port)[a] = 1 THEN 0 ELSE x[a]])
  IN IF /\ i[rank - 1] < Extent(c, "M_override", i, Dims(c, "C")[rank - 1])
        /\ i[rank] < Extent(c, "N_override", i, Dims(c, "C")[rank])
     THEN Times(Times(Only(c, "Descale_A"), Only(c, "Descale_B")),
                Total([k \in depths |->
                         Times(Factor("A", [i EXCEPT ![rank] = k]), Factor("B", [i EXCEPT ![rank - 1] = k]))]))
     ELSE Number(0)

IsProduct(c) ==
  /\ \A i \in Indices(Dims(c, "C")) :
       IsStored(c, "C", i, Times(ProductAt(c, i), Only(c, "Scale_C")))
  /\ LET amax == LoadScalar(c, "Amax_C")
         all == {Magnitude(ProductAt(c, i)) : i \in Indices(Dims(c, "C"))}
     IN amax \in all /\ \A v \in all : ~ Larger(v, amax)

(* Expert e serves the tokens from its first up to the next expert's.      *)
TokensOf(c, e, experts) ==
  LET First(k) == c.contents["FirstTokenOffset"][<<k, 0, 0>>]
  IN {t \in 0..(Dims(c, "Token")[2] - 1) :
        t >= First(e) /\ (e + 1 < experts => t < First(e + 1))}

IsRouted(c) ==
  LET experts == Dims(c, "Weight")[1]
  IN \A e \in 0..(experts - 1) : \A t \in TokensOf(c, e, experts), n \in 0..(Dims(c, "Output")[3] - 1) :
       IsStored(c, "Output", <<0, t, n>>,
                Total([k \in 0..(Dims(c, "Token")[3] - 1) |->
                         Times(Given(c, "Token", <<0, t, k>>), Given(c, "Weight", <<e, k, n>>))]))

IsRoutedBack(c) ==
  LET experts == Dims(c, "DWeight")[1]
  IN \A i \in Indices(Dims(c, "DWeight")) :
       IsStored(c, "DWeight", i,
                Total([t \in TokensOf(c, i[1], experts) |->
                         Times(Given(c, "Token", <<0, t, i[2]>>), Given(c, "DOutput", <<0, t, i[3]>>))]))

(* No store changes a cell, or half of one, that holds no element.         *)
RestUntouched(c, port) ==
  LET t == Tensor(c, port)
      held == memory[c.ports[port]]
      In(cell) == {i \in Indices(t.dims) : CellOf(t, i) = cell}
      Half(cell, high) == IF high THEN held[cell] \div 16 ELSE held[cell] % 16
  IN \A cell \in Cells(t) :
       IF IsPacked(t.type)
       THEN \A high \in BOOLEAN :
              (\A i \in In(cell) : IsHigh(t, i) # high) => Half(cell, high) = IF high THEN 10 ELSE 5
       ELSE In(cell) = {} => held[cell] = Junk(t.type)

(***************************************************************************)
(* Properties.                                                             *)
(***************************************************************************)
(* A finished node has stored what its operation means: each block of a    *)
(* quantized tensor has the scale that fits it and each of its elements    *)
(* the nearest code under that scale, packed neighbours and rounding ties  *)
(* included; products respect the extents of their batch, and the largest  *)
(* one is reported; every token meets the expert that its offset names.    *)
SpecializedIsReference ==
  phase = "done" =>
    /\ CASE call.tag = "BLOCK_SCALE_DEQUANTIZE" -> IsDequantized(call)
         [] call.tag = "BLOCK_SCALE_QUANTIZE" -> IsQuantized(call)
         [] call.tag = "MATMUL_FP8" -> IsProduct(call)
         [] call.tag = "MOE_GROUPED_MATMUL" -> IsRouted(call)
         [] OTHER -> IsRoutedBack(call)
    /\ \A port \in Outputs(call) : RestUntouched(call, port)
=============================================================================
