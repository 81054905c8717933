-------------------------- MODULE DirectConvolution --------------------------
(***************************************************************************)
(* A convolution from its serialized form to the kernel that runs: its     *)
(* import as tensor operations (lib/MLIR/Conv2DImporter.cpp), the choice   *)
(* of a schedule (Schedule.cpp), the loops emitted for it and what they    *)
(* load and store (ScalarLowering.cpp).                                    *)
(*                                                                         *)
(* A graph is [compute, dynamic, tensors, uids, pre, post, stride,         *)
(* dilation]; uids names X, W and Y.  A tensor is [dims, strides, type,    *)
(* plain] with axes N, C, H, W, or K, C, R, S for the filter.  An element  *)
(* is its address in its buffer; Zero is the padding.  A sum is the set of *)
(* the iterations that added to it, each with the addresses multiplied.    *)
(***************************************************************************)
EXTENDS TensorLayout

CONSTANTS
  DirectGraphs, (* graphs compiled                                         *)
  VectorWidth,  (* lanes of each variant's vectors                         *)
  Registers     (* vector registers of each variant                        *)

VARIABLES
  source,       (* the serialized graph                                    *)
  compiling,    (* import, verify, schedule, lower, pad, kernel, done, or  *)
                (* what refused                                            *)
  metadata,     (* Conv2DCompileMetadata: [x, w, y, padded] physical shapes*)
  program,      (* the imported operations: [pad, strides, dilations]      *)
  variant,      (* the CPU variant compiled                                *)
  schedule,     (* its Conv2DSchedule                                      *)
  buffer,       (* what the convolution reads: address |-> address in X    *)
  results,      (* Y: address |-> sum                                      *)
  position,     (* next iteration of the kernel: [pixel, channel]          *)
  loads,        (* loads executed: [input, weight]                         *)
  strayed       (* an access left its buffer                               *)

directVars == <<source, compiling, metadata, program, variant, schedule, buffer, results,
                position, loads, strayed>>

(* Graphs as they are parsed, and the facts of the targets.                *)
GraphsWellFormed ==
  \A g \in DirectGraphs :
    /\ Len(g.uids) = 3
    /\ \A u \in DOMAIN g.tensors :
         g.tensors[u].dims \in Seq(Int) /\ g.tensors[u].strides \in Seq(Int)
    /\ \A list \in {g.pre, g.post} : list \in Seq(Int) /\ Len(list) = 2

TargetFacts ==
  /\ VectorWidth["scalar"] = 1
  /\ \A v \in {"avx2", "avx512"} : VectorWidth[v] \in Nat \ {0, 1}

Zero == -1
Items(s) == {s[k] : k \in 1..Len(s)}

(***************************************************************************)
(* Import.                                                                 *)
(***************************************************************************)
Tensor(g, role) == g.tensors[g.uids[role]]

(* Address order N, H, W, C, or K, R, S, C.                                *)
Physical(dims) == <<dims[1], dims[3], dims[4], dims[2]>>

PackedStride(dims) ==
  <<dims[2] * dims[3] * dims[4], 1, dims[4] * dims[2], dims[2]>>

StrideFits(dims) == \A s \in Items(PackedStride(dims)) : s <= MaxI64

OutputExtentFits(g, s) ==
  LET total == Tensor(g, 1).dims[s + 2] + g.pre[s] + g.post[s]
      filter == Tensor(g, 2).dims[s + 2]
  IN /\ total < MaxI64
     /\ total >= filter
     /\ Tensor(g, 3).dims[s + 2] = total - filter + 1

ValidCanonicalModel(g) ==
  /\ g.compute = "FLOAT" /\ ~g.dynamic
  /\ Cardinality(DOMAIN g.tensors) = 3
  /\ Cardinality(Items(g.uids)) = 3 /\ Items(g.uids) \subseteq DOMAIN g.tensors
  /\ \A u \in DOMAIN g.tensors :
       LET t == g.tensors[u]
       IN /\ t.type = "FLOAT" /\ t.plain
          /\ Len(t.dims) = 4 /\ Len(t.strides) = 4
          /\ \A a \in 1..4 : t.dims[a] > 0
  /\ LET x == Tensor(g, 1).dims  w == Tensor(g, 2).dims  y == Tensor(g, 3).dims
     IN x[2] = w[2] /\ y[1] = x[1] /\ y[2] = w[1]
  /\ \A s \in 1..2 :
       /\ g.pre[s] >= 0 /\ g.post[s] >= 0
       /\ g.stride[s] = 1 /\ g.dilation[s] = 1
       /\ OutputExtentFits(g, s)
  /\ \A role \in 1..3 :
       /\ StrideFits(Tensor(g, role).dims)
       /\ Tensor(g, role).strides = PackedStride(Tensor(g, role).dims)

PaddedShape(g) ==
  LET x == Physical(Tensor(g, 1).dims)
  IN [x EXCEPT ![2] = @ + g.pre[1] + g.post[1], ![3] = @ + g.pre[2] + g.post[2]]

MetadataOf(g) ==
  [x |-> Physical(Tensor(g, 1).dims), w |-> Physical(Tensor(g, 2).dims),
   y |-> Physical(Tensor(g, 3).dims), padded |-> PaddedShape(g)]

MetadataFits(m) ==
  \A shape \in {m.x, m.w, m.y} : HasStorage("FLOAT", shape, PackedStrides(shape))

NeedsPadding(g) == g.pre # <<0, 0>> \/ g.post # <<0, 0>>

NoPad == [low |-> <<>>, high |-> <<>>, shape |-> <<>>]

PadOf(g) ==
  [low |-> <<0, g.pre[1], g.pre[2], 0>>, high |-> <<0, g.post[1], g.post[2], 0>>,
   shape |-> PaddedShape(g)]

ImportConv2d ==
  /\ compiling = "import"
  /\ \/ /\ ~ValidCanonicalModel(source) \/ ~MetadataFits(MetadataOf(source))
        /\ compiling' = "refused"
        /\ UNCHANGED <<metadata, program>>
     \/ /\ ValidCanonicalModel(source) /\ MetadataFits(MetadataOf(source))
        /\ metadata' = MetadataOf(source)
        /\ program' = [pad |-> IF NeedsPadding(source) THEN PadOf(source) ELSE NoPad,
                       strides |-> <<1, 1>>, dilations |-> <<1, 1>>]
        /\ compiling' = "verify"
  /\ UNCHANGED <<source, variant, schedule, buffer, results, position, loads, strayed>>

(* The verifier reads the extents out of the graph again.                  *)
VerifiedStructure(g, p) ==
  /\ p.pad =
       IF g.pre # <<0, 0>> \/ g.post # <<0, 0>>
       THEN [low |-> <<0, g.pre[1], g.pre[2], 0>>,
             high |-> <<0, g.post[1], g.post[2], 0>>, shape |-> PaddedShape(g)]
       ELSE NoPad
  /\ p.strides = <<1, 1>> /\ p.dilations = <<1, 1>>

VerifyConv2dModule ==
  /\ compiling = "verify"
  /\ compiling' = IF VerifiedStructure(source, program) THEN "schedule" ELSE "unverified"
  /\ UNCHANGED <<source, metadata, program, variant, schedule, buffer, results,
                 position, loads, strayed>>

(***************************************************************************)
(* The schedule, in saturating arithmetic.                                 *)
(***************************************************************************)
Saturated(n) == IF n > MaxU64 THEN MaxU64 ELSE n

(* Loads of one operand for one output: whole vectors of channels and the  *)
(* channels left over.                                                     *)
ReductionLoadSteps(m, width) ==
  Saturated(Saturated(m.w[2] * m.w[3]) * ((m.w[4] \div width) + (m.w[4] % width)))

(* Fault: the channels left over are counted as one more block.            *)
CandidateWholeBlocks(m, v, unroll, applied) ==
  LET steps == ReductionLoadSteps(m, VectorWidth[v])
      groups == (m.y[4] + unroll - 1) \div unroll
  IN [width |-> VectorWidth[v], unroll |-> unroll, applied |-> applied,
      inputLoads |-> Saturated(groups * steps),
      weightLoads |-> Saturated(m.y[4] * steps)]
Candidate(m, v, unroll, applied) ==
  LET steps == ReductionLoadSteps(m, VectorWidth[v])
      groups == (m.y[4] \div unroll) + (m.y[4] % unroll)
  IN [width |-> VectorWidth[v], unroll |-> unroll, applied |-> applied,
      inputLoads |-> Saturated(groups * steps),
      weightLoads |-> Saturated(m.y[4] * steps)]

Score(s) ==
  Saturated(Saturated(Saturated(s.inputLoads * 2) + s.weightLoads) + s.unroll * 16)

(* A candidate is taken when it fits and scores less than the ones before. *)
Better(m, v, unroll, best) ==
  LET current == Candidate(m, v, unroll, TRUE)
  IN IF /\ unroll <= m.y[4] /\ 2 * unroll + 4 <= Registers[v]
        /\ Score(current) < Score(best)
     THEN current ELSE best

SelectedSchedule(m, v, auto) ==
  LET baseline == Candidate(m, v, 1, FALSE)
      best == Better(m, v, 8, Better(m, v, 4, Better(m, v, 2, baseline)))
  IN IF ~auto \/ v = "scalar" THEN baseline ELSE [best EXCEPT !.applied = TRUE]

SelectConv2dSchedule ==
  /\ compiling = "schedule"
  /\ \E v \in {"scalar", "avx2", "avx512"}, auto \in BOOLEAN :
       /\ variant' = v
       /\ schedule' = SelectedSchedule(metadata, v, auto)
  /\ compiling' = "lower"
  /\ UNCHANGED <<source, metadata, program, buffer, results, position, loads, strayed>>

(***************************************************************************)
(* Lowering and running.                                                   *)
(***************************************************************************)
CanLower(m, v, s) ==
  /\ s.width = VectorWidth[v]
  /\ s.unroll > 0 /\ (v = "scalar" => s.unroll = 1)
  /\ v # "scalar" => s.width > 1 /\ s.unroll <= m.y[4]

LowerConv2dVariant ==
  /\ compiling = "lower"
  /\ compiling' = IF CanLower(metadata, variant, schedule) THEN "pad" ELSE "unlowered"
  /\ UNCHANGED <<source, metadata, program, variant, schedule, buffer, results,
                 position, loads, strayed>>

(* The buffer of the padded input, or X itself.                            *)
PadInput ==
  /\ compiling = "pad"
  /\ buffer' =
       [address \in 0..(ElementCount(metadata.padded) - 1) |->
          IF program.pad = NoPad THEN address
          ELSE LET at == Delinear(address, metadata.padded)
                   x == [a \in 1..4 |-> at[a] - program.pad.low[a]]
               IN IF \A a \in 1..4 : x[a] \in 0..(metadata.x[a] - 1)
                  THEN Linear(x, metadata.x) ELSE Zero]
  /\ results' = [address \in 0..(ElementCount(metadata.y) - 1) |-> {}]
  /\ compiling' = "kernel"
  /\ UNCHANGED <<source, metadata, program, variant, schedule, position, loads, strayed>>

Pixel == Delinear(position.pixel, SubSeq(metadata.y, 1, 3))

(* Channels from which a vector is loaded, and the single ones after them. *)
VectorChannels(width) ==
  {c \in 0..((metadata.w[4] \div width) * width - 1) : c % width = 0}
TailChannels(width) == ((metadata.w[4] \div width) * width)..(metadata.w[4] - 1)

(* The iterations [r, s, c, lane] of the reduction of one output element.  *)
Iterations(width) ==
  (0..(metadata.w[2] - 1)) \X (0..(metadata.w[3] - 1))
    \X (   {<<c, lane>> : c \in VectorChannels(width), lane \in 0..(width - 1)}
      \cup {<<c, 0>> : c \in TailChannels(width)})

InputAddress(i) ==
  Linear(<<Pixel[1], Pixel[2] + i[1], Pixel[3] + i[2], i[3][1]>>, metadata.padded) + i[3][2]
WeightAddress(k, i) == Linear(<<k, i[1], i[2], i[3][1]>>, metadata.w) + i[3][2]

Accumulated(k, width) ==
  {<<i, IF InputAddress(i) \in DOMAIN buffer THEN buffer[InputAddress(i)] ELSE -2,
     WeightAddress(k, i)>> : i \in Iterations(width)}

Strays(k, width) ==
  \E i \in Iterations(width) :
    \/ InputAddress(i) \notin DOMAIN buffer
    \/ WeightAddress(k, i) \notin 0..(ElementCount(metadata.w) - 1)

(* The outputs [pixel, k] for the channels from the position's on; an      *)
(* input load serves the whole block.                                      *)
EmitOutputBlock(size, width) ==
  LET block == position.channel..(position.channel + size - 1)
      AddressOf(k) == position.pixel * metadata.y[4] + k
      steps == metadata.w[2] * metadata.w[3]
                 * (Cardinality(VectorChannels(width)) + Cardinality(TailChannels(width)))
  IN /\ results' = [address \in DOMAIN results |->
                     IF \E k \in block : AddressOf(k) = address
                     THEN results[address] \cup Accumulated(address % metadata.y[4], width)
                     ELSE results[address]]
     /\ strayed' = (strayed \/ \E k \in block :
                               AddressOf(k) \notin DOMAIN results \/ Strays(k, width))
     /\ loads' = [input |-> loads.input + steps, weight |-> loads.weight + size * steps]
     /\ position' = IF position.channel + size < metadata.y[4]
                    THEN [position EXCEPT !.channel = @ + size]
                    ELSE [pixel |-> position.pixel + 1, channel |-> 0]

(* Fault: the channels behind the last whole block make a block as well.   *)
FullChannelsRoundedUp(unroll) ==
  ((metadata.y[4] + unroll - 1) \div unroll) * unroll
FullChannels(unroll) == (metadata.y[4] \div unroll) * unroll

Pixels == metadata.y[1] * metadata.y[2] * metadata.y[3]
InKernel == compiling = "kernel" /\ position.pixel < Pixels
KernelStep == UNCHANGED <<source, compiling, metadata, program, variant, schedule, buffer>>

ScalarElement ==
  /\ InKernel /\ variant = "scalar"
  /\ EmitOutputBlock(1, 1)
  /\ KernelStep

VectorBlock ==
  /\ InKernel /\ variant # "scalar"
  /\ position.channel < FullChannels(schedule.unroll)
  /\ EmitOutputBlock(schedule.unroll, schedule.width)
  /\ KernelStep

VectorTail ==
  /\ InKernel /\ variant # "scalar"
  /\ position.channel >= FullChannels(schedule.unroll)
  /\ EmitOutputBlock(1, schedule.width)
  /\ KernelStep

Return ==
  /\ compiling = "kernel" /\ position.pixel = Pixels
  /\ compiling' = "done"
  /\ UNCHANGED <<source, metadata, program, variant, schedule, buffer, results,
                 position, loads, strayed>>

DirectInit ==
  /\ source \in DirectGraphs
  /\ compiling = "import"
  /\ metadata = [x |-> <<>>, w |-> <<>>, y |-> <<>>, padded |-> <<>>]
  /\ program = [pad |-> NoPad, strides |-> <<>>, dilations |-> <<>>]
  /\ variant = "scalar"
  /\ schedule = [width |-> 1, unroll |-> 1, applied |-> FALSE,
                 inputLoads |-> 0, weightLoads |-> 0]
  /\ buffer = <<>> /\ results = <<>>
  /\ position = [pixel |-> 0, channel |-> 0]
  /\ loads = [input |-> 0, weight |-> 0]
  /\ strayed = FALSE

DirectNext ==
  \/ ImportConv2d \/ VerifyConv2dModule \/ SelectConv2dSchedule
  \/ LowerConv2dVariant \/ PadInput
  \/ ScalarElement \/ VectorBlock \/ VectorTail \/ Return

DirectSpec == DirectInit /\ [][DirectNext]_directVars

(***************************************************************************)
(* Properties.                                                             *)
(***************************************************************************)
(* The products of an output element by the definition of a padded         *)
(* convolution, at the addresses the graph's own strides give.             *)
ReferenceTerms(n, k, p, q) ==
  LET x == Tensor(source, 1)
      w == Tensor(source, 2)
      inside == {t \in (0..(w.dims[2] - 1)) \X (0..(w.dims[3] - 1)) \X (0..(w.dims[4] - 1)) :
                   /\ p + t[2] - source.pre[1] \in 0..(x.dims[3] - 1)
                   /\ q + t[3] - source.pre[2] \in 0..(x.dims[4] - 1)}
  IN {<<Dot(<<n, t[1], p + t[2] - source.pre[1], q + t[3] - source.pre[2]>>, x.strides),
        Dot(<<k, t[1], t[2], t[3]>>, w.strides)>> : t \in inside}

(* Whatever variant and schedule is chosen, the kernel of an accepted      *)
(* graph stays in its buffers and leaves at each element of Y, as the      *)
(* serialized strides address it, every product of the padded convolution  *)
(* once and nothing else: vector remainders, blocks of output channels and *)
(* padding included (lower_vector_conv, lower_scalar_conv, import_conv2d). *)
(* The verifier and the lowering refuse nothing the importer hands them.   *)
KernelConvolves ==
  LET y == Tensor(source, 3)
  IN /\ ~strayed /\ compiling \notin {"unverified", "unlowered"}
     /\ compiling = "done" =>
          \A i \in Indices(y.dims) :
            LET products == {t \in results[Dot(i, y.strides)] : t[2] # Zero}
            IN /\ {<<t[2], t[3]>> : t \in products} = ReferenceTerms(i[1], i[2], i[3], i[4])
               /\ \A t, u \in products : <<t[2], t[3]>> = <<u[2], u[3]>> => t = u

(* What the cost model predicts for an output pixel is what the loops it   *)
(* chose load (candidate in Schedule.cpp, the loops of ScalarLowering.cpp).*)
EstimateCountsLoads ==
  compiling = "done" =>
    /\ loads.input = Pixels * schedule.inputLoads
    /\ loads.weight = Pixels * schedule.weightLoads
=============================================================================
