---------------------------- MODULE MCGraphKernels ----------------------------
(***************************************************************************)
(* From a document to what a compiled graph executes, by family: the       *)
(* import of documents, nodes whose shapes are taken at run time,          *)
(* attention, specialized and normalization nodes, nodes that store each   *)
(* element from a few, the convolutions of training graphs, and the        *)
(* convolution that is compiled on its own, with the planning of its       *)
(* buffers.  A behaviour belongs to one family; the documents, graphs,     *)
(* calls and data of each but the last two are those of its own MC module. *)
(***************************************************************************)
EXTENDS TrainingConvolution, DirectConvolution, BufferizationPipeline

CONSTANTS
  Tile,
  Documents,           (* imported as they are and with an edit            *)
  OverrideGraphs, AttentionCases, SpecializedCases, NormalizationCases, ElementCases,
  Convolutions         (* whether the families of convolutions take part   *)

VARIABLES
  family,
  graph, phase, part, node, next, memory, stray,       (* of several       *)
  written,
  resolved, seen,                                      (* ShapeOverride    *)
  call,                                                (* kernels          *)
  input                                                (* import           *)

overrideVars == <<resolved, seen>>
planVars == <<body, stage, records, planned, views, plannerVars>>

(* E5M2 and E8M0 with four bits of exponent.                               *)
MCExponentBits ==
  [type \in {"FP8_E4M3", "FP8_E5M2", "FP8_E8M0", "FP4_E2M1"} |-> IF type = "FP4_E2M1" THEN 2 ELSE 4]
(* Vectors of two and four floats.                                         *)
MCVectorWidth == [scalar |-> 1, avx2 |-> 2, avx512 |-> 4]
MCRegisters == [scalar |-> 0, avx2 |-> 16, avx512 |-> 32]

(* What the families are given.                                            *)
OverrideData == INSTANCE MCShapeOverride WITH Graphs <- {}, Offers <- LAMBDA g : {}
AttentionData == INSTANCE MCAttentionStorage WITH Cases <- {}
SpecializedData == INSTANCE MCSpecializedKernels WITH Cases <- {}, ExponentBits <- MCExponentBits
NormalizationData == INSTANCE MCNormalizationKernels WITH Cases <- {}
ElementData ==
  INSTANCE MCElementKernels WITH Cases <- {}, Cosine <- <<>>, Sine <- <<>>, Kept <- {}, FloatMax <- 0
Import ==
  INSTANCE MCSerializedImport WITH
    document <- call, tensors <- memory, nodes <- written, code <- part,
    Inputs <- {}, IntMax <- 32767, Int32Max <- 127, UIntMax <- 65535, MaximumBytes <- 8,
    MaximumDepth <- 4, MaximumRank <- 5, Numerals <- 0..9, NulStrings <- {"nul"},
    HexWords <- {"3f800000"}

(* Training nodes over X, W and Y with these extents, Y's spatial ones      *)
(* computed, and nodes that are refused.                                   *)
TrainingNode(tag, mode, x, w, pre, post, stride, dilation) ==
  LET p == PortsOf(tag)
      uid == [port \in {p.x, p.w, p.y} |->
                CASE port = p.x -> 3 [] port = p.w -> 1 [] port = p.y -> 2]
      y == <<x[1], w[1]>> \o
           [s \in 1..Len(pre) |->
              1 + ((x[s + 2] + pre[s] + post[s] - (dilation[s] * (w[s + 2] - 1) + 1))
                     \div stride[s])]
  IN [tag |-> tag, mode |-> mode, compute |-> "FLOAT",
      inputs |-> [port \in {p.x, p.w, p.y} \ {p.out} |-> uid[port]],
      outputs |-> [port \in {p.out} |-> uid[port]],
      pre |-> pre, post |-> post, stride |-> stride, dilation |-> dilation,
      tensors |-> [u \in 1..3 |-> CASE u = 3 -> x [] u = 1 -> w [] u = 2 -> y]]

Modes == {"CROSS_CORRELATION", "CONVOLUTION"}

Lines ==
  {TrainingNode(tag, mode, <<2, 4, 5>>, <<k, c, 2>>, <<pre>>, <<1>>, <<stride>>, <<dilation>>) :
     tag \in Tags, mode \in Modes, k \in {2, 4}, c \in {2, 4}, pre \in {0, 2},
     stride \in {1, 2, 3}, dilation \in {1, 2}}

Planes ==
  {TrainingNode(tag, mode, <<1, 2, 3, 4>>, <<2, 1, 2, 3>>, <<1, 0>>, <<0, 2>>, stride, <<1, 2>>) :
     tag \in Tags, mode \in Modes, stride \in {<<1, 2>>, <<2, 1>>}}

Volumes ==
  {TrainingNode(tag, "CONVOLUTION", <<1, 1, 2, 2, 3>>, <<1, 1, 2, 1, 2>>, <<0, 1, 0>>,
                <<1, 0, 0>>, <<2, 1, 1>>, <<1, 1, 2>>) : tag \in Tags}

DataGradient ==
  TrainingNode("CONV_DGRAD", "CONVOLUTION", <<1, 2, 3>>, <<2, 1, 2>>, <<0>>, <<0>>, <<1>>, <<1>>)
RefusedNodes ==
  {[DataGradient EXCEPT !.tag = "CONV_FPROP"],
   [DataGradient EXCEPT !.inputs["W"] = 9],
   [DataGradient EXCEPT !.mode = "FULL"],
   [DataGradient EXCEPT !.stride = <<1, 1>>],
   [DataGradient EXCEPT !.tensors[3] = <<1, 3, 3>>, !.tensors[1] = <<2, 2, 2>>],
   [DataGradient EXCEPT !.tensors[3] = <<1, 3, 3>>],
   [DataGradient EXCEPT !.tensors[2] = <<1, 2, 3>>],
   [DataGradient EXCEPT !.dilation = <<MaxI64>>],
   [DataGradient EXCEPT !.post = <<MaxI64>>],
   [DataGradient EXCEPT !.stride = <<0>>],
   [DataGradient EXCEPT !.dilation = <<3>>, !.tensors[2] = <<1, 2, 1>>]}

MCTrainingNodes == Lines \cup Planes \cup Volumes \cup RefusedNodes

(* Bodies with three allocations in two orders, every choice of operands   *)
(* for the operations that follow, and allocations that cannot be planned. *)
Alloc(n) == [kind |-> "alloc", size |-> n, static |-> TRUE]
Op(kind, of) == [kind |-> kind, of |-> of]

Interleaved ==
  {<<Alloc(m), Op("use", a), Alloc(n), Op("use", b), Alloc(40), Op(k, c), Op("use", d)>> :
     m \in {40, 100}, n \in {40, 100}, k \in {"use", "dealloc"},
     a \in SUBSET {1}, b \in SUBSET {1, 3}, c \in SUBSET {1, 3, 5}, d \in SUBSET {1, 3, 5}}

Upfront ==
  {<<Alloc(100), Alloc(40), Alloc(n), Op("use", a), Op("use", b)>> :
     n \in {40, 100}, a \in SUBSET (1..3), b \in SUBSET (1..3)}

Odd ==
  {<<>>, <<Op("use", {})>>, <<Alloc(300), Op("use", {1})>>, <<Alloc(0), Op("use", {1})>>,
   <<Alloc(40), [Alloc(40) EXCEPT !.static = FALSE], Op("use", {1, 2})>>}

MCBodies == Interleaved \cup Upfront \cup Odd

(* Convolutions of C channels into K, X and filter of these sizes.         *)
FloatTensor(dims) ==
  [dims |-> dims, strides |-> PackedStride(dims), type |-> "FLOAT", plain |-> TRUE]

Conv(c, k, size, filter, pre, post) ==
  [compute |-> "FLOAT", dynamic |-> FALSE, uids |-> <<4, 7, 2>>,
   tensors |-> [u \in {2, 4, 7} |->
     FloatTensor(CASE u = 4 -> <<size[1], c, size[2], size[3]>>
                   [] u = 7 -> <<k, c, filter[1], filter[2]>>
                   [] u = 2 -> <<size[1], k, size[2] + pre[1] + post[1] - filter[1] + 1,
                                 size[3] + pre[2] + post[2] - filter[2] + 1>>)],
   pre |-> pre, post |-> post, stride |-> <<1, 1>>, dilation |-> <<1, 1>>]

Few ==
  {Conv(c, k, size, <<2, 1>>, pre, <<0, 1>>) :
     c \in {1, 2, 3, 5}, k \in {1, 2, 3, 5}, size \in {<<1, 2, 1>>, <<2, 2, 2>>},
     pre \in {<<0, 0>>, <<2, 0>>}}

(* Reductions long enough for blocks of four and of eight channels.        *)
Long == {Conv(5, 6, <<1, 3, 2>>, <<3, 2>>, <<0, 0>>, <<0, 1>>),
         Conv(7, 9, <<1, 3, 3>>, <<3, 3>>, <<0, 0>>, <<0, 0>>)}

Plain == Conv(2, 2, <<1, 2, 2>>, <<1, 1>>, <<0, 0>>, <<0, 0>>)
Unfit ==
  {[Plain EXCEPT !.stride = <<1, 2>>],
   [Plain EXCEPT !.tensors[4].strides = PackedStrides(Plain.tensors[4].dims)],
   [Plain EXCEPT !.tensors[2].dims[3] = 1],
   [Plain EXCEPT !.uids = <<4, 7, 4>>],
   [Plain EXCEPT !.pre = <<-1, 0>>],
   Conv(1, 1, <<1, 1, 1>>, <<1, 1>>, <<MaxI64 - 1, 0>>, <<0, 0>>)}

MCDirectGraphs == Few \cup Long \cup Unfit \cup {Plain}

MCDocuments == Import!MCDocuments
LateDocuments == Import!LateDocuments
MCOverrideGraphs == OverrideData!MCGraphs
LoneMagnitude == OverrideData!LoneMagnitude
MCAttentionCases == AttentionData!MCCases
MCSpecializedCases == SpecializedData!MCCases
MCNormalizationCases == NormalizationData!MCCases
MCElementCases == ElementData!MCCases
MCOffers(g) == OverrideData!MCOffers(g)

Override == INSTANCE ShapeOverride WITH Graphs <- OverrideGraphs, Offers <- MCOffers
Attention == INSTANCE AttentionStorage WITH Cases <- AttentionCases, stage <- part
Specialized ==
  INSTANCE SpecializedKernels WITH
    Cases <- SpecializedCases, ExponentBits <- MCExponentBits, stage <- part
Normalization == INSTANCE NormalizationKernels WITH Cases <- NormalizationCases, stage <- part
Elements ==
  INSTANCE ElementKernels WITH
    Cases <- ElementCases, Cosine <- ElementData!MCCosine, Sine <- ElementData!MCSine,
    Kept <- ElementData!MCKept, FloatMax <- ElementData!MCFloatMax

(* What the proofs assume holds of the bodies, words, nodes, graphs and    *)
(* targets taken.                                                          *)
ASSUME PlanningAssumption == BodiesWellFormed /\ WordWidths
ASSUME TrainingAssumption == NodesWellFormed
ASSUME DirectAssumption == GraphsWellFormed /\ TargetFacts

(* The variables of the other families.                                    *)
NoOverride == resolved = <<>> /\ seen = {}
NoDirect ==
  /\ source = <<>> /\ compiling = "none" /\ metadata = <<>> /\ program = <<>> /\ variant = "none"
  /\ schedule = <<>> /\ buffer = <<>> /\ results = <<>> /\ position = <<>> /\ loads = <<>>
  /\ strayed = FALSE
NoPlan ==
  /\ body = <<>> /\ stage = "none" /\ records = <<>> /\ planned = <<>> /\ views = <<>>
  /\ requests = <<>> /\ pc = "none"
  /\ checked = 0 /\ remaining = {} /\ current = 0 /\ candidate = 0 /\ allocations = <<>>
  /\ plan = <<>> /\ status = "none"
NoLoop == part = 0 /\ next = 0
NoTraining ==
  conv = <<>> /\ progress = "none" /\ iteration = 0 /\ sums = <<>> /\ outside = FALSE

KernelInit ==
  /\ NoDirect /\ NoPlan /\ NoTraining /\ output = <<>> /\ input = <<>>
  /\ \/ /\ family = "override" /\ Override!Init
        /\ call = <<>> /\ written = <<>> /\ stray = {} /\ NoLoop
     \/ /\ family = "attention" /\ Attention!Init
        /\ graph = <<>> /\ written = <<>> /\ node = 0 /\ NoOverride
     \/ /\ family = "specialized" /\ Specialized!Init
        /\ graph = <<>> /\ written = <<>> /\ node = 0 /\ stray = {} /\ NoOverride
     \/ /\ family = "normalization" /\ Normalization!Init
        /\ graph = <<>> /\ written = <<>> /\ stray = {} /\ NoOverride
     \/ /\ family = "elements" /\ Elements!Init
        /\ graph = <<>> /\ written = <<>> /\ node = 0 /\ part = 0 /\ stray = {} /\ NoOverride

ImportInit ==
  /\ family = "import"
  /\ \/ Import!EditedInit(Documents)
     \/ Convolutions /\ (Import!ConvolutionInit \/ \E file \in Import!Files : Import!Begin(file))
  /\ graph = <<>> /\ next = 0 /\ stray = {} /\ NoOverride /\ NoPlan /\ NoTraining /\ NoDirect

ConvolutionInit ==
  /\ Convolutions /\ NoOverride /\ call = <<>> /\ memory = <<>> /\ input = <<>>
  /\ graph = <<>> /\ phase = "none" /\ stray = {} /\ written = <<>> /\ node = 0 /\ NoLoop
  /\ \/ /\ family = "training" /\ TrainingInit
        /\ output = <<>> /\ NoDirect /\ NoPlan
     \/ /\ family = "direct" /\ DirectInit
        /\ output = <<>> /\ NoTraining /\ NoPlan
     \/ /\ family = "bufferize" /\ PipelineInit
        /\ NoTraining /\ NoDirect

Init == ImportInit \/ KernelInit \/ ConvolutionInit

KernelNext ==
  /\ UNCHANGED <<family, written, input, output, planVars, trainingVars, directVars>>
  /\ \/ family = "override" /\ Override!Next /\ UNCHANGED <<call, part, next, stray>>
     \/ family = "attention" /\ Attention!Next /\ UNCHANGED <<graph, node, overrideVars>>
     \/ family = "specialized" /\ Specialized!Next /\ UNCHANGED <<graph, node, stray, overrideVars>>
     \/ family = "normalization" /\ Normalization!Next /\ UNCHANGED <<graph, stray, overrideVars>>
     \/ family = "elements" /\ Elements!Next /\ UNCHANGED <<graph, node, part, stray, overrideVars>>

ConvolutionNext ==
  /\ UNCHANGED <<family, call, memory, overrideVars, written, node, part, next, graph, phase, stray,
                 input>>
  /\ \/ family = "training" /\ TrainingNext /\ UNCHANGED <<output, planVars, directVars>>
     \/ family = "direct" /\ DirectNext /\ UNCHANGED <<output, planVars, trainingVars>>
     \/ family = "bufferize" /\ PipelineNext /\ UNCHANGED <<trainingVars, directVars>>

ImportNext ==
  /\ family = "import" /\ Import!Next
  /\ UNCHANGED <<family, graph, next, stray, overrideVars, planVars, trainingVars, directVars>>

Next == ImportNext \/ KernelNext \/ ConvolutionNext

Spec ==
  Init /\ [][Next]_<<family, graph, phase, part, node, next, memory, stray, output, call, written,
                     input, overrideVars, planVars, trainingVars, directVars>>

(***************************************************************************)
(* The properties of each family, of the behaviours that are its own;      *)
(* OwnPlanVerifies and ContentsKept are those of BufferizationPipeline,    *)
(* GradientsAreAdjoint is that of TrainingConvolution, KernelConvolves and *)
(* EstimateCountsLoads are those of DirectConvolution.                     *)
(***************************************************************************)
(* An accepted graph is its document, each tensor described in one way.    *)
AcceptedHoldsDocument == family = "import" => Import!AcceptedHoldsDocument
(* A convolution taken for the convolution path is one it can compile.     *)
ConvolutionIsLowerable == family = "import" => Import!ConvolutionIsLowerable
(* Each payload of an accepted graph has its entry in pass_by_values.      *)
PayloadsAreListed == family = "import" => Import!PayloadsAreListed
(* Loops load and store within the extents and bytes a call resolved.      *)
AccessesStayInside == family = "override" => Override!AccessesStayInside
(* What a call accepts its loops compute, at the call's own descriptors.   *)
OutputIsReference == family = "override" => Override!OutputIsReference
(* The test's reference takes the magnitude of rows of one element too.    *)
ReductionMatchesReference == family = "override" => Override!ReductionMatchesReference
(* The outputs are masked attention over the caller's memory, no more.     *)
AttendsExactly == family = "attention" => Attention!AttendsExactly
(* No load or store of data leaves its tensor, ragged and paged ones too.  *)
DataStaysInSpan == family = "attention" => Attention!DataStaysInSpan
(* Nor does a load of a page table, whose entries are loaded unmasked.     *)
LoadsStayInSpan == family = "attention" => Attention!LoadsStayInSpan
(* A low-precision, matrix or expert node stores what it means.            *)
SpecializedIsReference == family = "specialized" => Specialized!SpecializedIsReference
(* Normalizations, their gradients and split nodes agree with theory.      *)
NormalizationIsReference == family = "normalization" => Normalization!NormalizationIsReference
(* A node that stores each element from a few stores what it means.        *)
ElementsAreReference == family = "elements" => Elements!ElementsAreReference
=============================================================================
