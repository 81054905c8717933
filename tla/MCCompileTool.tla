---------------------------- MODULE MCCompileTool ----------------------------
(***************************************************************************)
(* The users of a compilation's result.  The command: up to two dumps of   *)
(* any stage to two paths, one of which may also be the output path.  A    *)
(* program that calls the library twice, with every combination of the     *)
(* four options, into one result.  And, later, a reader of an artifact     *)
(* file of any version and variant order, as it was written or damaged.    *)
(***************************************************************************)
EXTENDS CompileTool, ArtifactFormat

CONSTANT Callers

VARIABLE caller

MCOptions == CompileOptions
MCPaths == {"graph.dfo", "graph.mlir"}
MCDump == [stage: {"imported", "bufferized", "mlir"}, path: MCPaths]
MCDumps == UNION {[1..n -> MCDump] : n \in 0..2}
MCOld == {<<"old", "all">>}

(* The contracts that are written.                                         *)
Tensor(uid, name, type, access, dims, strides) ==
  [uid |-> uid, name |-> name, type |-> type, access |-> access, storage |-> 0,
   offsetUid |-> 0, sequenceUid |-> 0, divisor |-> 1, alignment |-> 4,
   size |-> StorageBytes(DataTypes[type + 1], dims, strides),
   dims |-> dims, strides |-> strides]

Packed(uid, name, access, dims) ==
  Tensor(uid, name, Float, access, dims, PackedStrides(dims))

Allocated(name, offset, size, start, end) ==
  [name |-> name, offset |-> offset, size |-> size, alignment |-> 4,
   start |-> start, end |-> end]

PlanOf(size, allocations) ==
  [size |-> size, alignment |-> kWorkspaceAlignment, allocations |-> allocations]

Generic(function, policy, roles, axes, arguments, plan) ==
  [EmptyInfo EXCEPT
    !.triple = <<9>>, !.function = function, !.override = (policy # 0),
    !.policy = policy, !.roles = roles, !.axes = axes,
    !.arguments = arguments, !.adapter = GenericAdapter, !.plan = plan,
    !.variants = [v \in 1..3 |-> [symbol |-> function \o Suffixes[v],
                                  features |-> Features[v], object |-> <<v>>]]]

X == <<1, 2, 1, 1>>
W == <<1, 2, 1, 1>>
ConvContract ==
  [Generic(<<10>>, 0, <<>>, <<>>,
     <<Packed(1, ConvNames[1], kRead, X), Packed(2, ConvNames[2], kRead, W),
       Packed(3, ConvNames[3], kWrite, X)>>,
     PlanOf(64, <<Allocated(<<11>>, 0, 12, 0, 1)>>))
   EXCEPT !.adapter = ConvAdapter,
          !.conv = [NoConvolution EXCEPT !.uids = <<1, 2, 3>>, !.x = X, !.w = W, !.y = X,
                      !.padded = <<1, 3, 1, 1>>, !.pre = <<1, 0>>,
                      !.stride = <<1, 1>>, !.dilation = <<1, 1>>]]

(* Three allocations: two that live together, and one in the bytes of the  *)
(* first after it.                                                         *)
PointwiseContract ==
  [Generic(<<10, 11>>, 1, <<>>, <<>>,
     <<Packed(5, <<12>>, kRead, <<2>>), Packed(6, <<13>>, kWrite, <<2>>)>>,
     PlanOf(128, <<Allocated(<<14>>, 0, 64, 0, 1), Allocated(<<15>>, 64, 8, 1, 2),
                   Allocated(<<16>>, 0, 8, 2, 3)>>))
   EXCEPT !.dynamic = TRUE]

MatmulContract ==
  Generic(<<10>>, 2, <<7, 6, 5>>, <<>>,
    <<Packed(5, <<12>>, kWrite, <<2, 2>>), Packed(6, <<13>>, kRead, <<1, 2>>),
      Packed(7, <<14>>, kRead, <<2, 1>>)>>, PlanOf(0, <<>>))

TransposeContract ==
  Generic(<<10>>, 6, <<5, 6>>, <<1, 0>>,
    <<Packed(5, <<12>>, kRead, <<1, 2>>), Packed(6, <<13>>, kWrite, <<2, 1>>)>>,
    PlanOf(0, <<>>))

ConcatenateContract ==
  Generic(<<10>>, 7, <<5, 6, 7>>, <<0>>,
    <<Packed(5, <<12>>, kRead, <<1>>), Packed(6, <<13>>, kRead, <<2>>),
      Packed(7, <<14>>, kWrite, <<3>>)>>, PlanOf(0, <<>>))

RaggedContract ==
  Generic(<<10>>, 0, <<>>, <<>>,
    <<Tensor(4, <<12>>, 4, kRead, <<2, 1, 1, 1>>, <<1, 1, 1, 1>>),
      Tensor(5, <<13>>, 4, kRead, <<1, 1, 1, 1>>, <<1, 1, 1, 1>>),
      [Tensor(6, <<14>>, Float, kWrite, <<1, 1, 2, 1>>, <<2, 2, 1, 1>>) EXCEPT
         !.storage = kRaggedBatchPrefix, !.offsetUid = 4, !.sequenceUid = 5,
         !.divisor = 2]>>, PlanOf(0, <<>>))

MCContracts ==
  {ConvContract, PointwiseContract, MatmulContract, TransposeContract,
   ConcatenateContract, RaggedContract}
MCOrders(c) ==
  {<<1, 2, 3>>} \cup IF c \in {ConvContract, TransposeContract} THEN {<<3, 1, 2>>} ELSE {}
MCNewUnits(u) == {0, u - 1, u + 1, Base - 1} \ {-1, Base}

(* A function name one letter longer than the longest text that is read.   *)
LongName == [k \in 1..MaxStringSize + 1 |-> 10]
LongNamed ==
  {Generic(LongName, 0, <<>>, <<>>, PointwiseContract.arguments, PlanOf(0, <<>>))}
    \cup {ConvContract, PointwiseContract}

NoFile ==
  /\ compiled = <<>> /\ damage = "absent" /\ file = <<>> /\ at = 0 /\ phase = "none"
  /\ left = 0 /\ seen = <<>> /\ restored = <<>>

(* The command is not running.                                             *)
NoCommand ==
  /\ emit = "artifact" /\ variant = "scalar" /\ dumps = <<>> /\ outputPath = "graph.dfo"
  /\ written = 0 /\ files = <<>> /\ temporaries = {} /\ exit = "not run"
NoCompilation ==
  /\ graph = "conv" /\ options = <<>> /\ stage = "not run" /\ index = 1 /\ result = {}
  /\ entries = {} /\ status = "none" /\ output = NoResult /\ calls = 0

MCInit ==
  /\ caller \in Callers
  /\ \/ caller = "command" /\ ToolInit /\ NoFile
     \/ caller = "library" /\ CompileInit /\ NoCommand /\ NoFile
     \/ caller = "reader" /\ NoCompilation /\ NoCommand /\ FormatInit

MCNext ==
  /\ UNCHANGED caller
  /\ \/ caller = "command" /\ ToolNext /\ UNCHANGED formatVars
     \/ caller = "library" /\ CompileNext /\ UNCHANGED <<toolVars, formatVars>>
     \/ caller = "reader" /\ FormatNext /\ UNCHANGED vars

MCSpec == MCInit /\ [][MCNext]_<<caller, vars, formatVars>>
=============================================================================
