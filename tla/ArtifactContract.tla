-------------------------- MODULE ArtifactContract --------------------------
(***************************************************************************)
(* What an artifact says of a compiled graph, and the contract that both   *)
(* its writer and its reader check (validate_contract in Artifact.cpp,     *)
(* validate_graph_compile_metadata in GraphMetadata.cpp).                  *)
(*                                                                         *)
(* Texts are sequences of numbers, 0 being NUL.  Types, access modes,      *)
(* storage policies, adapters and override policies are their enumerators. *)
(* An argument is [uid, name, type, access, storage, offsetUid,            *)
(* sequenceUid, divisor, alignment, size, dims, strides]; a convolution    *)
(* [uids, x, w, y, padded, pre, post, stride, dilation] with shapes in     *)
(* NHWC order; a plan [size, alignment, allocations]; an artifact          *)
(* [version, triple, function, dynamic, override, policy, roles, axes,     *)
(* arguments, adapter, conv, plan, variants].                              *)
(***************************************************************************)
EXTENDS OverridePolicies

CONSTANT MaxEntries  (* bound of ranks, override roles and override axes   *)

ConvAdapter == 0
GenericAdapter == 1
kRead == 0
kWrite == 1
kReadWrite == 2
kRaggedBatchPrefix == 1
PolicyNames ==
  <<"POINTWISE", "MATMUL", "SDPA", "RESHAPE", "REDUCTION", "TRANSPOSE",
    "CONCATENATE", "BLOCK_SCALE_MATMUL">>

NUL == 0
kWorkspaceAlignment == 64
Float == 0
IsText(text) == text # <<>> /\ NUL \notin Items(text)
PowerOfTwo(n) == n \in {2 ^ k : k \in 0..20}
TypeName(argument) == DataTypes[argument.type + 1]

(* One letter stands for each fixed text.                                  *)
Suffixes == <<<<1>>, <<2>>, <<3>>>>
Features == <<<<4>>, <<5>>, <<6>>>>
ConvNames == <<<<7>>, <<8>>, <<9>>>>

(***************************************************************************)
(* The argument table.                                                     *)
(***************************************************************************)
(* Storage of a batch of segments of any lengths: every batch may take the *)
(* span of a full one.                                                     *)
RaggedElements(a) ==
  a.dims[1] * StorageSlots([a.dims EXCEPT ![1] = 1], a.strides)

SizeIsStorage(a) ==
  IF a.storage = kRaggedBatchPrefix
  THEN /\ \A x \in Axes(a.dims) : a.dims[x] > 0 /\ (x > 1 => a.strides[x] > 0)
       /\ RaggedElements(a) * StorageBits[TypeName(a)] <= MaxU64 - 7
       /\ a.size = (RaggedElements(a) * StorageBits[TypeName(a)] + 7) \div 8
  ELSE /\ HasStorage(TypeName(a), a.dims, a.strides)
       /\ a.size = StorageBytes(TypeName(a), a.dims, a.strides)

ArgumentValid(a) ==
  /\ IsText(a.name)
  /\ Len(a.dims) \in 1..MaxEntries /\ Len(a.strides) = Len(a.dims)
  /\ PowerOfTwo(a.alignment) /\ a.alignment <= 4096
  /\ SizeIsStorage(a)
  /\ a.storage # kRaggedBatchPrefix =>
       a.offsetUid = 0 /\ a.sequenceUid = 0 /\ a.divisor = 1

(* A ragged argument names the prefix of its segments and their lengths.   *)
RaggedReferencesValid(arguments, a) ==
  /\ TypeName(a) \in {"FLOAT", "INT32"}
  /\ Len(a.dims) = 4
  /\ a.divisor > 0 /\ a.dims[3] * a.divisor <= MaxI64
  /\ a.dims[1] < MaxI64
  /\ \E p, s \in Items(arguments) :
       /\ p.uid = a.offsetUid /\ TypeName(p) \in {"INT32", "INT64"}
       /\ p.dims = <<a.dims[1] + 1, 1, 1, 1>> /\ p.access = kRead
       /\ s.uid = a.sequenceUid /\ TypeName(s) = "INT32"
       /\ s.dims = <<a.dims[1], 1, 1, 1>> /\ s.access = kRead

(***************************************************************************)
(* Overrides: the roles of a policy are the arguments, in its order.       *)
(***************************************************************************)
RoleTypes(policy, roles) ==
  IF policy = "BLOCK_SCALE_MATMUL"
  THEN <<"FP4_E2M1", "FP8_E4M3", "FP4_E2M1", "FP8_E4M3", "BFLOAT16">>
  ELSE [r \in 1..Len(roles) |-> "FLOAT"]

RolesValid(artifact, policy, counts, inputs) ==
  LET uids == artifact.roles
      types == RoleTypes(policy, uids)
  IN /\ Len(uids) \in counts
     /\ Len(artifact.arguments) = Len(uids)
     /\ Items(uids) = {a.uid : a \in Items(artifact.arguments)}
     /\ \A r \in 1..Len(uids) : \E a \in Items(artifact.arguments) :
          /\ a.uid = uids[r] /\ TypeName(a) = types[r]
          /\ a.storage # kRaggedBatchPrefix
          /\ a.access = IF r <= inputs THEN kRead ELSE kWrite

ExactPointwise(artifact) ==
  /\ Len(artifact.arguments) >= 2
  /\ \A a \in Items(artifact.arguments) :
       /\ a.type = Float /\ a.dims = artifact.arguments[1].dims
       /\ a.access \in {kRead, kWrite}
  /\ Cardinality({a \in Items(artifact.arguments) : a.access = kWrite}) = 1

OverrideValid(artifact) ==
  LET policy == PolicyNames[artifact.policy]
      role == [r \in 1..Len(artifact.roles) |->
                 CHOOSE a \in Items(artifact.arguments) : a.uid = artifact.roles[r]]
      d == [r \in 1..Len(role) |-> role[r].dims]
      count == Len(artifact.roles)
      axes == [k \in 1..Len(artifact.axes) |-> artifact.axes[k] + 1]
      Roles(counts, inputs) == RolesValid(artifact, policy, counts, inputs)
  IN CASE policy = "POINTWISE" -> ExactPointwise(artifact)
       [] policy = "MATMUL" -> Roles({3}, 2) /\ Multiplies(d[1], d[2], d[3])
       [] policy = "SDPA" ->
            Roles(4..7, 3) /\ Attends(d) /\ \A r \in 1..4 : role[r].strides[4] = 1
       [] policy = "RESHAPE" ->
            Roles({2}, 1) /\ SameCount(d[1], d[2]) /\ ElementCount(d[1]) <= MaxI64
       [] policy = "REDUCTION" -> Roles({2}, 1) /\ Reduces(d[1], d[2])
       [] policy = "TRANSPOSE" ->
            /\ Roles({2}, 1)
            /\ Len(axes) = Len(d[1]) /\ Items(axes) = Axes(d[1])
            /\ Permuted(d[1], d[2], axes)
       [] policy = "CONCATENATE" ->
            /\ Roles(2..MaxEntries, count - 1) /\ Len(axes) = 1
            /\ Joined(SubSeq(d, 1, count - 1), d[count], axes[1])
       [] policy = "BLOCK_SCALE_MATMUL" -> Roles({5}, 4) /\ BlockScaled(role)

TableValid(artifact) ==
  LET arguments == artifact.arguments
  IN /\ IsText(artifact.function)
     /\ Len(arguments) >= 1 /\ Len(arguments) <= 4096
     /\ artifact.override <=> artifact.policy # 0
     /\ \A k \in 1..Len(arguments) :
          /\ ArgumentValid(arguments[k])
          /\ \A j \in 1..(k - 1) : arguments[j].uid # arguments[k].uid
     /\ artifact.policy < 2 => artifact.roles = <<>>
     /\ artifact.policy \notin {6, 7} => artifact.axes = <<>>
     /\ artifact.policy # 0 => OverrideValid(artifact)
     /\ \A a \in Items(arguments) :
          a.storage = kRaggedBatchPrefix => RaggedReferencesValid(arguments, a)

(***************************************************************************)
(* Convolutions that keep an adapter of their own.                         *)
(***************************************************************************)
ShapeValid(shape) ==
  ElementCountFits(shape) /\ ElementCount(shape) <= MaxI64
    /\ ElementCount(shape) <= MaxU64 \div 4

ConvArgumentsValid(artifact) ==
  LET conv == artifact.conv
      shapes == <<conv.x, conv.w, conv.y>>
  IN /\ Len(artifact.arguments) = 3
     /\ ~artifact.dynamic /\ ~artifact.override
     /\ \A k \in 1..3 :
          LET a == artifact.arguments[k]
          IN /\ a.uid = conv.uids[k] /\ a.name = ConvNames[k]
             /\ a.type = Float /\ a.dims = shapes[k]
             /\ a.access = IF k = 3 THEN kWrite ELSE kRead

ConvolutionValid(conv) ==
  /\ Cardinality(Items(conv.uids)) = 3
  /\ \A shape \in {conv.x, conv.w, conv.y, conv.padded} : ShapeValid(shape)
  /\ conv.stride = <<1, 1>> /\ conv.dilation = <<1, 1>>
  /\ \A s \in 1..2 :
       LET padded == conv.x[s + 1] + conv.pre[s] + conv.post[s]
       IN /\ conv.pre[s] >= 0 /\ conv.post[s] >= 0
          /\ padded <= MaxI64 /\ conv.padded[s + 1] = padded
          /\ padded >= conv.w[s + 1]
          /\ conv.y[s + 1] = padded - conv.w[s + 1] + 1
  /\ conv.padded[1] = conv.x[1] /\ conv.padded[4] = conv.x[4]
  /\ conv.w[4] = conv.x[4] /\ conv.y[1] = conv.x[1] /\ conv.y[4] = conv.w[1]

(***************************************************************************)
(* The workspace plan, in the arithmetic of std::uint64_t.                 *)
(***************************************************************************)
(* Fault: the sum of offset and size is taken to fit.                      *)
EndFitsWrapped(a) == TRUE
EndFits(a) == a.size <= MaxU64 - a.offset
End(a) == (a.offset + a.size) % (MaxU64 + 1)
LiveTogether(a, b) == ~(a.end < b.start \/ b.end < a.start)
ShareBytes(a, b) == a.offset < End(b) /\ b.offset < End(a)

AllocationValid(plan, a) ==
  /\ IsText(a.name) /\ a.size # 0
  /\ PowerOfTwo(a.alignment) /\ a.alignment <= kWorkspaceAlignment
  /\ a.offset % a.alignment = 0
  /\ a.start <= a.end
  /\ EndFits(a) /\ End(a) <= plan.size

HighWatermark(plan) ==
  LET ends == {End(a) : a \in Items(plan.allocations)}
  IN IF ends = {} THEN 0 ELSE CHOOSE e \in ends : \A x \in ends : x <= e

PlanValid(plan) ==
  LET n == Len(plan.allocations)
      at == plan.allocations
  IN /\ plan.alignment = kWorkspaceAlignment
     /\ plan.size <= MaxI64 /\ plan.size % kWorkspaceAlignment = 0
     /\ plan.size = 0 <=> n = 0
     /\ \A k \in 1..n :
          /\ AllocationValid(plan, at[k])
          /\ \A j \in 1..(k - 1) :
               /\ at[j].name # at[k].name
               /\ ~(LiveTogether(at[j], at[k]) /\ ShareBytes(at[j], at[k]))
     /\ HighWatermark(plan) <= MaxU64 - (kWorkspaceAlignment - 1)
     /\ plan.size = RoundUp(HighWatermark(plan), kWorkspaceAlignment)

VariantsValid(artifact) ==
  \A v \in 1..3 :
    /\ artifact.variants[v].symbol = artifact.function \o Suffixes[v]
    /\ artifact.variants[v].features = Features[v]
    /\ artifact.variants[v].object # <<>>

ContractValid(artifact) ==
  /\ TableValid(artifact)
  /\ artifact.adapter = ConvAdapter =>
       ConvArgumentsValid(artifact) /\ ConvolutionValid(artifact.conv)
  /\ PlanValid(artifact.plan)
  /\ VariantsValid(artifact)
=============================================================================
