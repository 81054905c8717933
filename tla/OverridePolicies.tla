-------------------------- MODULE OverridePolicies --------------------------
(***************************************************************************)
(* Which graphs may take shapes at run time, under which policy, and what  *)
(* each policy asks of the shapes: once when the graph is compiled, by two *)
(* checks (the subset of graphs, then the metadata), and again, by code of *)
(* its own, when a call brings its shapes.                                 *)
(*                                                                         *)
(* A graph is [overrideEnabled, tensors, nodes].  A tensor is [dims,       *)
(* strides, type, virtual, plain, reordering]; plain: neither a scalar     *)
(* passed by value nor ragged.  A node is [tag, mode, in, out, axes,       *)
(* causal, supported]: in and out are the uids of its ports in order, axes *)
(* its permutation, axis or block sizes (axes count from one), supported   *)
(* that its other attributes and ports are those its policy asks for: no   *)
(* M, N or K override, no ragged or paged attention, block scales that are *)
(* not given through dynamic shapes.  That a tensor has one producer is a  *)
(* rule of GraphCompile.                                                   *)
(***************************************************************************)
EXTENDS TensorLayout

OneNodePolicies ==
  {"RESHAPE", "TRANSPOSE", "CONCATENATE", "REDUCTION", "SDPA", "MATMUL"}

Items(s) == {s[k] : k \in 1..Len(s)}
Least(S) == CHOOSE x \in S : \A y \in S : x <= y
Larger(x, y) == IF x >= y THEN x ELSE y

Read(graph) == UNION {Items(graph.nodes[n].in) : n \in 1..Len(graph.nodes)}
Written(graph) == UNION {Items(graph.nodes[n].out) : n \in 1..Len(graph.nodes)}

(* The tensors a caller passes, ordered by uid.                            *)
Arguments(graph) ==
  {u \in Read(graph) \cup Written(graph) : ~graph.tensors[u].virtual}

Shapes(graph, uids) == [k \in 1..Len(uids) |-> graph.tensors[uids[k]]]

(***************************************************************************)
(* Relations between the shapes of an operation.  Arguments are extents,   *)
(* or [dims, strides] where strides matter too.                            *)
(***************************************************************************)
SameCount(x, y) ==
  ElementCountFits(x) /\ ElementCountFits(y) /\ ElementCount(x) = ElementCount(y)

Permuted(x, y, permutation) ==
  /\ Len(y) = Len(x)
  /\ \A a \in Axes(y) : y[a] = x[permutation[a]]

(* Extents of inputs along the axis, the first n of them summed.           *)
ExtentBefore(inputs, axis, n) ==
  LET sum[k \in 0..n] == IF k = 0 THEN 0 ELSE sum[k - 1] + inputs[k][axis]
  IN sum[n]

Joined(inputs, y, axis) ==
  /\ axis \in Axes(y)
  /\ \A k \in 1..Len(inputs) :
       /\ Len(inputs[k]) = Len(y)
       /\ \A a \in Axes(y) \ {axis} : inputs[k][a] = y[a]
  /\ ExtentBefore(inputs, axis, Len(inputs)) = y[axis]
  /\ y[axis] <= MaxI64

(* A compiled Y keeps each extent of X or makes it one.                    *)
Reduces(x, y) ==
  /\ Len(x) = Len(y)
  /\ \A a \in Axes(x) : y[a] \in {1, x[a]}
  /\ ElementCountFits(x) /\ ElementCount(x) <= MaxI64

(* At run time the axes reduced are those the compiled extents tell apart. *)
StillReduces(x, y, compiledX, compiledY) ==
  /\ Len(x) = Len(y)
  /\ \A a \in Axes(x) :
       IF compiledX[a] # compiledY[a] THEN y[a] = 1 ELSE x[a] = y[a]

Multiplies(a, b, c) ==
  LET rank == Len(a)
  IN /\ rank >= 2 /\ Len(b) = rank /\ Len(c) = rank
     /\ a[rank] = b[rank - 1] /\ a[rank - 1] = c[rank - 1] /\ b[rank] = c[rank]
     /\ \A x \in 1..(rank - 2) :
          (a[x] = b[x] \/ a[x] = 1 \/ b[x] = 1) /\ c[x] = Larger(a[x], b[x])

(* Q, K, V, O and then the row outputs.                                    *)
Attends(roles) ==
  LET q == roles[1]  k == roles[2]  v == roles[3]  o == roles[4]
  IN /\ Len(roles) \in 4..7
     /\ \A r \in 1..Len(roles) : Len(roles[r]) = 4
     /\ q[1] = k[1] /\ q[1] = v[1] /\ q[1] = o[1]
     /\ q[2] = o[2] /\ q[3] = o[3] /\ q[4] = k[4]
     /\ k[3] = v[3] /\ o[4] = v[4]
     /\ q[2] % k[2] = 0 /\ q[2] % v[2] = 0
     /\ \A r \in 5..Len(roles) : roles[r] = <<q[1], q[2], q[3], 1>>

(* A, its scales, B, its scales and C, in the layouts their producer gives.*)
BlockScaled(roles) ==
  LET a == roles[1].dims
      b == roles[3].dims
      batch == a[1]  m == a[2]  k == a[3]  n == b[3]
      sm == RoundUp(m, 128)
      sn == RoundUp(n, 128)
      sk == RoundUp(k \div 16, 4)
      Is(role, dims, strides) ==
        roles[role].dims = dims /\ roles[role].strides = strides
  IN /\ \A r \in 1..5 : Len(roles[r].dims) = 3
     /\ k % 16 = 0
     /\ CanRoundUp(m, 128) /\ CanRoundUp(n, 128) /\ CanRoundUp(k \div 16, 4)
     /\ \A product \in {m * k, n * k, m * n, sm * sk, sn * sk} : product <= MaxI64
     /\ Is(1, <<batch, m, k>>, <<m * k, k, 1>>)
     /\ Is(2, <<batch, sm, sk>>, <<sm * sk, sk, 1>>)
     /\ Is(3, <<batch, k, n>>, <<n * k, 1, k>>)
     /\ Is(4, <<batch, sk, sn>>, <<sn * sk, 1, sk>>)
     /\ Is(5, <<batch, m, n>>, <<m * n, n, 1>>)

(***************************************************************************)
(* Compiling.  A tensor and a node that stand on their own.                *)
(***************************************************************************)
TensorValid(t) ==
  /\ Len(t.dims) \in 1..64 /\ Len(t.dims) = Len(t.strides)
  /\ IF t.reordering = "NONE" THEN NonOverlapping(t.dims, t.strides)
     ELSE ReorderedAxes(t.dims, t.strides) # <<>>
  /\ HasStorage(t.type, t.dims, t.strides)

Broadcasts(inputs, y) ==
  /\ \A k \in 1..Len(inputs) : Len(inputs[k]) <= Len(y)
  /\ LET Extents(a) == {1} \cup {inputs[k][a - (Len(y) - Len(inputs[k]))] :
                                   k \in {j \in 1..Len(inputs) :
                                            a > Len(y) - Len(inputs[j])}}
     IN \A a \in Axes(y) : Extents(a) \in {{1}, {1, y[a]}}
                             /\ (Extents(a) = {1} => y[a] = 1)

(* The attention and dequantize nodes have rules of their own, which those *)
(* of their policies' metadata repeat.                                     *)
OperationValid(graph, node) ==
  LET In(k) == graph.tensors[node.in[k]].dims
      y == graph.tensors[node.out[1]].dims
      inputs == [k \in 1..Len(node.in) |-> In(k)]
  IN CASE node.tag = "POINTWISE" -> node.in # <<>> /\ Broadcasts(inputs, y)
       [] node.tag = "RESHAPE" -> SameCount(In(1), y) /\ ElementCount(y) <= MaxI64
       [] node.tag = "TRANSPOSE" ->
            /\ Len(node.axes) = Len(In(1)) /\ Items(node.axes) = Axes(In(1))
            /\ Permuted(In(1), y, node.axes)
       [] node.tag = "CONCATENATE" -> node.in # <<>> /\ Joined(inputs, y, node.axes[1])
       [] node.tag = "REDUCTION" -> Reduces(In(1), y)
       [] node.tag = "MATMUL" -> Multiplies(In(1), In(2), y)
       [] OTHER -> TRUE

(***************************************************************************)
(* Compiling with overrides enabled: the subset of graphs.                 *)
(***************************************************************************)
PlainFloat(t) == t.plain /\ t.type = "FLOAT" /\ t.reordering = "NONE"

(* The roles of a graph's policy, in the order the metadata lists them.    *)
RoleUids(graph) ==
  LET n == graph.nodes
  IN IF Len(n) = 1 THEN n[1].in \o n[1].out
     ELSE n[1].in \o n[2].in \o n[3].out

BlockScaleSubset(graph) ==
  LET n == graph.nodes
      t == graph.tensors
      Role(u, type, reordering) ==
        /\ t[u].plain /\ ~t[u].virtual /\ Len(t[u].dims) = 3
        /\ t[u].type = type /\ t[u].reordering = reordering
      Dequantizes(node, blocks) ==
        LET x == node.in[1]  y == node.out[1]
        IN /\ node.axes = blocks
           /\ Role(x, "FP4_E2M1", "NONE")
           /\ Role(node.in[2], "FP8_E4M3", "F8_128x4")
           /\ PlainFloat(t[y]) /\ t[y].virtual
           /\ t[y].dims = t[x].dims /\ t[y].strides = t[x].strides
  IN /\ \A k \in 1..3 : n[k].supported
     /\ n[3].in = <<n[1].out[1], n[2].out[1]>>
     /\ Cardinality(DOMAIN t) = 7
     /\ Cardinality(Items(RoleUids(graph)) \cup Items(n[3].in)) = 7
     /\ Dequantizes(n[1], <<1, 16>>)
     /\ Dequantizes(n[2], <<16, 1>>)
     /\ Role(n[3].out[1], "BFLOAT16", "NONE")

(* One operation whose tensors all are arguments.                          *)
OneNodeSubset(graph) ==
  LET node == graph.nodes[1]
  IN /\ node.supported
     /\ \A u \in Items(RoleUids(graph)) :
          ~graph.tensors[u].virtual /\ PlainFloat(graph.tensors[u])

SdpaSubset(graph) ==
  /\ OneNodeSubset(graph)
  /\ Len(graph.nodes[1].in) = 3
  /\ \A u \in Items(RoleUids(graph)) : Len(graph.tensors[u].dims) = 4

(* Any number of element-wise operations on tensors of one shape.          *)
PointwiseSubset(graph) ==
  LET used == Read(graph) \cup Written(graph)
  IN /\ \A n \in 1..Len(graph.nodes) : graph.nodes[n].tag = "POINTWISE"
     /\ \A u \in used : PlainFloat(graph.tensors[u])
     /\ \A u, w \in used : graph.tensors[u].dims = graph.tensors[w].dims

Policy(graph) ==
  LET tags == [n \in 1..Len(graph.nodes) |-> graph.nodes[n].tag]
  IN CASE ~graph.overrideEnabled -> "NONE"
       [] tags = <<"DEQUANTIZE", "DEQUANTIZE", "MATMUL">> ->
            IF BlockScaleSubset(graph) THEN "BLOCK_SCALE_MATMUL" ELSE "REFUSED"
       [] Len(tags) = 1 /\ tags[1] \in OneNodePolicies ->
            IF OneNodeSubset(graph) /\ (tags[1] = "SDPA" => SdpaSubset(graph))
            THEN tags[1] ELSE "REFUSED"
       [] OTHER -> IF PointwiseSubset(graph) THEN "POINTWISE" ELSE "REFUSED"

(* No node overwrites an operand, and all but the specialized ones compute *)
(* on FLOAT; the product of scaled operands may be narrower.               *)
NodeValid(graph, node) ==
  LET Narrow(u) == Policy(graph) = "BLOCK_SCALE_MATMUL" /\ u \in Items(node.out)
  IN /\ Items(node.in) \cap Items(node.out) = {}
     /\ node.tag # "DEQUANTIZE" =>
          \A u \in Items(node.in) \cup Items(node.out) :
            graph.tensors[u].type = "FLOAT" \/ Narrow(u)
     /\ OperationValid(graph, node)

(***************************************************************************)
(* Compiling: the metadata, which an artifact's loader checks too.         *)
(***************************************************************************)
ReadOnly(graph, u) == u \in Read(graph) \ Written(graph)
WriteOnly(graph, u) == u \in Written(graph) \ Read(graph)

PointwiseMetadata(graph) ==
  LET arguments == Arguments(graph)
      outputs == {u \in arguments : WriteOnly(graph, u)}
  IN /\ Cardinality(arguments) >= 2
     /\ \A u \in arguments \ outputs : ReadOnly(graph, u)
     /\ Cardinality(outputs) = 1

(* Distinct roles, which are the arguments; the inputs read, the rest      *)
(* written.                                                                *)
RolesDistinct(graph, inputs) ==
  LET roles == RoleUids(graph)
  IN /\ Cardinality(Arguments(graph)) = Len(roles)
     /\ Items(roles) = Arguments(graph)
     /\ \A r \in 1..Len(roles) :
          IF r <= inputs THEN ReadOnly(graph, roles[r]) ELSE WriteOnly(graph, roles[r])

MetadataValid(graph, policy) ==
  LET roles == RoleUids(graph)
      tensor == Shapes(graph, roles)
      d == [r \in 1..Len(roles) |-> tensor[r].dims]
      node == graph.nodes[1]
  IN CASE policy = "NONE" -> TRUE
       [] policy = "POINTWISE" -> PointwiseMetadata(graph)
       [] policy = "BLOCK_SCALE_MATMUL" -> RolesDistinct(graph, 4) /\ BlockScaled(tensor)
       [] policy = "MATMUL" -> RolesDistinct(graph, 2) /\ Multiplies(d[1], d[2], d[3])
       [] policy = "SDPA" ->
            /\ RolesDistinct(graph, 3) /\ Attends(d)
            /\ \A r \in 1..4 : tensor[r].strides[4] = 1
       [] policy = "RESHAPE" ->
            RolesDistinct(graph, 1) /\ SameCount(d[1], d[2]) /\ ElementCount(d[1]) <= MaxI64
       [] policy = "REDUCTION" -> RolesDistinct(graph, 1) /\ Reduces(d[1], d[2])
       [] policy = "TRANSPOSE" ->
            /\ RolesDistinct(graph, 1)
            /\ Items(node.axes) = Axes(d[1]) /\ Permuted(d[1], d[2], node.axes)
       [] policy = "CONCATENATE" ->
            /\ RolesDistinct(graph, Len(node.in)) /\ Len(roles) \in 2..64
            /\ Joined(SubSeq(d, 1, Len(node.in)), d[Len(roles)], node.axes[1])

(***************************************************************************)
(* Calling: the relation the resolved shapes must satisfy.                 *)
(***************************************************************************)
PointwiseHolds(graph, resolved) ==
  \A u \in Arguments(graph) :
    resolved[u].dims = resolved[Least(Arguments(graph))].dims

AttentionHolds(graph, resolved) ==
  LET roles == RoleUids(graph)
      d == [r \in 1..Len(roles) |-> resolved[roles[r]].dims]
  IN /\ \A r \in 1..Len(roles) :
          d[r][2] = graph.tensors[roles[r]].dims[2]
            /\ d[r][4] = graph.tensors[roles[r]].dims[4]
     /\ Attends(d)

MatmulHolds(d) == Multiplies(d[1], d[2], d[3])
ReshapeHolds(d) == SameCount(d[1], d[2])
TransposeHolds(d, permutation) == Permuted(d[1], d[2], permutation)
(* Fault: the extents along the axis are not summed.                       *)
ConcatenateHoldsAnySum(d, axis) ==
  \A k \in 1..(Len(d) - 1) : \A a \in Axes(d[k]) \ {axis} : d[k][a] = d[Len(d)][a]
ConcatenateHolds(d, axis) == Joined(SubSeq(d, 1, Len(d) - 1), d[Len(d)], axis)
ReductionHolds(d, compiled) ==
  StillReduces(d[1], d[2], compiled[1].dims, compiled[2].dims)
BlockScaleHolds(role) == BlockScaled(role)

PolicyHolds(graph, policy, resolved) ==
  LET roles == RoleUids(graph)
      role == [r \in 1..Len(roles) |-> resolved[roles[r]]]
      d == [r \in 1..Len(roles) |-> role[r].dims]
      axes == graph.nodes[1].axes
  IN CASE policy = "NONE" -> TRUE
       [] policy = "POINTWISE" -> PointwiseHolds(graph, resolved)
       [] policy = "MATMUL" -> MatmulHolds(d)
       [] policy = "SDPA" -> AttentionHolds(graph, resolved)
       [] policy = "RESHAPE" -> ReshapeHolds(d)
       [] policy = "REDUCTION" -> ReductionHolds(d, Shapes(graph, roles))
       [] policy = "TRANSPOSE" -> TransposeHolds(d, axes)
       [] policy = "CONCATENATE" -> ConcatenateHolds(d, axes[1])
       [] policy = "BLOCK_SCALE_MATMUL" -> BlockScaleHolds(role)
=============================================================================
