--------------------------- MODULE ShapeOverride ---------------------------
(***************************************************************************)
(* A graph compiled once and called with shapes the caller chooses.        *)
(* Compiling picks the policy or refuses the graph.  A call hands over     *)
(* lists of uids, shapes and strides; each entry is checked by itself,     *)
(* the policy then checks what all of them together describe, and the      *)
(* loops run node by node over the caller's buffers.                       *)
(*                                                                         *)
(* A buffer holds at each slot a value: an element the caller put there,   *)
(* what an operation makes of others, or, between elements, a gap.         *)
(***************************************************************************)
EXTENDS OverridePolicies

(***************************************************************************)
(* The loops compiled for a graph whose extents are known only when it is  *)
(* called.                                                                 *)
(*                                                                         *)
(* A loop nest is the set of its stores: element [at] of tensor [to] gets  *)
(* fn of the loads in [terms], each term a sequence of <<uid, index>>; a   *)
(* sum, product or maximum has one term for each of its operands.  count   *)
(* is the divisor of an average and zero otherwise.                        *)
(***************************************************************************)
Store(to, at, fn, count, terms) ==
  [to |-> to, at |-> at, fn |-> fn, count |-> count, terms |-> terms]
Copy(to, at, from, index) == Store(to, at, "COPY", 0, {<<<<from, index>>>>})

(***************************************************************************)
(* Descriptors of the tensors of a call.                                   *)
(***************************************************************************)
(* A virtual tensor takes its extents from the argument of least uid, or,  *)
(* when it is dequantized, from the tensor it is dequantized from; it is   *)
(* packed.  With fixed shapes it keeps the descriptor it was given.        *)
ExtentSource(graph, policy, u) ==
  IF policy = "BLOCK_SCALE_MATMUL"
  THEN LET n == CHOOSE k \in 1..2 : graph.nodes[k].out[1] = u
       IN graph.nodes[n].in[1]
  ELSE Least(Arguments(graph))

View(graph, policy, resolved, u) ==
  LET t == graph.tensors[u]
      source == resolved[ExtentSource(graph, policy, u)].dims
      extents == [a \in Axes(t.dims) |-> source[a]]
  IN IF ~t.virtual THEN [dims |-> resolved[u].dims, strides |-> resolved[u].strides]
     ELSE IF policy = "NONE" THEN [dims |-> t.dims, strides |-> t.strides]
     ELSE [dims |-> extents, strides |-> PackedStrides(extents)]

(* Where the loops load and store an element.                              *)
SlotOf(tensor, view, i) ==
  IF tensor.reordering = "NONE" THEN Dot(i, view.strides)
  ELSE ReorderedOffset(i, view.dims, ReorderedAxes(tensor.dims, tensor.strides))

(***************************************************************************)
(* The loops.  d maps a uid to its extents in this call, tensors a uid to  *)
(* its compiled descriptor.                                                *)
(***************************************************************************)
PointwiseLoop(node, tensors, d) ==
  LET y == node.out[1]
      Operand(u, i) ==
        LET compiled == tensors[u].dims
            skip == Len(tensors[y].dims) - Len(compiled)
        IN <<u, [a \in Axes(compiled) |->
                   IF compiled[a] = 1 THEN 0 ELSE i[skip + a]]>>
  IN {Store(y, i, node.mode, 0, {[k \in 1..Len(node.in) |-> Operand(node.in[k], i)]}) :
        i \in Indices(d[y])}

ReshapeLoop(node, d) ==
  LET x == node.in[1]  y == node.out[1]
  IN {Copy(y, i, x, Delinear(Linear(i, d[y]), d[x])) : i \in Indices(d[y])}

TransposeLoop(node, d) ==
  LET x == node.in[1]  y == node.out[1]
      Source(i) == [a \in Axes(node.axes) |->
                      i[CHOOSE b \in Axes(node.axes) : node.axes[b] = a]]
  IN {Copy(y, i, x, Source(i)) : i \in Indices(d[y])}

(* Fault: only the last input before k counts.                             *)
ConcatenateOffsetOfLast(node, d, k) ==
  IF k = 1 THEN 0 ELSE d[node.in[k - 1]][node.axes[1]]

(* Extents of the inputs before input k on the axis they are joined along. *)
ConcatenateOffset(node, d, k) ==
  LET offset[n \in 1..k] ==
        IF n = 1 THEN 0 ELSE offset[n - 1] + d[node.in[n - 1]][node.axes[1]]
  IN offset[k]

ConcatenateLoop(node, d) ==
  UNION {{Copy(node.out[1], [i EXCEPT ![node.axes[1]] = @ + ConcatenateOffset(node, d, k)],
               node.in[k], i) : i \in Indices(d[node.in[k]])} :
           k \in 1..Len(node.in)}

(* The axes reduced are the compiled ones; with none, X is copied.         *)
ReductionLoop(node, tensors, d) ==
  LET x == node.in[1]  y == node.out[1]
      reduced == {a \in Axes(tensors[x].dims) :
                    tensors[y].dims[a] = 1 /\ tensors[x].dims[a] # 1}
      Row(i) == Box([a \in Axes(d[x]) |->
                       IF a \in reduced THEN 0..(d[x][a] - 1) ELSE {i[a]}])
      count == IF node.mode # "AVG" THEN 0
               ELSE ElementCount([a \in Axes(d[x]) |-> IF a \in reduced THEN d[x][a] ELSE 1])
  IN IF reduced = {} THEN {Copy(y, i, x, i) : i \in Indices(d[y])}
     ELSE {Store(y, i, node.mode, count, {<<<<x, j>>>> : j \in Row(i)}) :
             i \in Indices(d[y])}

MatmulLoop(node, d) ==
  LET a == node.in[1]  b == node.in[2]  c == node.out[1]
      rank == Len(d[c])
      Batch(u, i) == [x \in 1..rank |-> IF x <= rank - 2 /\ d[u][x] = 1 THEN 0 ELSE i[x]]
      Term(i, k) == <<<<a, [Batch(a, i) EXCEPT ![rank] = k]>>,
                      <<b, [Batch(b, i) EXCEPT ![rank - 1] = k]>>>>
  IN {Store(c, i, "MATMUL", 0, {Term(i, k) : k \in 0..(d[a][rank] - 1)}) :
        i \in Indices(d[c])}

(* Top-left causal: key position at most query position.  Heads and the    *)
(* embedding keep their compiled extents.                                  *)
Score(node, tensors, i, kv) ==
  LET q == node.in[1]  k == node.in[2]
      head == i[2] \div (tensors[q].dims[2] \div tensors[k].dims[2])
  IN {<<<<q, <<i[1], i[2], i[3], e>>>>, <<k, <<i[1], head, kv, e>>>>>> :
        e \in 0..(tensors[q].dims[4] - 1)}

LiveKeys(node, d, i) ==
  {kv \in 0..(d[node.in[2]][3] - 1) : node.causal => kv <= i[3]}

SdpaLoop(node, tensors, d) ==
  LET q == node.in[1]  v == node.in[3]  o == node.out[1]
      head(i) == i[2] \div (tensors[q].dims[2] \div tensors[v].dims[2])
      Row(i) == UNION {Score(node, tensors, i, kv) : kv \in LiveKeys(node, d, i)}
      Weighted(i) ==
        UNION {{term \o <<<<v, <<i[1], head(i), kv, i[4]>>>>>> :
                  term \in Score(node, tensors, i, kv)} : kv \in LiveKeys(node, d, i)}
      rows == Indices(SubSeq(d[q], 1, 3))
  IN {Store(node.out[p], Append(i, 0), "STATS", 0, Row(Append(i, 0))) :
        p \in 2..Len(node.out), i \in rows}
       \cup {Store(o, i, "SDPA", 0, Weighted(i)) : i \in Indices(d[o])}

DequantizeLoop(node, d) ==
  LET x == node.in[1]  y == node.out[1]
      first == Len(d[y]) - Len(node.axes)
      Block(i) == [a \in Axes(d[y]) |->
                     IF a <= first THEN i[a] ELSE i[a] \div node.axes[a - first]]
  IN {Store(y, i, "SCALE", 0, {<<<<x, i>>, <<node.in[2], Block(i)>>>>}) :
        i \in Indices(d[y])}

Loop(node, tensors, d) ==
  CASE node.tag = "POINTWISE" -> PointwiseLoop(node, tensors, d)
    [] node.tag = "RESHAPE" -> ReshapeLoop(node, d)
    [] node.tag = "TRANSPOSE" -> TransposeLoop(node, d)
    [] node.tag = "CONCATENATE" -> ConcatenateLoop(node, d)
    [] node.tag = "REDUCTION" -> ReductionLoop(node, tensors, d)
    [] node.tag = "MATMUL" -> MatmulLoop(node, d)
    [] node.tag = "SDPA" -> SdpaLoop(node, tensors, d)
    [] node.tag = "DEQUANTIZE" -> DequantizeLoop(node, d)
-----------------------------------------------------------------------------
CONSTANTS Graphs,       (* graphs a compiler may be given                  *)
          Offers(_)     (* for a graph, the [uid, dims, strides] of calls  *)

VARIABLES graph,      (* the graph compiled                                *)
          phase,      (* where compiling and calling stand                 *)
          resolved,   (* descriptor of each argument in this call          *)
          seen,       (* uids the call has overridden                      *)
          memory,     (* for each tensor written, its slots' values        *)
          node        (* next node to run                                  *)

vars == <<graph, phase, resolved, seen, memory, node>>

policy == Policy(graph)

(***************************************************************************)
(* Values.                                                                 *)
(***************************************************************************)
Value(fn, leaf, count, of) == [fn |-> fn, leaf |-> leaf, count |-> count, of |-> of]
Given(u, i) == Value("GIVEN", <<u>> \o i, 0, {})
Gap == Value("GAP", <<>>, 0, {})

(* A sum, product, minimum, maximum or average of one element is it.       *)
Applied(fn, count, operands) ==
  IF fn = "COPY" \/ (fn \in {"ADD", "MUL", "MIN", "MAX", "AVG"} /\ count <= 1
                       /\ \E x \in operands : operands = {x} /\ Len(x) = 1)
  THEN (CHOOSE x \in operands : TRUE)[1]
  ELSE Value(fn, <<>>, count, operands)

(***************************************************************************)
(* The buffers of a call.                                                  *)
(***************************************************************************)
ViewOf(u) == View(graph, policy, resolved, u)
Extents == [u \in DOMAIN graph.tensors |-> ViewOf(u).dims]
Slot(u, i) == SlotOf(graph.tensors[u], ViewOf(u), i)

Load(u, i) ==
  LET slot == Slot(u, i)
      Here == {j \in Indices(ViewOf(u).dims) : Slot(u, j) = slot}
  IN IF u \in DOMAIN memory
     THEN IF slot \in DOMAIN memory[u] THEN memory[u][slot] ELSE Gap
     ELSE IF Here = {} THEN Gap ELSE Given(u, CHOOSE j \in Here : TRUE)

Stores(n) == Loop(graph.nodes[n], graph.tensors, Extents)

Stored(store) ==
  Applied(store.fn, store.count,
          {[k \in 1..Len(term) |-> Load(term[k][1], term[k][2])] : term \in store.terms})

(* The buffer of u after a node's stores to it.                            *)
Filled(u, stores) ==
  LET own == {st \in stores : st.to = u}
  IN [slot \in {Slot(u, st.at) : st \in own} |->
        Stored(CHOOSE st \in own : Slot(u, st.at) = slot)]

(***************************************************************************)
(* Compiling.                                                              *)
(***************************************************************************)
Compiles ==
  /\ \A u \in DOMAIN graph.tensors : TensorValid(graph.tensors[u])
  /\ \A n \in 1..Len(graph.nodes) : NodeValid(graph, graph.nodes[n])
  /\ policy # "REFUSED"
  /\ MetadataValid(graph, policy)

CompiledArgument(t) ==
  [dims |-> t.dims, strides |-> t.strides,
   bytes |-> StorageBytes(t.type, t.dims, t.strides)]

Init ==
  /\ graph \in Graphs
  /\ phase = "compile"
  /\ resolved = <<>> /\ seen = {} /\ memory = <<>> /\ node = 1

Compile ==
  /\ phase = "compile"
  /\ Compiles
  /\ phase' = "call"
  /\ resolved' = [u \in Arguments(graph) |-> CompiledArgument(graph.tensors[u])]
  /\ UNCHANGED <<graph, seen, memory, node>>

RefuseGraph ==
  /\ phase = "compile"
  /\ ~Compiles
  /\ phase' = "refused"
  /\ UNCHANGED <<graph, resolved, seen, memory, node>>

(***************************************************************************)
(* Calling.                                                                *)
(***************************************************************************)
OverrideFits(o) ==
  LET t == graph.tensors[o.uid]
  IN /\ graph.overrideEnabled
     /\ o.uid \in Arguments(graph) \ seen
     /\ Len(o.dims) = Len(t.dims) /\ Len(o.strides) = Len(t.strides)
     /\ \A a \in Axes(t.dims) : o.dims[a] \in 1..t.dims[a]
     /\ NonOverlapping(o.dims, o.strides)
     /\ HasStorage(t.type, o.dims, o.strides)
     /\ StorageBytes(t.type, o.dims, o.strides) <= CompiledArgument(t).bytes

Override(o) ==
  /\ phase = "call"
  /\ OverrideFits(o)
  /\ resolved' = [resolved EXCEPT ![o.uid] =
                    [dims |-> o.dims, strides |-> o.strides,
                     bytes |-> StorageBytes(graph.tensors[o.uid].type, o.dims, o.strides)]]
  /\ seen' = seen \cup {o.uid}
  /\ UNCHANGED <<graph, phase, memory, node>>

Reject ==
  /\ phase' = "rejected"
  /\ resolved' = <<>> /\ seen' = {}
  /\ UNCHANGED <<graph, memory, node>>

RejectOverride(o) == phase = "call" /\ ~OverrideFits(o) /\ Reject

(* The three lists differ in length, which is looked at first.             *)
RejectLists == phase = "call" /\ seen = {} /\ Reject

(* The lists end.                                                          *)
RejectShapes == phase = "call" /\ ~PolicyHolds(graph, policy, resolved) /\ Reject

AcceptShapes ==
  /\ phase = "call"
  /\ PolicyHolds(graph, policy, resolved)
  /\ phase' = "run"
  /\ UNCHANGED <<graph, resolved, seen, memory, node>>

RunNode ==
  /\ phase = "run" /\ node <= Len(graph.nodes)
  /\ LET stores == Stores(node)
         out == Items(graph.nodes[node].out)
     IN memory' = [u \in DOMAIN memory \cup out |->
                     IF u \in out THEN Filled(u, stores) ELSE memory[u]]
  /\ node' = node + 1
  /\ UNCHANGED <<graph, phase, resolved, seen>>

Return ==
  /\ phase = "run" /\ node > Len(graph.nodes)
  /\ phase' = "done"
  /\ UNCHANGED <<graph, resolved, seen, memory, node>>

Next ==
  \/ Compile
  \/ RefuseGraph
  \/ \E o \in Offers(graph) : Override(o)
  \/ \E o \in Offers(graph) : RejectOverride(o)
  \/ RejectLists
  \/ RejectShapes
  \/ AcceptShapes
  \/ RunNode
  \/ Return

Spec == Init /\ [][Next]_vars

(***************************************************************************)
(* Every element a loop is about to load or store is one its tensor has in *)
(* this call, and lies within the bytes the call gives the tensor: for an  *)
(* argument those of its resolved descriptor, which are never more than    *)
(* the compiled ones; for a virtual tensor those planned in the workspace  *)
(* when the graph was compiled.                                            *)
(***************************************************************************)
Inside(u, i) ==
  LET t == graph.tensors[u]
      planned == StorageBytes(t.type, t.dims, t.strides)
      bytes == IF t.virtual THEN planned ELSE resolved[u].bytes
  IN /\ i \in Indices(Extents[u])
     /\ (Slot(u, i) + 1) * StorageBits[t.type] <= 8 * bytes
     /\ bytes <= planned

AccessesStayInside ==
  phase = "run" /\ node <= Len(graph.nodes) =>
    \A st \in Stores(node) :
      /\ Inside(st.to, st.at)
      /\ \A term \in st.terms : \A k \in 1..Len(term) : Inside(term[k][1], term[k][2])

(***************************************************************************)
(* What the operations mean, said of whole tensors: x maps a uid to its    *)
(* elements, d to its extents.                                             *)
(***************************************************************************)
Agree(i, j, axes) == \A a \in axes : i[a] = j[a]

Means(n, port, i, x, d) ==
  LET op == graph.nodes[n]
      one == op.in[1]
      compiled == graph.tensors[one].dims
      y == op.out[port]
      rank == Len(i)
      All(u) == Indices(d[u])
      Follows(j, u) == \A a \in 1..(rank - 2) : j[a] = i[a] \/ d[u][a] = 1
      Groups(u) == d[one][2] \div d[u][2]
  IN CASE op.tag = "POINTWISE" ->
            LET At(u) == CHOOSE j \in All(u) : \A a \in Axes(j) :
                           j[a] = i[a + rank - Len(j)] \/ d[u][a] = 1
            IN Applied(op.mode, 0, {[k \in 1..Len(op.in) |-> x[op.in[k]][At(op.in[k])]]})
       [] op.tag = "RESHAPE" ->
            x[one][CHOOSE j \in All(one) : Linear(j, d[one]) = Linear(i, d[y])]
       [] op.tag = "TRANSPOSE" ->
            x[one][CHOOSE j \in All(one) : \A a \in 1..rank : i[a] = j[op.axes[a]]]
       [] op.tag = "CONCATENATE" ->
            LET axis == op.axes[1]
                inputs == [k \in 1..Len(op.in) |-> d[op.in[k]]]
                k == CHOOSE m \in 1..Len(op.in) :
                       /\ ExtentBefore(inputs, axis, m - 1) <= i[axis]
                       /\ i[axis] < ExtentBefore(inputs, axis, m)
            IN x[op.in[k]][[i EXCEPT ![axis] = @ - ExtentBefore(inputs, axis, k - 1)]]
       [] op.tag = "REDUCTION" ->
            LET kept == {a \in 1..rank : compiled[a] = graph.tensors[y].dims[a]}
                row == {j \in All(one) : Agree(i, j, kept)}
            IN Applied(op.mode, IF op.mode = "AVG" THEN Cardinality(row) ELSE 0,
                       {<<x[one][j]>> : j \in row})
       [] op.tag = "MATMUL" ->
            LET b == op.in[2]
                rows == {j \in All(one) : j[rank - 1] = i[rank - 1] /\ Follows(j, one)}
                columns == {j \in All(b) : j[rank] = i[rank] /\ Follows(j, b)}
            IN Applied("MATMUL", 0,
                 {<<x[one][j], x[b][m]>> : <<j, m>> \in
                    {p \in rows \X columns : p[1][rank] = p[2][rank - 1]}})
       [] op.tag = "SDPA" ->
            LET k == op.in[2]
                v == op.in[3]
                queries == {j \in All(one) : Agree(i, j, 1..3)}
                keys == {j \in All(k) : j[1] = i[1] /\ j[2] = i[2] \div Groups(k)
                                          /\ (op.causal => j[3] <= i[3])}
                values == {j \in All(v) : j[1] = i[1] /\ j[2] = i[2] \div Groups(v)
                                            /\ j[4] = i[4]}
                scores == {p \in queries \X keys : p[1][4] = p[2][4]}
            IN IF port > 1
               THEN Applied("STATS", 0, {<<x[one][p[1]], x[k][p[2]]>> : p \in scores})
               ELSE Applied("SDPA", 0,
                      {<<x[one][p[1][1]], x[k][p[1][2]], x[v][p[2]]>> :
                         p \in {w \in scores \X values : w[1][2][3] = w[2][3]}})
       [] op.tag = "DEQUANTIZE" ->
            LET factor == op.in[2]
                size == [a \in 1..rank |-> IF a = 1 THEN 1 ELSE op.axes[a - 1]]
                at == CHOOSE j \in All(factor) :
                        \A a \in 1..rank : i[a] \in (j[a] * size[a])..((j[a] + 1) * size[a] - 1)
            IN Applied("SCALE", 0, {<<x[one][i], x[factor][at]>>})

(* Elements of all tensors once the first n nodes have run.                *)
Meaning ==
  LET d == Extents
      given == [u \in DOMAIN d |-> [i \in Indices(d[u]) |-> Given(u, i)]]
      after[n \in 0..Len(graph.nodes)] ==
        IF n = 0 THEN given
        ELSE LET out == graph.nodes[n].out
             IN [u \in DOMAIN d |->
                   IF u \in Items(out)
                   THEN LET p == CHOOSE q \in 1..Len(out) : out[q] = u
                        IN [i \in Indices(d[u]) |-> Means(n, p, i, after[n - 1], d)]
                   ELSE after[n - 1][u]]
  IN after[Len(graph.nodes)]

(***************************************************************************)
(* A call that returns has stored, for each tensor written and each        *)
(* element it has in this call, what the operations mean, at the place the *)
(* call's strides give that element, and has touched no other slot.        *)
(***************************************************************************)
OutputIsReference ==
  phase = "done" =>
    LET meaning == Meaning
    IN \A u \in Written(graph) \cap Arguments(graph) :
         LET elements == Indices(resolved[u].dims)
         IN /\ DOMAIN memory[u] = {Slot(u, i) : i \in elements}
            /\ \A i \in elements : memory[u][Slot(u, i)] = meaning[u][i]

(***************************************************************************)
(* The test's reduction_reference, said of every row, rows of one element  *)
(* included: NORM1 is the sum of the magnitudes of the row.  The loops     *)
(* copy X, sign and all, when no compiled axis is reduced.                 *)
(***************************************************************************)
ReductionMatchesReference ==
  phase = "done" /\ graph.nodes[1].tag = "REDUCTION" => OutputIsReference
=============================================================================
