---------------------------- MODULE GraphCompile ----------------------------
(***************************************************************************)
(* From a serialized graph to compile metadata and a workspace plan:       *)
(* validate_graph_references of the importer, then analyze_graph and the   *)
(* argument binding of build_module (lib/Compiler/FoundationalGraph.cpp),  *)
(* which calls plan_workspace.                                             *)
(*                                                                         *)
(* Data types, shapes and operation attributes are abstracted: a tensor is *)
(* its storage class, size and alignment.  Ragged tensors are left out.    *)
(***************************************************************************)
EXTENDS Integers, Sequences, FiniteSets, SequencesExt

CONSTANTS
  GraphInputs, (* the graphs a compilation may receive                     *)
  UIntMax,     (* largest std::uint64_t                                    *)
  IntMax       (* largest std::int64_t                                     *)

(* A uid is a positive number here, and a port may name any.  The builder  *)
(* refuses the embedded value of a tensor that is not passed by value.     *)
ASSUME GraphAssumption ==
  \A g \in GraphInputs :
    /\ g.tensors \subseteq Nat \ {0}
    /\ g.virtual \subseteq g.tensors /\ IsFiniteSet(g.virtual)
    /\ g.embedded \subseteq g.byValue
    /\ g.bytes \in [g.tensors -> Nat] /\ g.alignment \in [g.tensors -> Nat]
    /\ g.nodes \in Seq([inputs: Seq(Nat), outputs: Seq(Nat)])
ASSUME WidthAssumption == /\ UIntMax \in Nat
                          /\ IntMax \in Nat
                          /\ IntMax <= UIntMax
                          /\ (UIntMax + 1) % 64 = 0

VARIABLES
  graph,     (* the parsed graph, not changed by the compilation           *)
  stage,     (* references, analyze, collect, plan, emit, compiled,        *)
             (* rejected                                                   *)
  cursor,    (* next node of the loop over the nodes                       *)
  producers, (* uids some earlier node produces (validate_graph_references)*)
  usage,     (* Usage record of each uid that some node names              *)
  arguments, (* access of each public argument, a function on uids         *)
  views,     (* workspace offset bound to each virtual tensor              *)
  (* the call of plan_workspace                                            *)
  requests, pc, checked, remaining, current, candidate, allocations, plan,
  status

Planner == INSTANCE WorkspacePlanner WITH Inputs <- {}

analysisVars == <<graph, stage, cursor, producers, usage, arguments, views>>
plannerVars == <<requests, pc, checked, remaining, current, candidate,
                 allocations, plan, status>>
compileVars == <<analysisVars, plannerVars>>

NodeInputs(n) == ToSet(graph.nodes[n].inputs)
NodeOutputs(n) == ToSet(graph.nodes[n].outputs)

(* struct Usage: producer 0 stands for an empty optional.                  *)
NoUsage == [read |-> FALSE, write |-> FALSE, producer |-> 0, last |-> 0]

UsageOf(t) == IF t \in DOMAIN usage THEN usage[t] ELSE NoUsage

Larger(a, b) == IF a > b THEN a ELSE b

Reject ==
  /\ stage' = "rejected"
  /\ UNCHANGED <<graph, cursor, producers, usage, arguments, views,
                 plannerVars>>
-----------------------------------------------------------------------------
(* validate_graph_references, one node at a time: inputs first, then the   *)
(* outputs in port order.                                                  *)
UnresolvedReference(n) ==
  ~ (NodeInputs(n) \cup NodeOutputs(n) \subseteq graph.tensors)

ReadsUnproducedVirtual(n) ==
  \E t \in NodeInputs(n) : t \in graph.virtual /\ t \notin producers

(* Fault: the ports of one node are not compared with each other.          *)
SecondProducerEarlierNode(n) == NodeOutputs(n) \cap producers # {}

SecondProducer(n) ==
  LET outputs == graph.nodes[n].outputs
  IN \E p \in DOMAIN outputs :
       \/ outputs[p] \in producers
       \/ \E q \in 1..(p - 1) : outputs[q] = outputs[p]

BadReferences(n) ==
  \/ UnresolvedReference(n)
  \/ ReadsUnproducedVirtual(n)
  \/ SecondProducer(n)

CheckReferences ==
  /\ stage = "references"
  /\ cursor <= Len(graph.nodes)
  /\ ~ BadReferences(cursor)
  /\ producers' = producers \cup NodeOutputs(cursor)
  /\ cursor' = cursor + 1
  /\ UNCHANGED <<graph, stage, usage, arguments, views, plannerVars>>

RejectReferences ==
  /\ stage = "references"
  /\ \/ cursor <= Len(graph.nodes) /\ BadReferences(cursor)
     \/ cursor > Len(graph.nodes) /\ ~ (graph.virtual \subseteq producers)
  /\ Reject

(* The graph is parsed; the compiler starts analyze_graph, which refuses   *)
(* an empty graph.                                                         *)
AcceptReferences ==
  /\ stage = "references"
  /\ cursor > Len(graph.nodes)
  /\ graph.virtual \subseteq producers
  /\ stage' = IF graph.nodes = <<>> THEN "rejected" ELSE "analyze"
  /\ cursor' = 1
  /\ UNCHANGED <<graph, producers, usage, arguments, views, plannerVars>>
-----------------------------------------------------------------------------
(* analyze_graph, one node at a time.                                      *)
WritesPassByValue(n) == NodeOutputs(n) \cap graph.byValue # {}
InPlace(n) == NodeInputs(n) \cap NodeOutputs(n) # {}

Consume(u, n) == [u EXCEPT !.read = TRUE, !.last = Larger(@, n)]
Produce(u, n) == [u EXCEPT !.write = TRUE, !.producer = n]

AnalyzeNode ==
  /\ stage = "analyze"
  /\ cursor <= Len(graph.nodes)
  /\ ~ WritesPassByValue(cursor)
  /\ ~ InPlace(cursor)
  /\ usage' = [t \in DOMAIN usage \cup NodeInputs(cursor)
                       \cup NodeOutputs(cursor) |->
                 IF t \in NodeInputs(cursor)
                 THEN Consume(UsageOf(t), cursor)
                 ELSE IF t \in NodeOutputs(cursor)
                 THEN Produce(UsageOf(t), cursor)
                 ELSE usage[t]]
  /\ cursor' = cursor + 1
  /\ UNCHANGED <<graph, stage, producers, arguments, views, plannerVars>>

(* Fault: a tensor that is written is never recorded as read.              *)
AccessWriteWins(u) == IF u.write THEN "write" ELSE "read"

(* The argument table and the workspace requests, both in uid order.       *)
Access(u) == IF u.read /\ u.write THEN "readWrite"
             ELSE IF u.write THEN "write" ELSE "read"

ArgumentUids == DOMAIN usage \ (graph.virtual \cup graph.embedded)

LiveEnd(u) == Larger(u.producer, u.last)

RequestFor(t) ==
  [name      |-> t,
   size      |-> graph.bytes[t],
   alignment |-> graph.alignment[t],
   start     |-> usage[t].producer,
   end       |-> LiveEnd(usage[t])]

UidOrders ==
  {order \in Bijection(1..Cardinality(graph.virtual), graph.virtual) :
     \A i, j \in DOMAIN order : i < j => order[i] < order[j]}

CollectRequests ==
  /\ stage = "analyze"
  /\ cursor > Len(graph.nodes)
  /\ \A t \in graph.virtual : UsageOf(t).producer # 0
  /\ arguments' = [t \in ArgumentUids |-> Access(usage[t])]
  /\ \E order \in UidOrders :
       requests' = [i \in DOMAIN order |-> RequestFor(order[i])]
  /\ stage' = "plan"
  /\ UNCHANGED <<graph, cursor, producers, usage, views, pc, checked,
                 remaining, current, candidate, allocations, plan, status>>

(* A by-value output, an in-place node, or a virtual tensor that no node    *)
(* produces.                                                               *)
AnalysisFails ==
  \/ /\ cursor <= Len(graph.nodes)
     /\ WritesPassByValue(cursor) \/ InPlace(cursor)
  \/ /\ cursor > Len(graph.nodes)
     /\ \E t \in graph.virtual : UsageOf(t).producer = 0

RejectAnalysis ==
  /\ stage = "analyze"
  /\ AnalysisFails
  /\ Reject

PlanWorkspace ==
  /\ stage = "plan"
  /\ Planner!Next
  /\ UNCHANGED analysisVars

RejectPlan ==
  /\ stage = "plan"
  /\ pc = "failed"
  /\ Reject

(* build_module finds the allocation of each virtual tensor by name.       *)
BindViews ==
  /\ stage = "plan"
  /\ pc = "done"
  /\ \A t \in graph.virtual :
       \E k \in DOMAIN plan.allocations : plan.allocations[k].name = t
  /\ views' = [t \in graph.virtual |->
                 plan.allocations[CHOOSE k \in DOMAIN plan.allocations :
                                    /\ plan.allocations[k].name = t].offset]
  /\ stage' = "compiled"
  /\ UNCHANGED <<graph, cursor, producers, usage, arguments, plannerVars>>
-----------------------------------------------------------------------------
CompileInit ==
  /\ graph \in GraphInputs
  /\ stage = "references"
  /\ cursor = 1
  /\ producers = {}
  /\ usage = <<>>
  /\ arguments = <<>>
  /\ views = <<>>
  /\ requests = <<>>
  /\ Planner!PlannerInit

CompileNext ==
  \/ CheckReferences
  \/ RejectReferences
  \/ AcceptReferences
  \/ AnalyzeNode
  \/ CollectRequests
  \/ RejectAnalysis
  \/ PlanWorkspace
  \/ RejectPlan
  \/ BindViews

(* Compilation runs to its end in the calling thread.                      *)
CompileSpec ==
  CompileInit /\ [][CompileNext]_compileVars /\ WF_compileVars(CompileNext)
-----------------------------------------------------------------------------
(* The access recorded for an argument covers what the kernels do: the     *)
(* runtime lets two read arguments alias and relies on nothing writing     *)
(* them, and it calls no argument write-only that a node reads.            *)
AccessCoversUse ==
  stage = "compiled" =>
    \A n \in DOMAIN graph.nodes :
      /\ \A t \in NodeInputs(n) \ (graph.virtual \cup graph.embedded) :
           arguments[t] \in {"read", "readWrite"}
      /\ \A t \in NodeOutputs(n) \ graph.virtual :
           arguments[t] \in {"write", "readWrite"}

(* A graph is refused for a reason: names resolve, a tensor has one        *)
(* producer, a virtual tensor has one and is read after it only, a node    *)
(* neither works in place nor writes a by-value scalar, and the plan fits. *)
WellFormed ==
  LET nodes == DOMAIN graph.nodes
      outs(n) == graph.nodes[n].outputs
  IN /\ nodes # {}
     /\ \A n \in nodes :
          /\ NodeInputs(n) \cup NodeOutputs(n) \subseteq graph.tensors
          /\ NodeInputs(n) \cap NodeOutputs(n) = {}
          /\ NodeOutputs(n) \cap graph.byValue = {}
          /\ \A p, q \in DOMAIN outs(n) : p # q => outs(n)[p] # outs(n)[q]
          /\ \A m \in nodes : m # n => NodeOutputs(m) \cap NodeOutputs(n) = {}
          /\ \A t \in NodeInputs(n) \cap graph.virtual :
               \E m \in 1..(n - 1) : t \in NodeOutputs(m)
     /\ \A t \in graph.virtual : \E n \in nodes : t \in NodeOutputs(n)

RejectedOnlyIfIllFormed ==
  /\ stage = "rejected" => ~ WellFormed \/ pc = "failed"
  /\ stage = "compiled" => WellFormed
=============================================================================
