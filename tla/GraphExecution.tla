--------------------------- MODULE GraphExecution ---------------------------
(***************************************************************************)
(* A compiled graph and one run of it: the nodes execute in order, virtual *)
(* tensors live at their planned offsets of one workspace, and the bytes   *)
(* of a workspace range pass from one tensor to the next.                  *)
(*                                                                         *)
(* The loop nests that emit_operation builds are abstracted to the order-  *)
(* free writing of the output elements, each computed from what the inputs *)
(* hold at that moment.                                                    *)
(***************************************************************************)
EXTENDS GraphCompile

CONSTANT Undefined

VARIABLES
  node,      (* node that runs                                             *)
  written,   (* elements <<t, k>> the node has written                     *)
  external,  (* contents of the tensors that are not virtual               *)
  workspace  (* contents of the workspace bytes                            *)

runVars == <<node, written, external, workspace>>
allVars == <<compileVars, runVars>>

(* The vocabulary of Dataflow, without its store.                          *)
D == INSTANCE Dataflow WITH store <- external

Contents(t) ==
  IF t \in graph.virtual
  THEN [k \in D!Elements(t) |-> workspace[views[t] + k]]
  ELSE external[t]

ExecutionInit ==
  /\ CompileInit
  /\ node = 1
  /\ written = {}
  /\ external = [t \in graph.tensors \ graph.virtual |-> D!Initial(t)]
  /\ workspace = <<>>

(* The caller provides a workspace of the planned size, contents unknown.  *)
Compile ==
  /\ CompileNext
  /\ workspace' = IF stage' = "compiled"
                  THEN [b \in 0..(plan.size - 1) |-> Undefined]
                  ELSE workspace
  /\ UNCHANGED <<node, written, external>>

RunElement ==
  /\ stage = "compiled"
  /\ node <= Len(graph.nodes)
  /\ \E e \in D!ToWrite(node) \ written :
       LET value == D!Computed(node, e[1], e[2], Contents)
       IN /\ IF e[1] \in graph.virtual
             THEN /\ workspace' =
                       [workspace EXCEPT ![views[e[1]] + e[2]] = value]
                  /\ UNCHANGED external
             ELSE /\ external' = [external EXCEPT ![e[1]][e[2]] = value]
                  /\ UNCHANGED workspace
          /\ written' = written \cup {e}
  /\ UNCHANGED <<compileVars, node>>

NextNode ==
  /\ stage = "compiled"
  /\ node <= Len(graph.nodes)
  /\ D!ToWrite(node) = written
  /\ node' = node + 1
  /\ written' = {}
  /\ UNCHANGED <<compileVars, external, workspace>>

ExecutionNext == Compile \/ RunElement \/ NextNode

ExecutionSpec == ExecutionInit /\ [][ExecutionNext]_allVars
-----------------------------------------------------------------------------
(* The contents a later step may rely on: what an external tensor holds,   *)
(* and the workspace bytes of a virtual tensor from the moment its         *)
(* producer writes them until its last consumer has run.                   *)
Defined(t, k) ==
  /\ stage = "compiled"
  /\ \/ usage[t].producer = node /\ <<t, k>> \in written
     \/ usage[t].producer < node /\ node <= usage[t].last

AbstractStore ==
  [t \in graph.tensors |->
     IF t \notin graph.virtual THEN external[t]
     ELSE [k \in D!Elements(t) |->
             IF Defined(t, k) THEN workspace[views[t] + k] ELSE Undefined]]

Abstract == INSTANCE Dataflow WITH store <- AbstractStore

(* Sharing workspace bytes is invisible: the run of the compiled graph is  *)
(* a run of the dataflow graph in which every tensor has its own storage.  *)
ImplementsDataflow == Abstract!DataflowSpec
=============================================================================
