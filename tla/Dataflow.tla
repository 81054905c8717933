------------------------------ MODULE Dataflow ------------------------------
(***************************************************************************)
(* What a compiled graph promises: its nodes run in serialized order, each *)
(* tensor has storage of its own, every element a node writes is computed  *)
(* from the whole of the node's inputs, and a virtual tensor keeps its     *)
(* contents until the last node that reads it has run.                     *)
(*                                                                         *)
(* Kernels are uninterpreted: the element k of tensor t is a term made of  *)
(* t, k and the operands it was computed from, so that any stale, partial  *)
(* or overwritten operand gives a different term.                          *)
(***************************************************************************)
EXTENDS Integers, Sequences, SequencesExt

CONSTANT Undefined   (* contents that no node may rely on                  *)

VARIABLES
  graph,     (* the serialized graph, see Graph below                      *)
  node,      (* the node that runs; Len(graph.nodes) + 1 at the end        *)
  written,   (* elements <<t, k>> this node has written                    *)
  store      (* contents of each tensor, element by element                *)

dataflowVars == <<graph, node, written, store>>

(* A graph record holds its tensor uids, which of them are virtual, passed *)
(* by value or embedded constants, their size and alignment in bytes and   *)
(* the nodes with their ports in order.  An element stands for a byte.     *)
Inputs(n) == ToSet(graph.nodes[n].inputs)
Outputs(n) == ToSet(graph.nodes[n].outputs)

Elements(t) == 0..(graph.bytes[t] - 1)

Initial(t) == [k \in Elements(t) |-> [tensor |-> t, element |-> k,
                                      operands |-> <<>>]]
Nothing(t) == [k \in Elements(t) |-> Undefined]

Computed(n, t, k, contents(_)) ==
  [tensor |-> t, element |-> k,
   operands |-> [i \in Inputs(n) |-> contents(i)]]

(* The virtual tensors still needed once node n has run.                   *)
NeededAfter(n) ==
  {t \in graph.virtual :
     \E m \in (n + 1)..Len(graph.nodes) : t \in Inputs(m)}
-----------------------------------------------------------------------------
DataflowInit ==
  /\ node = 1
  /\ written = {}
  /\ store = [t \in graph.tensors |->
                IF t \in graph.virtual THEN Nothing(t) ELSE Initial(t)]

ToWrite(n) == UNION {{t} \X Elements(t) : t \in Outputs(n)}

Runnable ==
  /\ node <= Len(graph.nodes)
  /\ Inputs(node) \cup Outputs(node) \subseteq graph.tensors

WriteElement ==
  /\ Runnable
  /\ \E e \in ToWrite(node) \ written :
       LET contents(i) == store[i]
       IN /\ store' = [store EXCEPT ![e[1]][e[2]] =
                         Computed(node, e[1], e[2], contents)]
          /\ written' = written \cup {e}
  /\ UNCHANGED <<graph, node>>

FinishNode ==
  /\ Runnable
  /\ ToWrite(node) = written
  /\ node' = node + 1
  /\ written' = {}
  /\ store' = [t \in graph.tensors |->
                 IF t \in graph.virtual \ NeededAfter(node)
                 THEN Nothing(t) ELSE store[t]]
  /\ UNCHANGED graph

DataflowNext == WriteElement \/ FinishNode

DataflowSpec == DataflowInit /\ [][DataflowNext]_dataflowVars
=============================================================================
