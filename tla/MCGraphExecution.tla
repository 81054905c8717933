-------------------------- MODULE MCGraphExecution --------------------------
(***************************************************************************)
(* Chains of four nodes over every choice of inputs, where several virtual *)
(* tensors compete for the same workspace bytes, and graphs whose first    *)
(* node has two virtual outputs.  Then graphs of two nodes over three      *)
(* tensors, most of them ill formed: a tensor read before it is written,   *)
(* written twice or by its own reader, a constant written, a tensor that   *)
(* is read by one node and written by another.                             *)
(***************************************************************************)
EXTENDS GraphExecution

InputPorts(S) == {<<a>> : a \in S} \cup {p \in S \X S : p[1] < p[2]}

(* Node i of a chain produces tensor i + 1, so tensor 1 is an input.       *)
ChainNode(i) ==
  {[inputs |-> p, outputs |-> <<i + 1>>] : p \in InputPorts(1..i)}

ChainNodes == ChainNode(1) \X ChainNode(2) \X ChainNode(3) \X ChainNode(4)

Chains ==
  {[tensors |-> 1..5, virtual |-> v, byValue |-> {}, embedded |-> {},
    bytes |-> b, alignment |-> b, nodes |-> s] :
     s \in ChainNodes, v \in {2..4, 2..3, {2, 4}},
     b \in {<<1, 2, 1, 1, 1>>, <<1, 1, 2, 1, 1>>, <<1, 1, 1, 2, 1>>}}

ForkNodes ==
  {<<[inputs |-> <<1>>, outputs |-> <<2, 3>>],
     [inputs |-> p, outputs |-> <<4>>],
     [inputs |-> q, outputs |-> <<5>>]>> :
     p \in InputPorts(2..3), q \in InputPorts(2..4)}

Forks ==
  {[tensors |-> 1..5, virtual |-> v, byValue |-> {}, embedded |-> {},
    bytes |-> [t \in 1..5 |-> 1], alignment |-> [t \in 1..5 |-> 1],
    nodes |-> s] :
     s \in ForkNodes, v \in {2..4, 2..3}}

SmallNode ==
  [inputs: InputPorts(1..3), outputs: {<<a>> : a \in 1..3} \cup
                                      {<<2, 3>>, <<3, 2>>, <<2, 2>>}]

SmallGraphs ==
  {[tensors |-> 1..3, virtual |-> v, byValue |-> e, embedded |-> e,
    bytes |-> [t \in 1..3 |-> t], alignment |-> [t \in 1..3 |-> 1],
    nodes |-> s] :
     s \in [1..2 -> SmallNode], v \in SUBSET {2, 3}, e \in SUBSET {1}}

(* No node at all, a reference to an absent tensor, a virtual tensor no    *)
(* node produces, and a workspace too large for int64_t.                   *)
Odd(v, b) ==
  {[tensors |-> 1..2, virtual |-> v, byValue |-> {}, embedded |-> {},
    bytes |-> [t \in 1..2 |-> b], alignment |-> [t \in 1..2 |-> 1],
    nodes |-> s] :
     s \in {<<>>, <<[inputs |-> <<1>>, outputs |-> <<3>>]>>,
            <<[inputs |-> <<3>>, outputs |-> <<2>>]>>,
            <<[inputs |-> <<1>>, outputs |-> <<2>>]>>}}
OddGraphs == Odd({}, 1) \cup Odd({2}, 1) \cup Odd({2}, 600)

MCGraphInputs == Chains \cup Forks \cup SmallGraphs \cup OddGraphs
=============================================================================
