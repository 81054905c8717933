------------------------ MODULE GraphExecution_proofs ------------------------
(***************************************************************************)
(* What the compiler makes of a graph, for every graph and all word        *)
(* widths: why a graph is refused, what the access of an argument covers,  *)
(* and that sharing workspace bytes between tensors is invisible.          *)
(***************************************************************************)
EXTENDS GraphExecution, SequenceTheorems, FiniteSetTheorems, TLAPS

Planning == INSTANCE WorkspacePlanner_proofs WITH Inputs <- {}

(* The steps of the planner the model composes are those proved about.     *)
LEMMA SamePlanner == [Planner!Next]_plannerVars => [Planning!Next]_Planning!vars
<1>1. Planner!ValidateRequest => Planning!ValidateRequest
  BY DEF Planner!ValidateRequest, Planner!RequestStatus, Planner!Malformed,
         Planner!PowersOfTwo, Planning!ValidateRequest,
         Planning!RequestStatus, Planning!Malformed, Planning!PowersOfTwo
<1>2. Planner!RejectRequest => Planning!RejectRequest
  BY DEF Planner!RejectRequest, Planner!RequestStatus, Planner!Malformed,
         Planner!PowersOfTwo, Planner!Fail, Planning!RejectRequest,
         Planning!RequestStatus, Planning!Malformed, Planning!PowersOfTwo,
         Planning!Fail
<1>3. Planner!SortRequests => Planning!SortRequests
  BY DEF Planner!SortRequests, Planning!SortRequests
<1>4. Planner!TakeRequest => Planning!TakeRequest
  BY DEF Planner!TakeRequest, Planner!Precedes, Planning!TakeRequest,
         Planning!Precedes
<1>5. Planner!CandidateFits <=> Planning!CandidateFits
  BY DEF Planner!CandidateFits, Planner!AlignOverflows,
         Planner!AlignedCandidate, Planner!AlignUp, Planning!CandidateFits,
         Planning!AlignOverflows, Planning!AlignedCandidate, Planning!AlignUp
<1>6. Planner!AlignedCandidate = Planning!AlignedCandidate
  BY DEF Planner!AlignedCandidate, Planner!AlignUp,
         Planning!AlignedCandidate, Planning!AlignUp
<1>7. \A r, at : Planner!ConflictsAt(r, at) = Planning!ConflictsAt(r, at)
  BY DEF Planner!ConflictsAt, Planner!LifetimesOverlap,
         Planner!RangesOverlap, Planner!AllocationEnd, Planning!ConflictsAt,
         Planning!LifetimesOverlap, Planning!RangesOverlap,
         Planning!AllocationEnd
<1>8. Planner!PlaceRequest => Planning!PlaceRequest
  BY <1>5, <1>6, <1>7 DEF Planner!PlaceRequest, Planning!PlaceRequest
<1>9. Planner!BumpCandidate => Planning!BumpCandidate
  BY <1>5, <1>6, <1>7
     DEF Planner!BumpCandidate, Planner!AllocationEnd,
         Planning!BumpCandidate, Planning!AllocationEnd
<1>10. Planner!OverflowCandidate => Planning!OverflowCandidate
  BY <1>5 DEF Planner!OverflowCandidate, Planner!Fail,
              Planning!OverflowCandidate, Planning!Fail
<1>11. /\ Planner!AllocationEnds = Planning!AllocationEnds
       /\ \A m, S : Planner!IsMaximum(m, S) <=> Planning!IsMaximum(m, S)
       /\ \A high : Planner!SizeFits(high) <=> Planning!SizeFits(high)
       /\ \A high : Planner!AlignUp(high, Planner!kWorkspaceAlignment)
                      = Planning!AlignUp(high, Planning!kWorkspaceAlignment)
  BY DEF Planner!AllocationEnds, Planner!AllocationEnd, Planner!IsMaximum,
         Planner!SizeFits, Planner!AlignOverflows, Planner!AlignUp,
         Planner!kWorkspaceAlignment, Planning!AllocationEnds,
         Planning!AllocationEnd, Planning!IsMaximum, Planning!SizeFits,
         Planning!AlignOverflows, Planning!AlignUp,
         Planning!kWorkspaceAlignment
<1>12. Planner!FinishPlan => Planning!FinishPlan
  BY <1>11 DEF Planner!FinishPlan, Planning!FinishPlan
<1>13. Planner!OverflowPlan => Planning!OverflowPlan
  BY <1>11 DEF Planner!OverflowPlan, Planner!Fail, Planning!OverflowPlan,
               Planning!Fail
<1> QED
  BY <1>1, <1>2, <1>3, <1>4, <1>8, <1>9, <1>10, <1>12, <1>13
     DEF Planner!Next, Planning!Next, plannerVars, Planning!vars

-----------------------------------------------------------------------------
Count == Len(graph.nodes)

LEMMA GraphFacts ==
  ASSUME graph \in GraphInputs
  PROVE  /\ graph.tensors \subseteq Nat \ {0}
         /\ graph.virtual \subseteq graph.tensors
         /\ IsFiniteSet(graph.virtual)
         /\ graph.embedded \subseteq graph.byValue
         /\ \A t \in graph.tensors : /\ graph.bytes[t] \in Nat
                                     /\ graph.alignment[t] \in Nat
         /\ DOMAIN graph.nodes = 1..Count /\ Count \in Nat
         /\ graph.nodes = <<>> <=> Count = 0
         /\ \A n \in 1..Count : /\ graph.nodes[n].inputs \in Seq(Nat)
                               /\ graph.nodes[n].outputs \in Seq(Nat)
<1>1. /\ graph.nodes \in Seq([inputs: Seq(Nat), outputs: Seq(Nat)])
      /\ graph.bytes \in [graph.tensors -> Nat]
      /\ graph.alignment \in [graph.tensors -> Nat]
  BY GraphAssumption
<1>2. DOMAIN graph.nodes = 1..Count /\ Count \in Nat
  BY <1>1 DEF Count
<1>3. graph.nodes = <<>> <=> Count = 0
  BY <1>1, EmptySeq DEF Count
<1>4. ASSUME NEW n \in 1..Count
      PROVE  /\ graph.nodes[n].inputs \in Seq(Nat)
             /\ graph.nodes[n].outputs \in Seq(Nat)
  <2>1. graph.nodes[n] \in [inputs: Seq(Nat), outputs: Seq(Nat)]
    BY <1>1, ElementOfSeq DEF Count
  <2> QED
    BY <2>1
<1>5. /\ graph.tensors \subseteq Nat \ {0}
      /\ graph.virtual \subseteq graph.tensors
      /\ IsFiniteSet(graph.virtual)
      /\ graph.embedded \subseteq graph.byValue
  BY GraphAssumption
<1>6. \A t \in graph.tensors : /\ graph.bytes[t] \in Nat
                               /\ graph.alignment[t] \in Nat
  BY <1>1
<1> QED
  BY <1>2, <1>3, <1>4, <1>5, <1>6
-----------------------------------------------------------------------------
(* What the importer has established of a node once it accepted it, and    *)
(* analyze_graph once it recorded its uses.                                *)
Resolved(n) ==
  /\ NodeInputs(n) \cup NodeOutputs(n) \subseteq graph.tensors
  /\ \A t \in NodeInputs(n) \cap graph.virtual :
       \E m \in 1..(n - 1) : t \in NodeOutputs(m)
  /\ \A p, q \in DOMAIN graph.nodes[n].outputs :
       p # q => graph.nodes[n].outputs[p] # graph.nodes[n].outputs[q]
  /\ \A m \in 1..(n - 1) : NodeOutputs(m) \cap NodeOutputs(n) = {}

Plain(n) == /\ NodeInputs(n) \cap NodeOutputs(n) = {}
            /\ NodeOutputs(n) \cap graph.byValue = {}

(* The references of the first k nodes are resolved.                       *)
ResolvedUpTo(k) ==
  /\ producers = UNION {NodeOutputs(m) : m \in 1..k}
  /\ \A m \in 1..k : Resolved(m)

AllResolved ==
  /\ Count # 0
  /\ \A m \in 1..Count : Resolved(m)
  /\ \A t \in graph.virtual : \E m \in 1..Count : t \in NodeOutputs(m)

(* The usage map after the first k nodes.                                  *)
Recorded(t, k) ==
  /\ usage[t] \in [read: BOOLEAN, write: BOOLEAN, producer: 0..k, last: 0..k]
  /\ usage[t].read <=> \E m \in 1..k : t \in NodeInputs(m)
  /\ usage[t].write <=> \E m \in 1..k : t \in NodeOutputs(m)
  /\ \A m \in 1..k : t \in NodeOutputs(m) <=> m = usage[t].producer
  /\ \A m \in 1..k : t \in NodeInputs(m) => m <= usage[t].last
  /\ usage[t].last # 0 => t \in NodeInputs(usage[t].last)

UsageUpTo(k) ==
  /\ \A m \in 1..k : Plain(m)
  /\ DOMAIN usage = UNION {NodeInputs(m) \cup NodeOutputs(m) : m \in 1..k}
  /\ \A t \in DOMAIN usage : Recorded(t, k)

LEMMA SameGraph ==
  ASSUME graph' = graph
  PROVE  /\ Count' = Count
         /\ \A n : /\ NodeInputs(n)' = NodeInputs(n)
                   /\ NodeOutputs(n)' = NodeOutputs(n)
                   /\ Resolved(n)' <=> Resolved(n)
                   /\ Plain(n)' <=> Plain(n)
         /\ AllResolved' <=> AllResolved
         /\ WellFormed' <=> WellFormed
BY DEF Count, NodeInputs, NodeOutputs, Resolved, Plain, AllResolved, WellFormed

(* WellFormed, node by node.                                               *)
LEMMA WellFormedParts ==
  ASSUME graph \in GraphInputs
  PROVE  WellFormed <=> AllResolved /\ \A n \in 1..Count : Plain(n)
<1>1. DOMAIN graph.nodes = 1..Count /\ Count \in Nat
  BY GraphFacts
<1>2. ASSUME WellFormed PROVE AllResolved /\ \A n \in 1..Count : Plain(n)
  <2>1. Count # 0
    BY <1>1, <1>2 DEF WellFormed
  <2>2. ASSUME NEW n \in 1..Count PROVE Resolved(n) /\ Plain(n)
    <3>1. \A m \in 1..(n - 1) : m \in DOMAIN graph.nodes /\ m # n
      BY <1>1
    <3>2. \A t \in NodeInputs(n) \cap graph.virtual :
            \E m \in 1..(n - 1) : t \in NodeOutputs(m)
      BY <1>1, <1>2 DEF WellFormed
    <3>3. \A p, q \in DOMAIN graph.nodes[n].outputs :
            p # q => graph.nodes[n].outputs[p] # graph.nodes[n].outputs[q]
      BY <1>1, <1>2 DEF WellFormed
    <3>4. \A m \in 1..(n - 1) : NodeOutputs(m) \cap NodeOutputs(n) = {}
      BY <1>1, <1>2, <3>1 DEF WellFormed
    <3>5. /\ NodeInputs(n) \cup NodeOutputs(n) \subseteq graph.tensors
          /\ Plain(n)
      BY <1>1, <1>2 DEF WellFormed, Plain
    <3> QED
      BY <3>2, <3>3, <3>4, <3>5 DEF Resolved
  <2>3. \A t \in graph.virtual : \E m \in 1..Count : t \in NodeOutputs(m)
    BY <1>1, <1>2 DEF WellFormed
  <2> QED
    BY <2>1, <2>2, <2>3 DEF AllResolved
<1>3. ASSUME AllResolved, \A n \in 1..Count : Plain(n) PROVE WellFormed
  <2>1. DOMAIN graph.nodes # {}
    BY <1>1, <1>3 DEF AllResolved
  <2>2. ASSUME NEW n \in 1..Count, NEW m \in 1..Count, m # n
        PROVE  NodeOutputs(m) \cap NodeOutputs(n) = {}
    <3>1. m \in 1..(n - 1) \/ n \in 1..(m - 1)
      BY <1>1, <2>2
    <3> QED
      BY <1>3, <3>1 DEF AllResolved, Resolved
  <2>3. ASSUME NEW n \in 1..Count
        PROVE  /\ NodeInputs(n) \cup NodeOutputs(n) \subseteq graph.tensors
               /\ NodeInputs(n) \cap NodeOutputs(n) = {}
               /\ NodeOutputs(n) \cap graph.byValue = {}
               /\ \A p, q \in DOMAIN graph.nodes[n].outputs :
                    p # q => graph.nodes[n].outputs[p] # graph.nodes[n].outputs[q]
               /\ \A t \in NodeInputs(n) \cap graph.virtual :
                    \E m \in 1..(n - 1) : t \in NodeOutputs(m)
    BY <1>3 DEF AllResolved, Resolved, Plain
  <2>4. \A t \in graph.virtual : \E n \in 1..Count : t \in NodeOutputs(n)
    BY <1>3 DEF AllResolved
  <2> QED
    BY <1>1, <2>1, <2>2, <2>3, <2>4 DEF WellFormed
<1> QED
  BY <1>2, <1>3
-----------------------------------------------------------------------------
(* The reference checks of one node.                                       *)
LEMMA NodeChecked ==
  ASSUME graph \in GraphInputs, NEW n \in 1..Count, ResolvedUpTo(n - 1)
  PROVE  BadReferences(n) <=> ~ Resolved(n)
<1> DEFINE outs == graph.nodes[n].outputs
<1>1. outs \in Seq(Nat) /\ DOMAIN outs = 1..Len(outs) /\ Len(outs) \in Nat
  BY GraphFacts
<1>2. NodeOutputs(n) = {outs[p] : p \in DOMAIN outs}
  BY DEF NodeOutputs, ToSet
<1>3. producers = UNION {NodeOutputs(m) : m \in 1..(n - 1)}
  BY DEF ResolvedUpTo
<1>4. ReadsUnproducedVirtual(n) <=>
        ~ \A t \in NodeInputs(n) \cap graph.virtual :
            \E m \in 1..(n - 1) : t \in NodeOutputs(m)
  BY <1>3 DEF ReadsUnproducedVirtual
<1>5. (\E p \in DOMAIN outs : outs[p] \in producers) <=>
        ~ \A m \in 1..(n - 1) : NodeOutputs(m) \cap NodeOutputs(n) = {}
  BY <1>2, <1>3
<1> HIDE DEF outs
<1>6. (\E p \in DOMAIN outs : \E q \in 1..(p - 1) : outs[q] = outs[p]) <=>
        ~ \A p, q \in DOMAIN outs : p # q => outs[p] # outs[q]
  <2>1. ASSUME NEW p \in DOMAIN outs, NEW q \in 1..(p - 1), outs[q] = outs[p]
        PROVE  q \in DOMAIN outs /\ q # p
    BY <1>1
  <2>2. ASSUME NEW p \in DOMAIN outs, NEW q \in DOMAIN outs, p # q
        PROVE  q \in 1..(p - 1) \/ p \in 1..(q - 1)
    BY <1>1, <2>2
  <2> QED
    BY <2>1, <2>2
<1>7. SecondProducer(n) <=>
        \/ \E p \in DOMAIN outs : outs[p] \in producers
        \/ \E p \in DOMAIN outs : \E q \in 1..(p - 1) : outs[q] = outs[p]
  BY DEF SecondProducer, outs
<1> QED
  BY <1>4, <1>5, <1>6, <1>7
     DEF BadReferences, UnresolvedReference, Resolved, outs

LEMMA CheckResolves ==
  ASSUME graph \in GraphInputs, cursor \in 1..(Count + 1),
         ResolvedUpTo(cursor - 1), CheckReferences
  PROVE  (cursor \in 1..(Count + 1) /\ ResolvedUpTo(cursor - 1))'
<1>1. /\ cursor \in 1..Count /\ Count \in Nat
      /\ ~ BadReferences(cursor)
      /\ producers' = producers \cup NodeOutputs(cursor)
      /\ cursor' = cursor + 1
      /\ graph' = graph
  BY GraphFacts DEF CheckReferences, Count
<1>2. Resolved(cursor)
  BY <1>1, NodeChecked
<1>3. cursor' - 1 = cursor /\ 1..cursor = 1..(cursor - 1) \cup {cursor}
  BY <1>1
<1>4. producers' = UNION {NodeOutputs(m) : m \in 1..cursor}
  BY <1>1, <1>3 DEF ResolvedUpTo
<1>5. \A m \in 1..cursor : Resolved(m)
  BY <1>2, <1>3 DEF ResolvedUpTo
<1>6. \A n : /\ NodeOutputs(n)' = NodeOutputs(n)
             /\ Resolved(n)' <=> Resolved(n)
  BY <1>1, SameGraph
<1>7. producers' = UNION {NodeOutputs(m)' : m \in 1..cursor}
  BY <1>4, <1>6
<1> QED
  BY <1>1, <1>3, <1>5, <1>6, <1>7, SameGraph DEF ResolvedUpTo

LEMMA ReferencesRejected ==
  ASSUME graph \in GraphInputs, cursor \in 1..(Count + 1),
         ResolvedUpTo(cursor - 1), RejectReferences
  PROVE  ~ WellFormed
<1>1. Count \in Nat
  BY GraphFacts
<1>2. CASE cursor <= Count /\ BadReferences(cursor)
  <2>1. cursor \in 1..Count
    BY <1>1, <1>2
  <2>2. ~ Resolved(cursor)
    BY <1>2, <2>1, NodeChecked
  <2> QED
    BY <2>1, <2>2, WellFormedParts DEF AllResolved
<1>3. CASE cursor > Count /\ ~ (graph.virtual \subseteq producers)
  <2>1. cursor - 1 = Count
    BY <1>1, <1>3
  <2> QED
    BY <1>3, <2>1, WellFormedParts DEF AllResolved, ResolvedUpTo
<1> QED
  BY <1>2, <1>3 DEF RejectReferences, Count
-----------------------------------------------------------------------------
(* What a record becomes when two of its fields are set.                   *)
LEMMA UsageRead ==
  ASSUME NEW B, NEW P, NEW L, NEW u \in [read: B, write: B, producer: P, last: L],
         NEW b \in B, NEW n \in L
  PROVE  LET v == [u EXCEPT !.read = b, !.last = n]
         IN /\ v \in [read: B, write: B, producer: P, last: L]
            /\ v.read = b /\ v.write = u.write
            /\ v.producer = u.producer /\ v.last = n
OBVIOUS

LEMMA UsageWritten ==
  ASSUME NEW B, NEW P, NEW L, NEW u \in [read: B, write: B, producer: P, last: L],
         NEW b \in B, NEW n \in P
  PROVE  LET v == [u EXCEPT !.write = b, !.producer = n]
         IN /\ v \in [read: B, write: B, producer: P, last: L]
            /\ v.read = u.read /\ v.write = b
            /\ v.producer = n /\ v.last = u.last
OBVIOUS

(* analyze_graph records the uses of one node.                             *)
LEMMA NodeAnalyzed ==
  ASSUME graph \in GraphInputs, AllResolved, cursor \in 1..(Count + 1),
         UsageUpTo(cursor - 1), AnalyzeNode
  PROVE  (cursor \in 1..(Count + 1) /\ UsageUpTo(cursor - 1))'
<1> DEFINE ins == NodeInputs(cursor)
           outs == NodeOutputs(cursor)
           k == cursor - 1
<1>1. /\ cursor \in 1..Count /\ Count \in Nat
      /\ cursor' = cursor + 1 /\ graph' = graph
  BY GraphFacts DEF AnalyzeNode, Count
<1>2. Plain(cursor)
  BY DEF AnalyzeNode, WritesPassByValue, InPlace, Plain
<1>3. /\ cursor \in Nat /\ k \in Nat /\ cursor = k + 1
      /\ 1..cursor = 1..k \cup {cursor} /\ cursor \notin 1..k
  BY <1>1
<1>4. \A t \in outs : \A m \in 1..k : t \notin NodeOutputs(m)
  BY <1>1, <1>3 DEF AllResolved, Resolved
<1>5. ins \cap outs = {}
  BY <1>2 DEF Plain
<1>6. /\ DOMAIN usage' = DOMAIN usage \cup ins \cup outs
      /\ \A t \in ins : usage'[t] = Consume(UsageOf(t), cursor)
      /\ \A t \in outs : usage'[t] = Produce(UsageOf(t), cursor)
      /\ \A t \in DOMAIN usage : t \notin ins /\ t \notin outs => usage'[t] = usage[t]
  BY <1>5 DEF AnalyzeNode
<1>7. /\ DOMAIN usage = UNION {NodeInputs(m) \cup NodeOutputs(m) : m \in 1..k}
      /\ \A m \in 1..k : Plain(m)
  BY DEF UsageUpTo
<1> HIDE DEF ins, outs, k
<1>8. DOMAIN usage' = UNION {NodeInputs(m) \cup NodeOutputs(m) : m \in 1..cursor}
  BY <1>3, <1>6, <1>7 DEF ins, outs
<1> DEFINE Good(u, t, j) ==
             /\ u \in [read: BOOLEAN, write: BOOLEAN, producer: 0..j, last: 0..j]
             /\ u.read <=> \E m \in 1..j : t \in NodeInputs(m)
             /\ u.write <=> \E m \in 1..j : t \in NodeOutputs(m)
             /\ \A m \in 1..j : t \in NodeOutputs(m) <=> m = u.producer
             /\ \A m \in 1..j : t \in NodeInputs(m) => m <= u.last
             /\ u.last # 0 => t \in NodeInputs(u.last)
<1>9. \A t : Good(UsageOf(t), t, k)
  <2> SUFFICES ASSUME NEW t PROVE Good(UsageOf(t), t, k)
    OBVIOUS
  <2>1. CASE t \in DOMAIN usage
    BY <2>1 DEF UsageOf, UsageUpTo, Recorded, k
  <2>2. CASE t \notin DOMAIN usage
    <3>1. \A m \in 1..k : t \notin NodeInputs(m) /\ t \notin NodeOutputs(m)
      BY <1>7, <2>2
    <3> QED
      BY <1>3, <2>2, <3>1 DEF UsageOf, NoUsage
  <2> QED
    BY <2>1, <2>2
<1>10. ASSUME NEW t \in DOMAIN usage' PROVE Good(usage'[t], t, cursor)
  <2> DEFINE u == UsageOf(t)
  <2>1. Good(u, t, k)
    BY <1>9
  <2>2. u \in [read: BOOLEAN, write: BOOLEAN, producer: 0..k, last: 0..k]
    BY <2>1
  <2> HIDE DEF u
  <2>3. /\ 0..k \subseteq 0..cursor /\ cursor \in 0..cursor
        /\ u.last \in 0..k /\ u.producer \in 0..k
        /\ u.read \in BOOLEAN /\ u.write \in BOOLEAN
    BY <1>3, <2>2
  <2>4. u = [read |-> u.read, write |-> u.write, producer |-> u.producer, last |-> u.last]
    BY <2>2
  <2>5. CASE t \in ins
    <3> DEFINE v == [u EXCEPT !.read = TRUE, !.last = cursor]
    <3>1. usage'[t] = v
      <4>1. Larger(u.last, cursor) = cursor
        BY <1>3, <2>3 DEF Larger
      <4> QED
        BY <1>6, <2>5, <4>1 DEF Consume, u
    <3>2. t \notin outs
      BY <1>5, <2>5
    <3>3. /\ usage'[t] \in [read: BOOLEAN, write: BOOLEAN, producer: 0..k, last: 0..cursor]
          /\ usage'[t].read = TRUE /\ usage'[t].write = u.write
          /\ usage'[t].producer = u.producer /\ usage'[t].last = cursor
      <4>1. u \in [read: BOOLEAN, write: BOOLEAN, producer: 0..k, last: 0..cursor]
        BY <2>3, <2>4
      <4>2. /\ v \in [read: BOOLEAN, write: BOOLEAN, producer: 0..k, last: 0..cursor]
            /\ v.read = TRUE /\ v.write = u.write
            /\ v.producer = u.producer /\ v.last = cursor
        BY <2>3, <4>1, UsageRead, Zenon
      <4> QED
        BY <3>1, <4>2, Zenon
    <3> QED
      BY <1>3, <2>1, <2>5, <3>2, <3>3 DEF ins, outs
  <2>6. CASE t \in outs
    <3> DEFINE v == [u EXCEPT !.write = TRUE, !.producer = cursor]
    <3>1. usage'[t] = v
      BY <1>6, <2>6 DEF Produce, u
    <3>2. t \notin ins /\ \A m \in 1..k : t \notin NodeOutputs(m)
      BY <1>4, <1>5, <2>6
    <3>3. /\ usage'[t] \in [read: BOOLEAN, write: BOOLEAN, producer: 0..cursor, last: 0..k]
          /\ usage'[t].read = u.read /\ usage'[t].write = TRUE
          /\ usage'[t].producer = cursor /\ usage'[t].last = u.last
      <4>1. u \in [read: BOOLEAN, write: BOOLEAN, producer: 0..cursor, last: 0..k]
        BY <2>3, <2>4
      <4>2. /\ v \in [read: BOOLEAN, write: BOOLEAN, producer: 0..cursor, last: 0..k]
            /\ v.read = u.read /\ v.write = TRUE
            /\ v.producer = cursor /\ v.last = u.last
        BY <2>3, <4>1, UsageWritten, Zenon
      <4> QED
        BY <3>1, <4>2, Zenon
    <3> QED
      BY <1>3, <2>1, <2>6, <3>2, <3>3 DEF ins, outs
  <2>7. CASE t \notin ins /\ t \notin outs
    <3>1. usage'[t] = u
      BY <1>6, <2>7 DEF u, UsageOf
    <3> QED
      BY <1>3, <2>1, <2>7, <3>1 DEF ins, outs
  <2> QED
    BY <2>5, <2>6, <2>7
<1>11. \A m \in 1..cursor : Plain(m)
  BY <1>2, <1>3, <1>7
<1>12. cursor' - 1 = cursor /\ cursor' \in 1..(Count + 1)
  BY <1>1
<1> HIDE DEF Good
<1>13. UsageUpTo(cursor - 1)'
  <2>1. \A n : /\ NodeInputs(n)' = NodeInputs(n)
               /\ NodeOutputs(n)' = NodeOutputs(n)
               /\ Plain(n)' <=> Plain(n)
    BY <1>1, SameGraph
  <2>2. PICK j : j = cursor
    OBVIOUS
  <2>3. \A t \in DOMAIN usage' : Good(usage'[t], t, j)
    BY <1>10, <2>2
  <2>4. DOMAIN usage' = UNION {NodeInputs(m)' \cup NodeOutputs(m)' : m \in 1..j}
    BY <1>8, <2>1, <2>2
  <2>5. \A m \in 1..j : Plain(m)'
    BY <1>11, <2>1, <2>2
  <2>6. UsageUpTo(j)'
    BY <2>1, <2>3, <2>4, <2>5, Zenon DEF UsageUpTo, Recorded, Good
  <2> QED
    BY <1>12, <2>2, <2>6
<1> QED
  BY <1>1, <1>12, <1>13, SameGraph

LEMMA AnalysisRejected ==
  ASSUME graph \in GraphInputs, AllResolved, cursor \in 1..(Count + 1),
         UsageUpTo(cursor - 1), AnalysisFails
  PROVE  ~ WellFormed
<1>1. Count \in Nat
  BY GraphFacts
<1>2. CASE cursor <= Count /\ (WritesPassByValue(cursor) \/ InPlace(cursor))
  <2>1. cursor \in 1..Count /\ ~ Plain(cursor)
    BY <1>1, <1>2 DEF WritesPassByValue, InPlace, Plain
  <2> QED
    BY <2>1, WellFormedParts
<1>3. CASE cursor > Count /\ \E t \in graph.virtual : UsageOf(t).producer = 0
  <2>1. cursor - 1 = Count
    BY <1>1, <1>3
  <2>2. PICK t \in graph.virtual : UsageOf(t).producer = 0
    BY <1>3
  <2>3. PICK m \in 1..Count : t \in NodeOutputs(m)
    BY DEF AllResolved
  <2>4. t \in DOMAIN usage /\ usage[t].producer = m
    BY <2>1, <2>3 DEF UsageUpTo, Recorded
  <2> QED
    BY <2>2, <2>4 DEF UsageOf
<1> QED
  BY <1>2, <1>3 DEF AnalysisFails, Count
-----------------------------------------------------------------------------
(* The call of the planner.                                                *)
PlannerIdle == requests = <<>> /\ Planner!PlannerInit

Requested ==
  /\ requests \in Seq(Planning!Request)
  /\ \A t \in graph.virtual : \E i \in DOMAIN requests : requests[i] = RequestFor(t)

LEMMA CallStarts ==
  ASSUME PlannerIdle, requests' \in Seq(Planning!Request),
         UNCHANGED <<pc, checked, remaining, current, candidate, allocations,
                     plan, status>>
  PROVE  Planning!CanonicalInv'
<1>1. /\ requests' \in Seq(Planning!Request)
      /\ pc' = "validate" /\ checked' = 0 /\ remaining' = {}
      /\ current' = 0 /\ candidate' = 0 /\ allocations' = <<>>
      /\ plan' = [size |-> 0, allocations |-> <<>>]
      /\ status' = "none"
  BY DEF PlannerIdle, Planner!PlannerInit, Planner!EmptyPlan
<1>2. Planning!TypeOK'
  BY <1>1 DEF Planning!TypeOK
<1>3. (Planning!ValidatedPrefix /\ Planning!PhaseInv /\ Planning!TakenPlaced)'
  BY <1>1 DEF Planning!ValidatedPrefix, Planning!PhaseInv,
              Planning!TakenPlaced
<1>4. (Planning!PlacedInv /\ Planning!DistinctNames /\ Planning!NoLiveOverlap)'
  BY <1>1 DEF Planning!PlacedInv, Planning!DistinctNames,
              Planning!NoLiveOverlap
<1>5. (Planning!NoLowerFit /\ Planning!OutputInv /\ Planning!OverflowInv)'
  BY <1>1 DEF Planning!NoLowerFit, Planning!OutputInv, Planning!OverflowInv,
              Planning!EmptyPlan
<1>6. (Planning!InOrder /\ Planning!PlacedLowest(allocations))'
  BY <1>1 DEF Planning!InOrder, Planning!PlacedLowest
<1> QED
  BY <1>1, <1>2, <1>3, <1>4, <1>5, <1>6
     DEF Planning!IInv, Planning!CanonicalInv

(* A virtual tensor has one producer, so its request is well defined.      *)
LEMMA VirtualUsage ==
  ASSUME graph \in GraphInputs, AllResolved, UsageUpTo(Count),
         NEW t \in graph.virtual
  PROVE  /\ t \in DOMAIN usage
         /\ usage[t].producer \in 1..Count /\ t \in NodeOutputs(usage[t].producer)
         /\ usage[t].last \in 0..Count
         /\ LiveEnd(usage[t]) \in Nat
         /\ usage[t].producer <= LiveEnd(usage[t])
         /\ usage[t].last <= LiveEnd(usage[t])
         /\ RequestFor(t) \in Planning!Request
<1>1. Count \in Nat /\ t \in graph.tensors /\ t \in Nat
      /\ graph.bytes[t] \in Nat /\ graph.alignment[t] \in Nat
  BY GraphFacts
<1>2. PICK m \in 1..Count : t \in NodeOutputs(m)
  BY DEF AllResolved
<1>3. t \in DOMAIN usage /\ usage[t].producer = m /\ usage[t].last \in 0..Count
  BY <1>2 DEF UsageUpTo, Recorded
<1>4. /\ LiveEnd(usage[t]) \in Nat
      /\ usage[t].producer <= LiveEnd(usage[t])
      /\ usage[t].last <= LiveEnd(usage[t])
  BY <1>1, <1>2, <1>3 DEF LiveEnd, Larger
<1>5. RequestFor(t) \in Planning!Request
  BY <1>1, <1>2, <1>3, <1>4 DEF RequestFor, Planning!Request
<1> QED
  BY <1>2, <1>3, <1>4, <1>5

LEMMA CollectRequested ==
  ASSUME graph \in GraphInputs, AllResolved, UsageUpTo(Count), CollectRequests
  PROVE  Requested'
<1>1. PICK order \in UidOrders :
        requests' = [i \in DOMAIN order |-> RequestFor(order[i])]
  BY DEF CollectRequests
<1>2. graph' = graph /\ usage' = usage
  BY DEF CollectRequests
<1> DEFINE n == Cardinality(graph.virtual)
<1>3. n \in Nat
  BY GraphFacts, FS_CardinalityType
<1>4. /\ order \in [1..n -> graph.virtual]
      /\ \A t \in graph.virtual : \E i \in 1..n : order[i] = t
  BY <1>1 DEF UidOrders, Bijection, Injection, Surjection
<1> HIDE DEF n
<1>5. \A i \in 1..n : RequestFor(order[i]) \in Planning!Request
  BY <1>4, VirtualUsage
<1>6. DOMAIN order = 1..n
  BY <1>4
<1>7. requests' \in Seq(Planning!Request)
  BY <1>1, <1>3, <1>5, <1>6
<1>8. \A t : RequestFor(t)' = RequestFor(t)
  BY <1>2 DEF RequestFor, LiveEnd
<1>9. \A t \in graph.virtual : \E i \in DOMAIN requests' : requests'[i] = RequestFor(t)
  BY <1>1, <1>4, <1>6
<1> QED
  BY <1>2, <1>7, <1>8, <1>9 DEF Requested
-----------------------------------------------------------------------------
(* The views the kernels are built with: inside the workspace, and those   *)
(* of two tensors that are alive at one node are apart.                    *)
AliveTogether(t, u) ==
  /\ usage[t].producer <= LiveEnd(usage[u])
  /\ usage[u].producer <= LiveEnd(usage[t])

ViewsInv ==
  /\ plan.size \in Nat
  /\ \A t \in graph.virtual :
       views[t] \in Nat /\ views[t] + graph.bytes[t] <= plan.size
  /\ \A t, u \in graph.virtual :
       t # u /\ AliveTogether(t, u) =>
         \/ views[t] + graph.bytes[t] <= views[u]
         \/ views[u] + graph.bytes[u] <= views[t]

LEMMA BoundViews ==
  ASSUME graph \in GraphInputs, AllResolved, UsageUpTo(Count), Requested,
         Planning!CanonicalInv, BindViews
  PROVE  ViewsInv'
<1> DEFINE At(t) == CHOOSE k \in DOMAIN plan.allocations :
                      plan.allocations[k].name = t
           a(t) == allocations[At(t)]
<1>1. /\ pc = "done"
      /\ \A t \in graph.virtual :
           \E k \in DOMAIN plan.allocations : plan.allocations[k].name = t
      /\ views' = [t \in graph.virtual |-> plan.allocations[At(t)].offset]
      /\ UNCHANGED <<graph, usage, plan>>
  BY DEF BindViews, plannerVars
<1>2. /\ plan.allocations = allocations /\ plan.size \in Nat
      /\ current = 0 /\ remaining = {}
      /\ DOMAIN requests = 1..Len(requests)
      /\ allocations \in Seq(Planning!Allocation)
  BY <1>1 DEF Planning!CanonicalInv, Planning!IInv, Planning!TypeOK,
              Planning!OutputInv, Planning!PhaseInv
<1>3. ASSUME NEW t \in graph.virtual
      PROVE  /\ At(t) \in DOMAIN allocations /\ a(t) \in Planning!Allocation
             /\ a(t).name = t
             /\ a(t).size = graph.bytes[t]
             /\ a(t).start = usage[t].producer
             /\ a(t).end = LiveEnd(usage[t])
             /\ views'[t] = a(t).offset
  <2>1. At(t) \in DOMAIN allocations /\ a(t).name = t
    BY <1>1, <1>2
  <2>2. PICK i \in DOMAIN requests : requests[i] = RequestFor(t)
    BY DEF Requested
  <2>3. i \in DOMAIN requests \ (remaining \cup {current})
    BY <1>2
  <2>4. PICK k \in DOMAIN allocations : Planning!Places(allocations[k], requests[i])
    BY <1>1, <2>3 DEF Planning!CanonicalInv, Planning!IInv, Planning!TakenPlaced
  <2>5. /\ allocations[k].name = t
        /\ allocations[k].size = graph.bytes[t]
        /\ allocations[k].start = usage[t].producer
        /\ allocations[k].end = LiveEnd(usage[t])
    BY <2>2, <2>4 DEF Planning!Places, RequestFor
  <2>6. k = At(t)
    BY <2>1, <2>5 DEF Planning!CanonicalInv, Planning!IInv, Planning!DistinctNames
  <2>7. a(t) \in Planning!Allocation
    BY <1>2, <2>1
  <2> QED
    BY <1>1, <1>2, <2>1, <2>5, <2>6, <2>7
<1> HIDE DEF At
<1>4. ASSUME NEW t \in graph.virtual
      PROVE  views'[t] \in Nat /\ views'[t] + graph.bytes[t] <= plan.size
  <2>1. Planning!AllocationEnd(a(t)) <= plan.size
    BY <1>1, <1>2, <1>3
       DEF Planning!CanonicalInv, Planning!IInv, Planning!OutputInv,
           Planning!PlanInBounds
  <2>2. a(t).offset \in Nat
    BY <1>3 DEF Planning!Allocation
  <2> QED
    BY <1>3, <2>1, <2>2 DEF Planning!AllocationEnd
<1>5. ASSUME NEW t \in graph.virtual, NEW u \in graph.virtual, t # u,
             AliveTogether(t, u)
      PROVE  \/ views'[t] + graph.bytes[t] <= views'[u]
             \/ views'[u] + graph.bytes[u] <= views'[t]
  <2>1. At(t) # At(u)
    BY <1>3, <1>5
  <2>2. Planning!LifetimesOverlap(a(t), a(u))
    <3>1. /\ a(t).start \in Nat /\ a(t).end \in Nat
          /\ a(u).start \in Nat /\ a(u).end \in Nat
      BY <1>3 DEF Planning!Allocation
    <3> QED
      BY <1>3, <1>5, <3>1 DEF AliveTogether, Planning!LifetimesOverlap
  <2>3. ~ Planning!RangesOverlap(
            a(t).offset, Planning!AllocationEnd(a(t)),
            a(u).offset, Planning!AllocationEnd(a(u)))
    BY <1>3, <2>1, <2>2
       DEF Planning!CanonicalInv, Planning!IInv, Planning!NoLiveOverlap
  <2>4. /\ a(t).offset \in Nat /\ a(t).size \in Nat
        /\ a(u).offset \in Nat /\ a(u).size \in Nat
    BY <1>3 DEF Planning!Allocation
  <2> QED
    BY <1>3, <2>3, <2>4 DEF Planning!RangesOverlap, Planning!AllocationEnd
<1>6. \A t, u : AliveTogether(t, u)' <=> AliveTogether(t, u)
  BY <1>1 DEF AliveTogether, LiveEnd
<1> QED
  BY <1>1, <1>2, <1>4, <1>5, <1>6 DEF ViewsInv
-----------------------------------------------------------------------------
CompileInv ==
  /\ graph \in GraphInputs
  /\ stage \in {"references", "analyze", "plan", "compiled", "rejected"}
  /\ stage \in {"references", "analyze"} => PlannerIdle /\ cursor \in 1..(Count + 1)
  /\ stage = "references" => ResolvedUpTo(cursor - 1) /\ usage = <<>>
  /\ stage \in {"analyze", "plan", "compiled"} => AllResolved
  /\ stage = "analyze" => UsageUpTo(cursor - 1)
  /\ stage \in {"plan", "compiled"} =>
       /\ UsageUpTo(Count)
       /\ arguments = [t \in ArgumentUids |-> Access(usage[t])]
  /\ stage = "plan" => Requested /\ Planning!CanonicalInv
  /\ stage = "compiled" => ViewsInv
  /\ stage = "rejected" => ~ WellFormed \/ pc = "failed"

LEMMA CompileStarts == CompileInit => CompileInv
<1> SUFFICES ASSUME CompileInit PROVE CompileInv
  OBVIOUS
<1>1. /\ graph \in GraphInputs /\ stage = "references" /\ cursor = 1
      /\ producers = {} /\ usage = <<>> /\ PlannerIdle
  BY DEF CompileInit, PlannerIdle
<1>2. Count \in Nat
  BY <1>1, GraphFacts
<1>3. ResolvedUpTo(cursor - 1)
  BY <1>1 DEF ResolvedUpTo
<1> QED
  BY <1>1, <1>2, <1>3 DEF CompileInv

(* What steps that leave the graph and its usage alone keep.               *)
LEMMA SameUsage ==
  ASSUME UNCHANGED <<graph, usage>>
  PROVE  /\ \A k : UsageUpTo(k)' <=> UsageUpTo(k)
         /\ ArgumentUids' = ArgumentUids
         /\ \A t : RequestFor(t)' = RequestFor(t)
<1>1. \A n : /\ NodeInputs(n)' = NodeInputs(n)
             /\ NodeOutputs(n)' = NodeOutputs(n)
             /\ Plain(n)' <=> Plain(n)
  BY SameGraph
<1>2. ASSUME NEW k PROVE UsageUpTo(k)' <=> UsageUpTo(k)
  <2>1. ASSUME NEW t PROVE Recorded(t, k)' <=> Recorded(t, k)
    <3>1. \A m : /\ t \in NodeInputs(m)' <=> t \in NodeInputs(m)
                 /\ t \in NodeOutputs(m)' <=> t \in NodeOutputs(m)
      BY <1>1
    <3>2. usage'[t] = usage[t]
      OBVIOUS
    <3>3. t \in NodeInputs(usage[t].last)' <=> t \in NodeInputs(usage[t].last)
      BY <3>1, <3>2 DEF NodeInputs
    <3> QED
      BY <3>1, <3>2, <3>3 DEF Recorded
  <2>2. UNION {NodeInputs(m)' \cup NodeOutputs(m)' : m \in 1..k}
          = UNION {NodeInputs(m) \cup NodeOutputs(m) : m \in 1..k}
    BY <1>1
  <2> QED
    BY <1>1, <2>1, <2>2 DEF UsageUpTo
<1>3. ArgumentUids' = ArgumentUids
  BY DEF ArgumentUids
<1>4. \A t : RequestFor(t)' = RequestFor(t)
  BY DEF RequestFor, LiveEnd
<1> QED
  BY <1>2, <1>3, <1>4

LEMMA CheckKeeps == CompileInv /\ CheckReferences => CompileInv'
<1> SUFFICES ASSUME CompileInv, CheckReferences PROVE CompileInv'
  OBVIOUS
<1>1. /\ stage = "references" /\ stage' = "references"
      /\ UNCHANGED <<graph, usage, plannerVars>>
  BY DEF CheckReferences
<1>2. (cursor \in 1..(Count + 1) /\ ResolvedUpTo(cursor - 1))'
  BY <1>1, CheckResolves DEF CompileInv
<1>3. PlannerIdle'
  BY <1>1 DEF CompileInv, PlannerIdle, Planner!PlannerInit, plannerVars,
              Planner!EmptyPlan
<1> QED
  BY <1>1, <1>2, <1>3 DEF CompileInv

(* A refusal keeps the reason it was made for.                             *)
LEMMA RejectKeeps ==
  ASSUME CompileInv, Reject, ~ WellFormed \/ pc = "failed"
  PROVE  CompileInv'
<1>1. stage' = "rejected" /\ graph' = graph /\ pc' = pc
  BY DEF Reject, plannerVars
<1>2. WellFormed' <=> WellFormed
  BY <1>1, SameGraph
<1> QED
  BY <1>1, <1>2 DEF CompileInv

LEMMA AcceptKeeps == CompileInv /\ AcceptReferences => CompileInv'
<1> SUFFICES ASSUME CompileInv, AcceptReferences PROVE CompileInv'
  OBVIOUS
<1>1. /\ stage = "references" /\ cursor' = 1
      /\ cursor > Count /\ graph.virtual \subseteq producers
      /\ stage' = IF graph.nodes = <<>> THEN "rejected" ELSE "analyze"
      /\ UNCHANGED <<graph, producers, usage, plannerVars>>
  BY DEF AcceptReferences, Count
<1>2. /\ graph \in GraphInputs /\ cursor \in 1..(Count + 1)
      /\ ResolvedUpTo(cursor - 1) /\ usage = <<>> /\ PlannerIdle
  BY <1>1 DEF CompileInv
<1>3. /\ Count \in Nat /\ cursor - 1 = Count
      /\ graph.nodes = <<>> <=> Count = 0
  BY <1>1, <1>2, GraphFacts
<1>4. CASE graph.nodes = <<>>
  <2>1. ~ WellFormed
    BY <1>2, <1>3, <1>4, WellFormedParts DEF AllResolved
  <2> QED
    BY <1>1, <1>2, <1>4, <2>1, SameGraph DEF CompileInv
<1>5. CASE graph.nodes # <<>>
  <2>1. AllResolved
    BY <1>1, <1>2, <1>3, <1>5 DEF AllResolved, ResolvedUpTo
  <2>2. UsageUpTo(cursor - 1)'
    BY <1>1, <1>2 DEF UsageUpTo, Recorded
  <2>3. PlannerIdle'
    BY <1>1, <1>2 DEF PlannerIdle, Planner!PlannerInit, plannerVars,
                      Planner!EmptyPlan
  <2>4. AllResolved' /\ (cursor \in 1..(Count + 1))'
    BY <1>1, <1>3, <2>1, SameGraph
  <2> QED
    BY <1>1, <1>2, <1>5, <2>2, <2>3, <2>4 DEF CompileInv
<1> QED
  BY <1>4, <1>5

LEMMA AnalyzeKeeps == CompileInv /\ AnalyzeNode => CompileInv'
<1> SUFFICES ASSUME CompileInv, AnalyzeNode PROVE CompileInv'
  OBVIOUS
<1>1. /\ stage = "analyze" /\ stage' = "analyze"
      /\ UNCHANGED <<graph, plannerVars>>
  BY DEF AnalyzeNode
<1>2. (cursor \in 1..(Count + 1) /\ UsageUpTo(cursor - 1))'
  BY <1>1, NodeAnalyzed DEF CompileInv
<1>3. PlannerIdle'
  BY <1>1 DEF CompileInv, PlannerIdle, Planner!PlannerInit, plannerVars,
              Planner!EmptyPlan
<1>4. AllResolved'
  BY <1>1, SameGraph DEF CompileInv
<1> QED
  BY <1>1, <1>2, <1>3, <1>4 DEF CompileInv

LEMMA CollectKeeps == CompileInv /\ CollectRequests => CompileInv'
<1> SUFFICES ASSUME CompileInv, CollectRequests PROVE CompileInv'
  OBVIOUS
<1>1. /\ stage = "analyze" /\ stage' = "plan" /\ cursor > Count
      /\ arguments' = [t \in ArgumentUids |-> Access(usage[t])]
      /\ UNCHANGED <<graph, usage, pc, checked, remaining, current, candidate,
                     allocations, plan, status>>
  BY DEF CollectRequests, Count
<1>2. /\ graph \in GraphInputs /\ cursor \in 1..(Count + 1)
      /\ UsageUpTo(cursor - 1) /\ AllResolved /\ PlannerIdle
  BY <1>1 DEF CompileInv
<1>3. cursor - 1 = Count
  BY <1>1, <1>2, GraphFacts
<1>4. UsageUpTo(Count)
  BY <1>2, <1>3
<1>5. Requested'
  BY <1>2, <1>4, CollectRequested
<1>6. Planning!CanonicalInv'
  BY <1>1, <1>2, <1>5, CallStarts DEF Requested
<1>7. UsageUpTo(Count)' /\ AllResolved' /\ ArgumentUids' = ArgumentUids
  BY <1>1, <1>2, <1>4, SameUsage, SameGraph
<1> QED
  BY <1>1, <1>2, <1>5, <1>6, <1>7 DEF CompileInv

LEMMA PlanKeeps ==
  ASSUME CompileInv, stage = "plan", UNCHANGED analysisVars,
         [Planner!Next]_plannerVars
  PROVE  CompileInv'
<1>1. UNCHANGED <<graph, stage, usage, arguments>>
  BY DEF analysisVars
<1>2. [Planning!Next]_Planning!vars
  BY SamePlanner
<1>3. requests' = requests
  BY <1>2 DEF Planning!Next, Planning!vars, Planning!ValidateRequest,
              Planning!RejectRequest, Planning!SortRequests,
              Planning!TakeRequest, Planning!PlaceRequest,
              Planning!BumpCandidate, Planning!OverflowCandidate,
              Planning!FinishPlan, Planning!OverflowPlan, Planning!Fail
<1>4. Planning!CanonicalInv'
  BY <1>2, Planning!StepKeepsCanonical, WidthAssumption DEF CompileInv
<1>5. Requested'
  BY <1>1, <1>3, SameUsage DEF CompileInv, Requested
<1>6. UsageUpTo(Count)' /\ AllResolved' /\ ArgumentUids' = ArgumentUids
  BY <1>1, SameUsage, SameGraph DEF CompileInv
<1> QED
  BY <1>1, <1>4, <1>5, <1>6 DEF CompileInv

LEMMA BindKeeps == CompileInv /\ BindViews => CompileInv'
<1> SUFFICES ASSUME CompileInv, BindViews PROVE CompileInv'
  OBVIOUS
<1>1. /\ stage = "plan" /\ stage' = "compiled"
      /\ UNCHANGED <<graph, usage, arguments>>
  BY DEF BindViews
<1>2. ViewsInv'
  BY <1>1, BoundViews DEF CompileInv
<1>3. UsageUpTo(Count)' /\ AllResolved' /\ ArgumentUids' = ArgumentUids
  BY <1>1, SameUsage, SameGraph DEF CompileInv
<1> QED
  BY <1>1, <1>2, <1>3 DEF CompileInv

LEMMA StutterKeeps == CompileInv /\ UNCHANGED compileVars => CompileInv'
<1> SUFFICES ASSUME CompileInv, UNCHANGED compileVars PROVE CompileInv'
  OBVIOUS
<1>1. /\ UNCHANGED <<graph, stage, cursor, producers, usage, arguments, views>>
      /\ UNCHANGED analysisVars /\ UNCHANGED plannerVars
      /\ pc' = pc /\ plan' = plan
  BY DEF compileVars, analysisVars, plannerVars
<1>2. CASE stage = "plan"
  BY <1>1, <1>2, PlanKeeps
<1>3. CASE stage \in {"references", "analyze"}
  <2>1. PlannerIdle'
    BY <1>1, <1>3 DEF CompileInv, PlannerIdle, Planner!PlannerInit, plannerVars,
                      Planner!EmptyPlan
  <2>2. Count' = Count /\ (AllResolved' <=> AllResolved)
    BY <1>1, SameGraph
  <2>3. stage = "references" => ResolvedUpTo(cursor - 1)'
    BY <1>1, SameGraph DEF CompileInv, ResolvedUpTo
  <2>4. stage = "analyze" => UsageUpTo(cursor - 1)'
    BY <1>1, SameUsage DEF CompileInv
  <2> QED
    BY <1>1, <1>3, <2>1, <2>2, <2>3, <2>4 DEF CompileInv
<1>4. CASE stage = "compiled"
  <2>1. UsageUpTo(Count)' /\ AllResolved' /\ ArgumentUids' = ArgumentUids
    BY <1>1, <1>4, SameUsage, SameGraph DEF CompileInv
  <2>2. ViewsInv'
    BY <1>1, <1>4 DEF CompileInv, ViewsInv, AliveTogether, LiveEnd
  <2> QED
    BY <1>1, <1>4, <2>1, <2>2 DEF CompileInv
<1>5. CASE stage = "rejected"
  BY <1>1, <1>5, SameGraph DEF CompileInv
<1> QED
  BY <1>2, <1>3, <1>4, <1>5 DEF CompileInv

LEMMA CompileStepKeeps == CompileInv /\ [CompileNext]_compileVars => CompileInv'
<1> SUFFICES ASSUME CompileInv, [CompileNext]_compileVars PROVE CompileInv'
  OBVIOUS
<1>1. CASE CheckReferences
  BY <1>1, CheckKeeps
<1>2. CASE RejectReferences
  BY <1>2, ReferencesRejected, RejectKeeps DEF RejectReferences, CompileInv
<1>3. CASE AcceptReferences
  BY <1>3, AcceptKeeps
<1>4. CASE AnalyzeNode
  BY <1>4, AnalyzeKeeps
<1>5. CASE CollectRequests
  BY <1>5, CollectKeeps
<1>6. CASE RejectAnalysis
  BY <1>6, AnalysisRejected, RejectKeeps DEF RejectAnalysis, CompileInv
<1>7. CASE PlanWorkspace
  BY <1>7, PlanKeeps DEF PlanWorkspace
<1>8. CASE RejectPlan
  BY <1>8, RejectKeeps DEF RejectPlan
<1>9. CASE BindViews
  BY <1>9, BindKeeps
<1>10. CASE UNCHANGED compileVars
  BY <1>10, StutterKeeps
<1> QED
  BY <1>1, <1>2, <1>3, <1>4, <1>5, <1>6, <1>7, <1>8, <1>9, <1>10
     DEF CompileNext
-----------------------------------------------------------------------------
(* The compilation alone, and within a run of the compiled graph.          *)
LEMMA CompileInvariance == CompileSpec => []CompileInv
BY CompileStarts, CompileStepKeeps, PTL DEF CompileSpec

LEMMA RunCompiles == [ExecutionNext]_allVars => [CompileNext]_compileVars
BY DEF ExecutionNext, Compile, RunElement, NextNode, allVars

LEMMA ExecutionCompiles == ExecutionSpec => []CompileInv
<1>1. ExecutionInit => CompileInv
  BY CompileStarts DEF ExecutionInit
<1> QED
  BY <1>1, CompileStepKeeps, RunCompiles, PTL DEF ExecutionSpec

LEMMA UseCovered == CompileInv => AccessCoversUse
<1> SUFFICES ASSUME CompileInv, stage = "compiled", NEW n \in DOMAIN graph.nodes
             PROVE  /\ \A t \in NodeInputs(n) \ (graph.virtual \cup graph.embedded) :
                         arguments[t] \in {"read", "readWrite"}
                    /\ \A t \in NodeOutputs(n) \ graph.virtual :
                         arguments[t] \in {"write", "readWrite"}
  BY DEF AccessCoversUse
<1>1. /\ graph \in GraphInputs /\ UsageUpTo(Count)
      /\ arguments = [t \in ArgumentUids |-> Access(usage[t])]
  BY DEF CompileInv
<1>2. n \in 1..Count /\ graph.embedded \subseteq graph.byValue
  BY <1>1, GraphFacts
<1>3. ASSUME NEW t \in NodeInputs(n) \ (graph.virtual \cup graph.embedded)
      PROVE  arguments[t] \in {"read", "readWrite"}
  <2>1. t \in DOMAIN usage /\ usage[t].read
    BY <1>1, <1>2 DEF UsageUpTo, Recorded
  <2> QED
    BY <1>1, <2>1 DEF ArgumentUids, Access
<1>4. ASSUME NEW t \in NodeOutputs(n) \ graph.virtual
      PROVE  arguments[t] \in {"write", "readWrite"}
  <2>1. t \in DOMAIN usage /\ usage[t].write /\ Plain(n)
    BY <1>1, <1>2 DEF UsageUpTo, Recorded
  <2>2. t \notin graph.embedded
    BY <1>2, <2>1 DEF Plain
  <2> QED
    BY <1>1, <2>1, <2>2 DEF ArgumentUids, Access
<1> QED
  BY <1>3, <1>4

LEMMA RefusedForReason == CompileInv => RejectedOnlyIfIllFormed
<1> SUFFICES ASSUME CompileInv PROVE RejectedOnlyIfIllFormed
  OBVIOUS
<1>1. stage = "compiled" => WellFormed
  BY WellFormedParts DEF CompileInv, UsageUpTo
<1> QED
  BY <1>1 DEF CompileInv, RejectedOnlyIfIllFormed

(* Whatever the graph, the access recorded for an argument covers what     *)
(* every node does with it.                                                *)
THEOREM AccessCovers ==
  (CompileSpec => []AccessCoversUse) /\ (ExecutionSpec => []AccessCoversUse)
BY CompileInvariance, ExecutionCompiles, UseCovered, PTL

(* A graph is refused only when it is ill formed or its workspace does not *)
(* fit, and no ill-formed graph is compiled.                               *)
THEOREM RejectionHasReason ==
  /\ CompileSpec => []RejectedOnlyIfIllFormed
  /\ ExecutionSpec => []RejectedOnlyIfIllFormed
BY CompileInvariance, ExecutionCompiles, RefusedForReason, PTL
-----------------------------------------------------------------------------
(* A run of the compiled graph.                                            *)
Bytes(t) == 0..(graph.bytes[t] - 1)

LEMMA SameTerms ==
  /\ \A n : D!Inputs(n) = NodeInputs(n) /\ Abstract!Inputs(n) = NodeInputs(n)
  /\ \A n : D!Outputs(n) = NodeOutputs(n) /\ Abstract!Outputs(n) = NodeOutputs(n)
  /\ \A t : D!Elements(t) = Bytes(t) /\ Abstract!Elements(t) = Bytes(t)
  /\ \A n : Abstract!ToWrite(n) = D!ToWrite(n)
BY DEF D!Inputs, D!Outputs, D!Elements, D!ToWrite, Abstract!Inputs, Abstract!Outputs,
       Abstract!Elements, Abstract!ToWrite, NodeInputs, NodeOutputs, Bytes,
       ToSet, D!ToSet, Abstract!ToSet

RunInv ==
  /\ node \in 1..(Count + 1)
  /\ stage # "compiled" => node = 1 /\ written = {}
  /\ DOMAIN external = graph.tensors \ graph.virtual
  /\ \A t \in DOMAIN external : DOMAIN external[t] = Bytes(t)
  /\ stage = "compiled" => DOMAIN workspace = 0..(plan.size - 1)

LEMMA RunStarts == ExecutionInit => CompileInv /\ RunInv
<1> SUFFICES ASSUME ExecutionInit PROVE CompileInv /\ RunInv
  OBVIOUS
<1>1. CompileInv /\ stage = "references"
  BY CompileStarts DEF ExecutionInit, CompileInit
<1>2. Count \in Nat
  BY <1>1, GraphFacts DEF CompileInv
<1>3. \A t : DOMAIN D!Initial(t) = Bytes(t)
  BY SameTerms DEF D!Initial
<1> QED
  BY <1>1, <1>2, <1>3 DEF ExecutionInit, RunInv

(* The element a node writes, an address of the workspace if it is one of  *)
(* a virtual tensor.                                                       *)
LEMMA WrittenElement ==
  ASSUME NEW n, NEW e \in D!ToWrite(n)
  PROVE  /\ e = <<e[1], e[2]>> /\ e[1] \in NodeOutputs(n)
         /\ e[2] \in Bytes(e[1])
BY SameTerms DEF D!ToWrite

LEMMA CompilingSteps ==
  ASSUME CompileNext
  PROVE  /\ stage # "compiled" /\ graph' = graph
         /\ stage' = "compiled" => BindViews
BY DEF CompileNext, CheckReferences, RejectReferences, AcceptReferences,
       AnalyzeNode, CollectRequests, RejectAnalysis, PlanWorkspace, RejectPlan,
       BindViews, Reject, analysisVars

LEMMA RunStepKeeps ==
  ASSUME CompileInv, RunInv, [ExecutionNext]_allVars
  PROVE  RunInv'
<1>1. /\ Count \in Nat
      /\ graph.virtual \subseteq graph.tensors
  BY GraphFacts DEF CompileInv
<1>2. CASE Compile
  <2>1. /\ CompileNext /\ stage # "compiled" /\ graph' = graph
        /\ stage' = "compiled" => plan' = plan
        /\ UNCHANGED <<node, written, external>>
        /\ workspace' = IF stage' = "compiled"
                        THEN [b \in 0..(plan.size - 1) |-> Undefined]
                        ELSE workspace
    BY <1>2, CompilingSteps DEF Compile, BindViews, plannerVars
  <2>2. Count' = Count
    BY <2>1 DEF Count
  <2>3. node = 1 /\ written = {}
    BY <2>1 DEF RunInv
  <2>4. \A t : Bytes(t)' = Bytes(t)
    BY <2>1 DEF Bytes
  <2>5. stage' = "compiled" => DOMAIN workspace' = 0..(plan'.size - 1)
    BY <2>1
  <2> QED
    BY <1>1, <2>1, <2>2, <2>3, <2>4, <2>5 DEF RunInv
<1>3. CASE RunElement
  <2>1. PICK e \in D!ToWrite(node) \ written :
          LET value == D!Computed(node, e[1], e[2], Contents)
          IN IF e[1] \in graph.virtual
             THEN /\ workspace' =
                       [workspace EXCEPT ![views[e[1]] + e[2]] = value]
                  /\ external' = external
             ELSE /\ external' = [external EXCEPT ![e[1]][e[2]] = value]
                  /\ workspace' = workspace
    BY <1>3 DEF RunElement
  <2>2. /\ stage = "compiled" /\ UNCHANGED <<graph, stage, plan, node>>
    BY <1>3 DEF RunElement, compileVars, analysisVars, plannerVars
  <2>3. /\ DOMAIN external' = DOMAIN external
        /\ \A t \in DOMAIN external : DOMAIN external'[t] = DOMAIN external[t]
        /\ DOMAIN workspace' = DOMAIN workspace
    BY <2>1
  <2> QED
    BY <2>2, <2>3 DEF RunInv, Bytes, Count
<1>4. CASE NextNode
  <2>1. /\ stage = "compiled" /\ UNCHANGED <<graph, stage, plan, external, workspace>>
        /\ node <= Count /\ node' = node + 1
    BY <1>4 DEF NextNode, compileVars, analysisVars, plannerVars, Count
  <2> QED
    BY <1>1, <2>1 DEF RunInv, Bytes, Count
<1>5. CASE UNCHANGED allVars
  BY <1>5 DEF allVars, runVars, compileVars, analysisVars, plannerVars, RunInv, Bytes, Count
<1> QED
  BY <1>2, <1>3, <1>4, <1>5 DEF ExecutionNext
-----------------------------------------------------------------------------
(* Every operand of the node that runs is defined, so what the kernel      *)
(* reads is what the dataflow graph holds.                                 *)
LEMMA OperandsDefined ==
  ASSUME CompileInv, RunInv, stage = "compiled", node \in 1..Count,
         NEW i \in NodeInputs(node)
  PROVE  i \in graph.tensors /\ Contents(i) = AbstractStore[i]
<1>1. AllResolved /\ UsageUpTo(Count) /\ Resolved(node) /\ graph \in GraphInputs
  BY DEF CompileInv, AllResolved
<1>2. i \in graph.tensors
  BY <1>1 DEF Resolved
<1>3. CASE i \notin graph.virtual
  BY <1>2, <1>3 DEF Contents, AbstractStore
<1>4. CASE i \in graph.virtual
  <2>1. Count \in Nat
    BY <1>1, GraphFacts
  <2>2. PICK m \in 1..(node - 1) : i \in NodeOutputs(m)
    BY <1>1, <1>4 DEF Resolved
  <2>3. m \in 1..Count /\ m < node
    BY <2>1, <2>2
  <2>4. i \in DOMAIN usage
    BY <1>1, <1>4, VirtualUsage
  <2>5. usage[i].producer = m /\ node <= usage[i].last
    BY <1>1, <2>2, <2>3, <2>4 DEF UsageUpTo, Recorded
  <2>6. \A k : Defined(i, k)
    BY <2>3, <2>5 DEF Defined
  <2> QED
    BY <1>2, <1>4, <2>6 DEF Contents, AbstractStore
<1> QED
  BY <1>2, <1>3, <1>4

LEMMA ApartBytes ==
  ASSUME NEW a \in Nat, NEW b \in Nat, NEW s \in Nat, NEW r \in Nat,
         NEW k \in Nat, NEW l \in Nat, k < s, l < r,
         a + s <= b \/ b + r <= a
  PROVE  b + l # a + k
OBVIOUS

(* Element k of tensor t is written: in the workspace when t is virtual.   *)
Stored(t, k, value) ==
  IF t \in graph.virtual
  THEN /\ workspace' = [workspace EXCEPT ![views[t] + k] = value]
       /\ external' = external
  ELSE /\ external' = [external EXCEPT ![t][k] = value]
       /\ workspace' = workspace

(* Writing one element changes that element of the store and nothing else: *)
(* the bytes of any other tensor still needed are elsewhere.               *)
LEMMA ElementWritten ==
  ASSUME CompileInv, RunInv, stage = "compiled", node \in 1..Count,
         NEW t \in NodeOutputs(node), NEW k \in Bytes(t), NEW value,
         Stored(t, k, value), written' = written \cup {<<t, k>>},
         UNCHANGED <<graph, stage, usage, views, plan, node>>
  PROVE  AbstractStore' = [AbstractStore EXCEPT ![t][k] = value]
<1>1. /\ AllResolved /\ UsageUpTo(Count) /\ Resolved(node)
      /\ graph \in GraphInputs /\ ViewsInv
  BY DEF CompileInv, AllResolved
<1>2. /\ t \in graph.tensors /\ graph.virtual \subseteq graph.tensors
      /\ Count \in Nat /\ \A u \in graph.tensors : graph.bytes[u] \in Nat
  BY <1>1, GraphFacts DEF Resolved
<1>3. /\ DOMAIN AbstractStore = graph.tensors
      /\ AbstractStore' = [u \in graph.tensors |-> AbstractStore'[u]]
  BY DEF AbstractStore
<1>4. \A u \in graph.virtual :
        AbstractStore[u] = [l \in Bytes(u) |->
          IF Defined(u, l) THEN workspace[views[u] + l] ELSE Undefined]
  BY <1>2 DEF AbstractStore, D!Elements, Bytes
<1>5. \A u \in graph.virtual :
        AbstractStore'[u] = [l \in Bytes(u) |->
          IF Defined(u, l)' THEN workspace'[views[u] + l] ELSE Undefined]
  BY <1>2 DEF AbstractStore, D!Elements, Bytes, Defined
<1>6. ASSUME NEW u \in graph.virtual, NEW l \in Bytes(u)
       PROVE  /\ AbstractStore[u][l] = IF Defined(u, l) THEN workspace[views[u] + l]
                                       ELSE Undefined
              /\ AbstractStore'[u][l] = IF Defined(u, l)' THEN workspace'[views[u] + l]
                                        ELSE Undefined
  <2> HIDE DEF AbstractStore
  <2>1. AbstractStore[u][l] = IF Defined(u, l) THEN workspace[views[u] + l] ELSE Undefined
    BY <1>4, <1>6, Zenon
  <2>2. AbstractStore'[u][l] = IF Defined(u, l)' THEN workspace'[views[u] + l] ELSE Undefined
    BY <1>5, <1>6, Zenon
  <2> QED
    BY <2>1, <2>2
<1>7. ASSUME NEW u, NEW l, <<u, l>> # <<t, k>>
      PROVE  Defined(u, l)' <=> Defined(u, l)
  BY <1>7 DEF Defined
<1>8. ASSUME NEW u \in graph.tensors \ graph.virtual, u # t
      PROVE  AbstractStore'[u] = AbstractStore[u]
  BY <1>8 DEF AbstractStore, RunInv, Stored
<1>9. CASE t \notin graph.virtual
  <2>1. AbstractStore'[t] = [AbstractStore[t] EXCEPT ![k] = value]
    BY <1>2, <1>9 DEF AbstractStore, RunInv, Stored
  <2>2. ASSUME NEW u \in graph.virtual PROVE AbstractStore'[u] = AbstractStore[u]
    BY <1>4, <1>7, <1>9, <1>5, <2>2 DEF Stored
  <2> QED
    BY <1>2, <1>3, <1>8, <2>1, <2>2
<1>10. CASE t \in graph.virtual
  <2>1. /\ usage[t].producer = node /\ node <= LiveEnd(usage[t])
        /\ views[t] \in Nat /\ views[t] + graph.bytes[t] <= plan.size
        /\ plan.size \in Nat /\ DOMAIN workspace = 0..(plan.size - 1)
    <3>1. t \in DOMAIN usage /\ usage[t].producer <= LiveEnd(usage[t])
      BY <1>1, <1>10, VirtualUsage
    <3>2. usage[t].producer = node
      BY <1>1, <3>1 DEF UsageUpTo, Recorded
    <3> QED
      BY <1>1, <1>10, <3>1, <3>2 DEF ViewsInv, RunInv
  <2>2. /\ views[t] + k \in DOMAIN workspace /\ k \in Nat /\ k < graph.bytes[t]
    BY <1>2, <2>1 DEF Bytes
  <2>3. /\ workspace'[views[t] + k] = value
        /\ \A b \in DOMAIN workspace :
             b # views[t] + k => workspace'[b] = workspace[b]
    BY <1>10, <2>2 DEF Stored
  <2>4. Defined(t, k)'
    BY <2>1 DEF Defined
  <2>5. AbstractStore'[t] = [AbstractStore[t] EXCEPT ![k] = value]
    <3>1. ASSUME NEW l \in Bytes(t), l # k
          PROVE  AbstractStore'[t][l] = AbstractStore[t][l]
      <4>1. views[t] + l # views[t] + k /\ views[t] + l \in DOMAIN workspace
        <5>1. l \in Nat /\ k \in Nat /\ l # k /\ l < graph.bytes[t] /\ graph.bytes[t] \in Nat
          BY <1>2, <2>2, <3>1 DEF Bytes
        <5> QED
          BY <2>1, <5>1, SMTT(30)
      <4>2. Defined(t, l)' <=> Defined(t, l)
        BY <1>7, <3>1
      <4> QED
        BY <1>10, <1>6, <2>3, <3>1, <4>1, <4>2
    <3>2. AbstractStore'[t][k] = value
      BY <1>10, <1>5, <2>3, <2>4
    <3>3. AbstractStore'[t] = [l \in Bytes(t) |-> AbstractStore'[t][l]]
      BY <1>10, <1>5
    <3>4. AbstractStore[t] = [l \in Bytes(t) |-> AbstractStore[t][l]]
      BY <1>4, <1>10
    <3> HIDE DEF AbstractStore
    <3> QED
      BY <3>1, <3>2, <3>3, <3>4
  <2>6. ASSUME NEW u \in graph.virtual, u # t
        PROVE  AbstractStore'[u] = AbstractStore[u]
    <3>1. ASSUME NEW l \in Bytes(u)
          PROVE  AbstractStore'[u][l] = AbstractStore[u][l]
      <4>1. Defined(u, l)' <=> Defined(u, l)
        BY <1>7, <2>6
      <4>2. CASE Defined(u, l)
        <5>1. /\ usage[u].producer \in Nat /\ usage[u].last \in Nat
              /\ LiveEnd(usage[u]) \in Nat /\ LiveEnd(usage[t]) \in Nat
              /\ usage[u].producer <= LiveEnd(usage[u])
              /\ usage[u].last <= LiveEnd(usage[u])
          BY <1>1, <1>2, <1>10, <2>6, VirtualUsage
        <5>2. usage[u].producer <= node /\ node <= LiveEnd(usage[u])
          BY <1>2, <4>2, <5>1 DEF Defined
        <5>3. AliveTogether(t, u)
          BY <2>1, <5>1, <5>2 DEF AliveTogether
        <5>4. \/ views[t] + graph.bytes[t] <= views[u]
              \/ views[u] + graph.bytes[u] <= views[t]
          BY <1>1, <1>10, <2>6, <5>3 DEF ViewsInv
        <5>5. /\ views[u] \in Nat /\ views[u] + graph.bytes[u] <= plan.size
              /\ l \in Nat /\ l < graph.bytes[u] /\ graph.bytes[u] \in Nat
          BY <1>1, <1>2, <2>6, <3>1 DEF ViewsInv, Bytes
        <5>6. graph.bytes[t] \in Nat
          BY <1>2
        <5>7. views[u] + l # views[t] + k
          BY <2>1, <2>2, <5>4, <5>5, <5>6, ApartBytes
        <5>8. views[u] + l \in DOMAIN workspace
          BY <2>1, <5>5
        <5> QED
          BY <1>6, <2>3, <2>6, <3>1, <4>1, <5>7, <5>8
      <4>3. CASE ~ Defined(u, l)
        BY <1>6, <2>6, <3>1, <4>1, <4>3
      <4> QED
        BY <4>2, <4>3
    <3>2. AbstractStore'[u] = [l \in Bytes(u) |-> AbstractStore'[u][l]]
      BY <1>5, <2>6
    <3>3. AbstractStore[u] = [l \in Bytes(u) |-> AbstractStore[u][l]]
      BY <1>4, <2>6
    <3> QED
      BY <3>1, <3>2, <3>3
  <2> QED
    BY <1>2, <1>3, <1>8, <2>5, <2>6
<1> QED
  BY <1>9, <1>10

LEMMA ElementRefines ==
  ASSUME CompileInv, RunInv, RunElement
  PROVE  Abstract!WriteElement
<1>1. PICK e \in D!ToWrite(node) \ written :
        LET value == D!Computed(node, e[1], e[2], Contents)
        IN /\ IF e[1] \in graph.virtual
              THEN /\ workspace' =
                        [workspace EXCEPT ![views[e[1]] + e[2]] = value]
                   /\ external' = external
              ELSE /\ external' = [external EXCEPT ![e[1]][e[2]] = value]
                   /\ workspace' = workspace
           /\ written' = written \cup {e}
  BY DEF RunElement
<1>2. /\ stage = "compiled" /\ node <= Count
      /\ UNCHANGED <<graph, stage, usage, views, plan, node>>
  BY DEF RunElement, compileVars, analysisVars, plannerVars, Count
<1>3. node \in 1..Count /\ Resolved(node)
  <2>1. node \in 1..Count
    BY <1>2, GraphFacts DEF RunInv, CompileInv
  <2> QED
    BY <1>2, <2>1 DEF CompileInv, AllResolved
<1>4. e = <<e[1], e[2]>> /\ e[1] \in NodeOutputs(node) /\ e[2] \in Bytes(e[1])
  BY WrittenElement
<1> DEFINE contents(i) == AbstractStore[i]
           value == D!Computed(node, e[1], e[2], Contents)
<1>5. value = Abstract!Computed(node, e[1], e[2], contents)
  <2>1. \A i \in NodeInputs(node) : Contents(i) = AbstractStore[i]
    BY <1>2, <1>3, OperandsDefined
  <2>2. [i \in NodeInputs(node) |-> Contents(i)]
          = [i \in NodeInputs(node) |-> AbstractStore[i]]
    BY <2>1
  <2> QED
    BY <2>2, SameTerms DEF D!Computed, Abstract!Computed
<1>6. AbstractStore' = [AbstractStore EXCEPT ![e[1]][e[2]] = value]
  <2> HIDE DEF value
  <2>1. Stored(e[1], e[2], value)
    BY <1>1 DEF value, Stored
  <2>2. written' = written \cup {<<e[1], e[2]>>}
    BY <1>1, <1>4
  <2> QED
    BY <1>2, <1>3, <1>4, <2>1, <2>2, ElementWritten
<1>7. Abstract!Runnable
  BY <1>2, <1>3, SameTerms DEF Abstract!Runnable, Resolved, Count
<1>8. e \in Abstract!ToWrite(node) \ written /\ written' = written \cup {e}
  BY <1>1, SameTerms
<1>9. AbstractStore' =
        [AbstractStore EXCEPT ![e[1]][e[2]] =
           Abstract!Computed(node, e[1], e[2], contents)]
  BY <1>5, <1>6
<1> QED
  BY <1>2, <1>7, <1>8, <1>9 DEF Abstract!WriteElement

(* A virtual tensor is defined for the next node exactly if one at or      *)
(* after it reads it.                                                      *)
LEMMA FinishRefines ==
  ASSUME CompileInv, RunInv, NextNode
  PROVE  Abstract!FinishNode
<1>1. /\ stage = "compiled" /\ node <= Count /\ D!ToWrite(node) = written
      /\ node' = node + 1 /\ written' = {}
      /\ UNCHANGED <<graph, stage, usage, views, external, workspace>>
  BY DEF NextNode, compileVars, analysisVars, Count
<1>2. /\ AllResolved /\ UsageUpTo(Count) /\ graph \in GraphInputs
      /\ graph.virtual \subseteq graph.tensors /\ Count \in Nat
  BY <1>1, GraphFacts DEF CompileInv
<1>3. node \in 1..Count /\ Resolved(node)
  BY <1>1, <1>2 DEF RunInv, AllResolved
<1>4. Abstract!Runnable
  BY <1>1, <1>3, SameTerms DEF Abstract!Runnable, Resolved, Count
<1>5. ASSUME NEW t \in graph.virtual, NEW k \in Bytes(t)
      PROVE  Defined(t, k)' <=> Defined(t, k) /\ t \in Abstract!NeededAfter(node)
  <2>1. /\ t \in DOMAIN usage /\ usage[t].producer \in 1..Count
        /\ usage[t].last \in 0..Count
        /\ t \in NodeOutputs(usage[t].producer)
    BY <1>2, VirtualUsage
  <2>2. t \in Abstract!NeededAfter(node) <=> node + 1 <= usage[t].last
    <3>1. t \in Abstract!NeededAfter(node) <=>
            \E m \in (node + 1)..Count : t \in NodeInputs(m)
      BY SameTerms DEF Abstract!NeededAfter, Count
    <3>2. ASSUME NEW m \in (node + 1)..Count, t \in NodeInputs(m)
          PROVE  node + 1 <= usage[t].last
      <4>1. m \in 1..Count /\ node + 1 <= m
        BY <1>2, <1>3
      <4>2. m <= usage[t].last
        BY <1>2, <2>1, <3>2, <4>1 DEF UsageUpTo, Recorded
      <4> QED
        BY <1>2, <1>3, <2>1, <4>1, <4>2
    <3>3. ASSUME node + 1 <= usage[t].last
          PROVE  \E m \in (node + 1)..Count : t \in NodeInputs(m)
      <4>1. usage[t].last \in (node + 1)..Count
        BY <1>2, <1>3, <2>1, <3>3
      <4>2. usage[t].last # 0
        BY <1>2, <1>3, <4>1
      <4>3. t \in NodeInputs(usage[t].last)
        BY <1>2, <2>1, <4>2 DEF UsageUpTo, Recorded
      <4> QED
        BY <4>1, <4>3
    <3> QED
      BY <3>1, <3>2, <3>3
  <2>3. usage[t].producer = node => <<t, k>> \in written
    BY <1>1, <2>1, SameTerms DEF D!ToWrite
  <2>4. Defined(t, k)' <=> usage[t].producer < node + 1 /\ node + 1 <= usage[t].last
    BY <1>1 DEF Defined
  <2>5. Defined(t, k) <=> \/ usage[t].producer = node
                          \/ usage[t].producer < node /\ node <= usage[t].last
    BY <1>1, <2>3 DEF Defined
  <2> QED
    BY <1>2, <1>3, <2>1, <2>2, <2>4, <2>5
<1>6. ASSUME NEW t \in graph.tensors
      PROVE  AbstractStore'[t] =
               IF t \in graph.virtual \ Abstract!NeededAfter(node)
               THEN Abstract!Nothing(t) ELSE AbstractStore[t]
  <2>1. CASE t \notin graph.virtual
    BY <1>1, <2>1 DEF AbstractStore
  <2>2. CASE t \in graph.virtual
    <3>1. AbstractStore[t] = [k \in Bytes(t) |->
            IF Defined(t, k) THEN workspace[views[t] + k] ELSE Undefined]
      BY <2>2 DEF AbstractStore, D!Elements, Bytes
    <3>2. AbstractStore'[t] = [k \in Bytes(t) |->
            IF Defined(t, k)' THEN workspace[views[t] + k] ELSE Undefined]
      BY <1>1, <2>2 DEF AbstractStore, D!Elements, Bytes, Defined
    <3>3. CASE t \notin Abstract!NeededAfter(node)
      <4>1. AbstractStore'[t] = [k \in Bytes(t) |-> Undefined]
        BY <1>5, <2>2, <3>2, <3>3
      <4> QED
        BY <2>2, <3>3, <4>1, SameTerms DEF Abstract!Nothing
    <3>4. CASE t \in Abstract!NeededAfter(node)
      BY <1>5, <2>2, <3>1, <3>2, <3>4
    <3> QED
      BY <3>3, <3>4
  <2> QED
    BY <2>1, <2>2
<1>7. AbstractStore' = [t \in graph.tensors |->
        IF t \in graph.virtual \ Abstract!NeededAfter(node)
        THEN Abstract!Nothing(t) ELSE AbstractStore[t]]
  <2>1. AbstractStore' = [t \in graph.tensors |-> AbstractStore'[t]]
    BY <1>1 DEF AbstractStore
  <2> QED
    BY <1>6, <2>1
<1>8. Abstract!ToWrite(node) = written
  BY <1>1, SameTerms
<1> QED
  BY <1>1, <1>4, <1>7, <1>8 DEF Abstract!FinishNode

(* Compiling changes nothing the dataflow graph can see.                   *)
LEMMA CompileStutters ==
  ASSUME CompileInv, RunInv, Compile
  PROVE  UNCHANGED Abstract!dataflowVars
<1>1. /\ stage # "compiled" /\ graph' = graph
      /\ stage' = "compiled" => BindViews
      /\ UNCHANGED <<node, written, external>>
      /\ node = 1 /\ written = {}
  BY CompilingSteps DEF Compile, RunInv
<1>2. graph \in GraphInputs /\ graph.virtual \subseteq graph.tensors
  BY GraphFacts DEF CompileInv
<1>3. ASSUME NEW t \in graph.virtual, NEW k PROVE ~ Defined(t, k) /\ ~ Defined(t, k)'
  <2>1. ~ Defined(t, k)
    BY <1>1 DEF Defined
  <2>2. CASE stage' = "compiled"
    <3>1. stage = "plan" /\ usage' = usage
      BY <1>1, <2>2 DEF BindViews
    <3>2. Count \in Nat /\ usage[t].producer \in 1..Count
      BY <1>2, <3>1, GraphFacts, VirtualUsage DEF CompileInv
    <3> QED
      BY <1>1, <2>1, <3>1, <3>2 DEF Defined
  <2>3. CASE stage' # "compiled"
    BY <2>1, <2>3 DEF Defined
  <2> QED
    BY <2>2, <2>3
<1>4. ASSUME NEW t \in graph.tensors PROVE AbstractStore'[t] = AbstractStore[t]
  <2>1. CASE t \notin graph.virtual
    BY <1>1, <2>1 DEF AbstractStore
  <2>2. CASE t \in graph.virtual
    <3>1. AbstractStore[t] = [k \in Bytes(t) |-> Undefined]
      BY <1>3, <2>2 DEF AbstractStore, D!Elements, Bytes
    <3>2. AbstractStore'[t] = [k \in Bytes(t) |-> Undefined]
      BY <1>1, <1>3, <2>2 DEF AbstractStore, D!Elements, Bytes
    <3> QED
      BY <3>1, <3>2
  <2> QED
    BY <2>1, <2>2
<1>5. AbstractStore' = AbstractStore
  <2>1. AbstractStore' = [t \in graph.tensors |-> AbstractStore'[t]]
    BY <1>1 DEF AbstractStore
  <2>2. AbstractStore = [t \in graph.tensors |-> AbstractStore[t]]
    BY DEF AbstractStore
  <2> QED
    BY <1>4, <2>1, <2>2
<1> QED
  BY <1>1, <1>5 DEF Abstract!dataflowVars

LEMMA StoreStarts == ExecutionInit => Abstract!DataflowInit
<1> SUFFICES ASSUME ExecutionInit PROVE Abstract!DataflowInit
  OBVIOUS
<1>1. /\ stage = "references" /\ node = 1 /\ written = {}
      /\ external = [t \in graph.tensors \ graph.virtual |-> D!Initial(t)]
  BY DEF ExecutionInit, CompileInit
<1>2. ASSUME NEW t \in graph.tensors
      PROVE  AbstractStore[t] = IF t \in graph.virtual THEN Abstract!Nothing(t)
                                ELSE Abstract!Initial(t)
  <2>1. CASE t \in graph.virtual
    <3>1. \A k : ~ Defined(t, k)
      BY <1>1 DEF Defined
    <3> QED
      BY <2>1, <3>1 DEF AbstractStore, Abstract!Nothing, Abstract!Elements, D!Elements
  <2>2. CASE t \notin graph.virtual
    BY <1>1, <2>2 DEF AbstractStore, D!Initial, Abstract!Initial, D!Elements,
                      Abstract!Elements
  <2> QED
    BY <2>1, <2>2
<1>3. AbstractStore = [t \in graph.tensors |-> AbstractStore[t]]
  BY DEF AbstractStore
<1> QED
  BY <1>1, <1>2, <1>3 DEF Abstract!DataflowInit

(* The run of a compiled graph is a run of its dataflow graph: planning    *)
(* virtual tensors into shared bytes changes no value a node computes.     *)
THEOREM SharingIsInvisible == ExecutionSpec => ImplementsDataflow
<1>1. CompileInv /\ [ExecutionNext]_allVars => CompileInv'
  BY CompileStepKeeps, RunCompiles
<1>2. CompileInv /\ RunInv /\ [ExecutionNext]_allVars => RunInv'
  BY RunStepKeeps
<1>3. CompileInv /\ RunInv /\ [ExecutionNext]_allVars
        => [Abstract!DataflowNext]_Abstract!dataflowVars
  <2> SUFFICES ASSUME CompileInv, RunInv, [ExecutionNext]_allVars
               PROVE  [Abstract!DataflowNext]_Abstract!dataflowVars
    OBVIOUS
  <2>1. CASE Compile
    BY <2>1, CompileStutters
  <2>2. CASE RunElement
    BY <2>2, ElementRefines DEF Abstract!DataflowNext
  <2>3. CASE NextNode
    BY <2>3, FinishRefines DEF Abstract!DataflowNext
  <2>4. CASE UNCHANGED allVars
    BY <2>4 DEF allVars, runVars, compileVars, analysisVars, AbstractStore,
                Defined, Abstract!dataflowVars, D!Elements
  <2> QED
    BY <2>1, <2>2, <2>3, <2>4 DEF ExecutionNext
<1> QED
  BY <1>1, <1>2, <1>3, RunStarts, StoreStarts, PTL
     DEF ExecutionSpec, ImplementsDataflow, Abstract!DataflowSpec
=============================================================================
