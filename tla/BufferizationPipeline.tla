------------------------ MODULE BufferizationPipeline ------------------------
(***************************************************************************)
(* bufferize_and_plan_conv2d and its independent verifier                  *)
(* (lib/Transforms/BufferizationPipeline.cpp), after One-Shot Bufferize:   *)
(* the allocations of the function body are collected with their           *)
(* lifetimes, planned, rewritten into views of a workspace argument, and   *)
(* verified, which plans them once more.                                   *)
(*                                                                         *)
(* A body is the sequence of its operations in walk order.  An operation   *)
(* allocates a buffer, uses some of them, or frees one.  The planner is    *)
(* the state machine of WorkspacePlanner, used twice.                      *)
(***************************************************************************)
EXTENDS Integers, Sequences, FiniteSets, FiniteSetsExt

CONSTANTS
  Bodies,  (* bufferized function bodies                                   *)
  UIntMax, (* largest std::uint64_t                                        *)
  IntMax   (* largest std::int64_t                                         *)

VARIABLES
  body,    (* operations of the function, a sequence                       *)
  stage,   (* collect, plan, rewrite, verify, compare, done, rejected      *)
  records, (* AllocRecords in walk order                                   *)
  planned, (* the plan of the first planning                               *)
  views,   (* views of the rewritten body: record |-> [offset, size]       *)
  output,  (* the caller's BufferizationResult                             *)
  (* a call of plan_workspace                                              *)
  requests, pc, checked, remaining, current, candidate, allocations, plan,
  status

Planner == INSTANCE WorkspacePlanner WITH Inputs <- {}

pipelineVars == <<body, stage, records, planned, views, output>>
(* MLIR's values are used after the operation that makes them.             *)
Operation ==
  [kind: {"alloc"}, size: Nat, static: BOOLEAN]
    \cup [kind: {"use", "dealloc"}, of: SUBSET Nat]

BodiesWellFormed ==
  \A b \in Bodies :
    /\ b \in Seq(Operation)
    /\ \A q \in DOMAIN b : b[q].kind # "alloc" => \A p \in b[q].of : p < q

WordWidths == /\ UIntMax \in Nat
              /\ IntMax \in Nat
              /\ IntMax <= UIntMax
              /\ (UIntMax + 1) % 64 = 0

plannerVars == <<requests, pc, checked, remaining, current, candidate,
                 allocations, plan, status>>
bufferizationVars == <<pipelineVars, plannerVars>>

NoOutput == [allocations |-> <<>>, views |-> <<>>]

StartPlanner(list) ==
  /\ requests' = list
  /\ pc' = "validate"
  /\ checked' = 0
  /\ remaining' = {}
  /\ current' = 0
  /\ candidate' = 0
  /\ allocations' = <<>>
  /\ plan' = Planner!EmptyPlan
  /\ status' = "none"
-----------------------------------------------------------------------------
Allocations == {p \in DOMAIN body : body[p].kind = "alloc"}
UsesOf(p) == {q \in DOMAIN body : body[q].kind # "alloc" /\ p \in body[q].of}

(* Fault: an allocation lives until its first use.                         *)
LastUseFirst(p) == IF UsesOf(p) = {} THEN p ELSE Min(UsesOf(p))

(* Only uses of the allocated value itself count, not those of an alias.   *)
LastUse(p) == Max({p} \cup UsesOf(p))

RecordOf(p, index) ==
  [name |-> index, size |-> body[p].size, alignment |-> 64, start |-> p,
   end |-> LastUse(p)]

(* A dynamic shape or element type, an empty or a too large one stop it.   *)
Supported(p) == body[p].static /\ body[p].size \in 1..IntMax

Collect ==
  /\ stage = "collect"
  /\ \A p \in Allocations : Supported(p)
  /\ \E order \in [1..Cardinality(Allocations) -> Allocations] :
       /\ \A i, j \in DOMAIN order : i < j => order[i] < order[j]
       /\ records' = [i \in DOMAIN order |-> RecordOf(order[i], i)]
  /\ StartPlanner(records')
  /\ stage' = "plan"
  /\ UNCHANGED <<body, planned, views, output>>

Plan ==
  /\ stage \in {"plan", "compare"}
  /\ Planner!Next
  /\ UNCHANGED pipelineVars

TakePlan ==
  /\ stage = "plan"
  /\ pc = "done"
  /\ planned' = plan
  /\ stage' = "rewrite"
  /\ UNCHANGED <<body, records, views, output, plannerVars>>

(* rewrite_allocations: every record becomes a view at the offset planned  *)
(* under its name, and deallocations are erased.                           *)
Covered ==
  /\ Len(records) = Len(planned.allocations)
  /\ planned.size = 0 => records = <<>>
  /\ \A i \in DOMAIN records :
       \E k \in DOMAIN planned.allocations :
         planned.allocations[k].name = records[i].name

PlannedFor(i) ==
  planned.allocations[CHOOSE k \in DOMAIN planned.allocations :
                        planned.allocations[k].name = records[i].name]

Rewrite ==
  /\ stage = "rewrite"
  /\ Covered
  /\ views' = [i \in DOMAIN records |->
                 [offset |-> PlannedFor(i).offset, size |-> records[i].size]]
  /\ body' = [p \in DOMAIN body |->
                IF body[p].kind = "dealloc" THEN [body[p] EXCEPT !.of = {}]
                ELSE body[p]]
  /\ stage' = "verify"
  /\ UNCHANGED <<records, planned, output, plannerVars>>

(* Fault: the lifetimes are not part of what is planned again.             *)
VerifyPlanPointLifetimes ==
  /\ stage = "verify"
  /\ StartPlanner([k \in DOMAIN planned.allocations |->
                     [name      |-> planned.allocations[k].name,
                      size      |-> planned.allocations[k].size,
                      alignment |-> planned.allocations[k].alignment,
                      start     |-> planned.allocations[k].start,
                      end       |-> planned.allocations[k].start]])
  /\ stage' = "compare"
  /\ UNCHANGED <<body, records, planned, views, output>>

(* verify_bufferized_conv2d: the workspace metadata first, planned anew.   *)
VerifyPlan ==
  /\ stage = "verify"
  /\ StartPlanner([k \in DOMAIN planned.allocations |->
                     [name      |-> planned.allocations[k].name,
                      size      |-> planned.allocations[k].size,
                      alignment |-> planned.allocations[k].alignment,
                      start     |-> planned.allocations[k].start,
                      end       |-> planned.allocations[k].end]])
  /\ stage' = "compare"
  /\ UNCHANGED <<body, records, planned, views, output>>

(* Every view has an allocation of its own with its offset and size.       *)
ViewsMatch ==
  /\ Len(views) = Len(planned.allocations)
  /\ \A j \in DOMAIN views :
       Cardinality({i \in DOMAIN views : views[i] = views[j]}) <=
         Cardinality({k \in DOMAIN planned.allocations :
                        /\ planned.allocations[k].offset = views[j].offset
                        /\ planned.allocations[k].size = views[j].size})

Accepted == plan = planned /\ ViewsMatch

Finish ==
  /\ stage = "compare"
  /\ pc = "done"
  /\ Accepted
  /\ output' = [allocations |-> planned.allocations, views |-> views]
  /\ stage' = "done"
  /\ UNCHANGED <<body, records, planned, views, plannerVars>>

(* Every check that fails returns its error at once.                       *)
Refused ==
  \/ stage = "collect" /\ \E p \in Allocations : ~ Supported(p)
  \/ stage \in {"plan", "compare"} /\ pc = "failed"
  \/ stage = "rewrite" /\ ~ Covered
  \/ stage = "compare" /\ pc = "done" /\ ~ Accepted

Reject ==
  /\ Refused
  /\ stage' = "rejected"
  /\ UNCHANGED <<body, records, planned, views, output, plannerVars>>
-----------------------------------------------------------------------------
PipelineInit ==
  /\ body \in Bodies
  /\ stage = "collect"
  /\ records = <<>>
  /\ planned = Planner!EmptyPlan
  /\ views = <<>>
  /\ output = NoOutput
  /\ requests = <<>>
  /\ Planner!PlannerInit

PipelineNext ==
  \/ Collect
  \/ Plan
  \/ TakePlan
  \/ Rewrite
  \/ VerifyPlan
  \/ Finish
  \/ Reject

(* The transform runs to its end in the calling thread.                    *)
PipelineSpec ==
  PipelineInit /\ [][PipelineNext]_bufferizationVars /\ WF_bufferizationVars(PipelineNext)
-----------------------------------------------------------------------------
(* The verifier is independent, and the planner canonical: a plan survives *)
(* being planned again, so the pipeline refuses a body for its allocations *)
(* or for an overflow of the first planning and never in its own checks.   *)
OwnPlanVerifies ==
  stage = "rejected" =>
    planned = Planner!EmptyPlan /\ views = <<>>

(* A buffer keeps its contents from its allocation to its last use: no     *)
(* operation in between touches the bytes through another buffer's view.   *)
Shares(i, j) ==
  /\ views[i].offset < views[j].offset + views[j].size
  /\ views[j].offset < views[i].offset + views[i].size

ContentsKept ==
  stage = "done" =>
    \A i, j \in DOMAIN records :
      i # j /\ Shares(i, j) =>
        \A p \in UsesOf(records[j].start) :
          ~ \E q \in UsesOf(records[i].start) :
              records[i].start <= p /\ p <= q

=============================================================================
