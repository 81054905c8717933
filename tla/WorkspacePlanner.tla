-------------------------- MODULE WorkspacePlanner --------------------------
(***************************************************************************)
(* plan_workspace (lib/Transforms/WorkspacePlanner.cpp): first-fit         *)
(* placement of temporary buffers in one caller-provided workspace.        *)
(* Requests whose lifetimes do not overlap may share bytes; the plan is    *)
(* handed to the caller only when every request was placed.                *)
(*                                                                         *)
(* One behaviour is one call.  A request name is a natural number that     *)
(* keeps the lexicographic order of the strings, 0 standing for "".        *)
(***************************************************************************)
EXTENDS Integers, Sequences

CONSTANTS
  Inputs,   (* the request lists a call may receive                        *)
  UIntMax,  (* largest std::uint64_t                                       *)
  IntMax    (* largest std::int64_t                                        *)

Request == [name: Nat, size: Nat, alignment: Nat, start: Nat, end: Nat]

(* UIntMax + 1 is a power of two no smaller than the workspace alignment.  *)
ASSUME WidthAssumption == /\ UIntMax \in Nat
                          /\ IntMax \in Nat
                          /\ IntMax <= UIntMax
                          /\ (UIntMax + 1) % 64 = 0
ASSUME InputAssumption == Inputs \subseteq Seq(Request)

VARIABLES
  requests,    (* the argument of the call                                 *)
  pc,          (* validate, place, done or failed                          *)
  checked,     (* how many requests the validation loop has passed         *)
  remaining,   (* indices of requests not yet taken from the sorted order  *)
  current,     (* index of the request being placed, 0 when there is none  *)
  candidate,   (* offset the inner loop tries next                         *)
  allocations, (* allocations of the plan under construction               *)
  plan,        (* the caller's output                                      *)
  status       (* status returned to the caller, "none" while running      *)

vars == <<requests, pc, checked, remaining, current, candidate, allocations,
          plan, status>>

kWorkspaceAlignment == 64
PowersOfTwo == {1, 2, 4, 8, 16, 32, 64}

EmptyPlan == [size |-> 0, allocations |-> <<>>]

IsMaximum(m, S) == m \in S /\ \A x \in S : x <= m

AlignUp(value, alignment) ==
  LET padded == value + (alignment - 1) IN padded - (padded % alignment)

AlignOverflows(value, alignment) == value + (alignment - 1) > UIntMax

LifetimesOverlap(r, s) == ~ (r.end < s.start \/ s.end < r.start)

RangesOverlap(lhsBegin, lhsEnd, rhsBegin, rhsEnd) ==
  lhsBegin < rhsEnd /\ rhsBegin < lhsEnd

AllocationEnd(a) == a.offset + a.size
-----------------------------------------------------------------------------
(* Fault: the alignment of a request is not checked.                       *)
MalformedAnyAlignment(r) == r.size = 0 \/ r.start > r.end

Malformed(r) ==
  \/ r.size = 0
  \/ r.alignment \notin PowersOfTwo
  \/ r.start > r.end

(* Fault: two requests of one name are accepted.                           *)
RequestStatusAnyName(i) ==
  IF requests[i].name = 0 \/ Malformed(requests[i]) THEN "kInvalidArgument"
  ELSE "ok"

RequestStatus(i) ==
  IF requests[i].name = 0 THEN "kInvalidArgument"
  ELSE IF \E j \in 1..(i - 1) : requests[j].name = requests[i].name
       THEN "kInvalidValue"
  ELSE IF Malformed(requests[i]) THEN "kInvalidArgument" ELSE "ok"

(* The comparison of the stable sort.  Names are unique once validated, so *)
(* it is a strict total order and stability plays no part.                 *)
Precedes(r, s) ==
  \/ r.start < s.start
  \/ r.start = s.start /\ r.end < s.end
  \/ r.start = s.start /\ r.end = s.end /\ r.name < s.name

(* Fault: a lifetime is taken to end before its last node.                 *)
ConflictsAtHalfOpen(r, at) ==
  {k \in DOMAIN allocations :
     /\ allocations[k].start < r.end /\ r.start < allocations[k].end
     /\ RangesOverlap(at, at + r.size,
                      allocations[k].offset, AllocationEnd(allocations[k]))}

(* The allocations that keep request r from the offset `at`.               *)
ConflictsAt(r, at) ==
  {k \in DOMAIN allocations :
     /\ LifetimesOverlap(allocations[k], r)
     /\ RangesOverlap(at, at + r.size,
                      allocations[k].offset, AllocationEnd(allocations[k]))}

Fail(code) ==
  /\ pc' = "failed"
  /\ status' = code
  /\ UNCHANGED <<requests, checked, remaining, current, candidate,
                 allocations, plan>>
-----------------------------------------------------------------------------
PlannerInit ==
  /\ pc = "validate"
  /\ checked = 0
  /\ remaining = {}
  /\ current = 0
  /\ candidate = 0
  /\ allocations = <<>>
  /\ plan = EmptyPlan
  /\ status = "none"

Init == requests \in Inputs /\ PlannerInit

ValidateRequest ==
  /\ pc = "validate"
  /\ checked < Len(requests)
  /\ RequestStatus(checked + 1) = "ok"
  /\ checked' = checked + 1
  /\ UNCHANGED <<requests, pc, remaining, current, candidate, allocations,
                 plan, status>>

RejectRequest ==
  /\ pc = "validate"
  /\ checked < Len(requests)
  /\ RequestStatus(checked + 1) # "ok"
  /\ Fail(RequestStatus(checked + 1))

SortRequests ==
  /\ pc = "validate"
  /\ checked = Len(requests)
  /\ pc' = "place"
  /\ remaining' = DOMAIN requests
  /\ UNCHANGED <<requests, checked, current, candidate, allocations, plan,
                 status>>

(* The outer loop takes the next request of the sorted order.              *)
TakeRequest ==
  /\ pc = "place"
  /\ current = 0
  /\ \E i \in remaining :
       /\ \A j \in remaining \ {i} : Precedes(requests[i], requests[j])
       /\ current' = i
       /\ remaining' = remaining \ {i}
  /\ candidate' = 0
  /\ UNCHANGED <<requests, pc, checked, allocations, plan, status>>

(* One turn of the inner loop: the aligned candidate is free, or it moves  *)
(* past the end of the allocations it conflicts with, or it overflows.     *)
AlignedCandidate == AlignUp(candidate, requests[current].alignment)

(* Fault: the signed limit of the total is applied to each range.          *)
CandidateFitsSigned ==
  /\ ~ AlignOverflows(candidate, requests[current].alignment)
  /\ AlignedCandidate + requests[current].size <= IntMax

CandidateFits ==
  /\ ~ AlignOverflows(candidate, requests[current].alignment)
  /\ AlignedCandidate + requests[current].size <= UIntMax

PlaceRequest ==
  /\ pc = "place"
  /\ current # 0
  /\ CandidateFits
  /\ ConflictsAt(requests[current], AlignedCandidate) = {}
  /\ allocations' =
       Append(allocations, [name      |-> requests[current].name,
                            offset    |-> AlignedCandidate,
                            size      |-> requests[current].size,
                            alignment |-> requests[current].alignment,
                            start     |-> requests[current].start,
                            end       |-> requests[current].end])
  /\ current' = 0
  /\ UNCHANGED <<requests, pc, checked, remaining, candidate, plan, status>>

(* Fault: the candidate moves past every allocation alive at the time.     *)
BumpPastAllLive ==
  /\ pc = "place"
  /\ current # 0
  /\ CandidateFits
  /\ ConflictsAt(requests[current], AlignedCandidate) # {}
  /\ LET live == {AllocationEnd(allocations[k]) :
                    k \in {l \in DOMAIN allocations :
                             LifetimesOverlap(allocations[l],
                                              requests[current])}}
     IN \E e \in live : IsMaximum(e, live) /\ candidate' = e
  /\ UNCHANGED <<requests, pc, checked, remaining, current, allocations, plan,
                 status>>

(* Fault: the candidate moves to the start of the range it met.            *)
BumpToStart ==
  /\ pc = "place"
  /\ current # 0
  /\ CandidateFits
  /\ \E k \in ConflictsAt(requests[current], AlignedCandidate) :
       candidate' = allocations[k].offset
  /\ UNCHANGED <<requests, pc, checked, remaining, current, allocations, plan,
                 status>>

BumpCandidate ==
  /\ pc = "place"
  /\ current # 0
  /\ CandidateFits
  /\ LET conflicts == ConflictsAt(requests[current], AlignedCandidate)
     IN \E k \in conflicts :
          /\ \A l \in conflicts :
               AllocationEnd(allocations[l]) <= AllocationEnd(allocations[k])
          /\ candidate' = AllocationEnd(allocations[k])
  /\ UNCHANGED <<requests, pc, checked, remaining, current, allocations, plan,
                 status>>

OverflowCandidate ==
  /\ pc = "place"
  /\ current # 0
  /\ ~ CandidateFits
  /\ Fail("kDimensionOverflow")

(* The plan is complete when the sorted order is exhausted: its size is    *)
(* the aligned high watermark, which must be representable.                *)
AllocationEnds == {AllocationEnd(allocations[k]) : k \in DOMAIN allocations}

(* Fault: the total only has to be representable as an unsigned word.      *)
SizeFitsUnsigned(high) == ~ AlignOverflows(high, kWorkspaceAlignment)

SizeFits(high) ==
  /\ ~ AlignOverflows(high, kWorkspaceAlignment)
  /\ AlignUp(high, kWorkspaceAlignment) <= IntMax

FinishPlan ==
  /\ pc = "place"
  /\ current = 0
  /\ remaining = {}
  /\ \E high \in {0} \cup AllocationEnds :
       /\ IsMaximum(high, {0} \cup AllocationEnds)
       /\ SizeFits(high)
       /\ plan' = [size        |-> AlignUp(high, kWorkspaceAlignment),
                   allocations |-> allocations]
  /\ pc' = "done"
  /\ status' = "ok"
  /\ UNCHANGED <<requests, checked, remaining, current, candidate,
                 allocations>>

OverflowPlan ==
  /\ pc = "place"
  /\ current = 0
  /\ remaining = {}
  /\ \E high \in {0} \cup AllocationEnds :
       /\ IsMaximum(high, {0} \cup AllocationEnds)
       /\ ~ SizeFits(high)
  /\ Fail("kDimensionOverflow")

Next ==
  \/ ValidateRequest
  \/ RejectRequest
  \/ SortRequests
  \/ TakeRequest
  \/ PlaceRequest
  \/ BumpCandidate
  \/ OverflowCandidate
  \/ FinishPlan
  \/ OverflowPlan

Spec == Init /\ [][Next]_vars

(* The call runs in one thread that is never suspended for ever.           *)
FairSpec == Spec /\ WF_vars(Next)
-----------------------------------------------------------------------------
Allocation == [name: Nat, offset: Nat, size: Nat, alignment: PowersOfTwo,
               start: Nat, end: Nat]

(* Shape of every variable; the remaining indices and the allocations      *)
(* belong to the requests of this call.                                    *)
TypeOK ==
  /\ requests \in Seq(Request)
  /\ pc \in {"validate", "place", "done", "failed"}
  /\ checked \in 0..Len(requests)
  /\ remaining \subseteq DOMAIN requests
  /\ current \in 0..Len(requests)
  /\ candidate \in Nat
  /\ allocations \in Seq(Allocation)
  /\ plan \in [size: Nat, allocations: Seq(Allocation)]
  /\ status \in {"none", "ok", "kInvalidArgument", "kInvalidValue",
                 "kDimensionOverflow"}

(* Two allocations whose closed lifetimes meet never share a byte, at any  *)
(* point of the placement: a kernel may then read one while it writes the  *)
(* other.                                                                  *)
NoLiveOverlap ==
  \A k, l \in DOMAIN allocations :
    (k # l /\ LifetimesOverlap(allocations[k], allocations[l])) =>
      ~ RangesOverlap(
          allocations[k].offset, AllocationEnd(allocations[k]),
          allocations[l].offset, AllocationEnd(allocations[l]))

(* Every planned allocation sits at a multiple of its alignment and inside *)
(* the workspace size that the caller is told to provide, which is itself  *)
(* a representable multiple of 64.                                         *)
PlanInBounds ==
  /\ plan.size % kWorkspaceAlignment = 0
  /\ plan.size <= IntMax
  /\ \A k \in DOMAIN plan.allocations :
       /\ plan.allocations[k].offset % plan.allocations[k].alignment = 0
       /\ AllocationEnd(plan.allocations[k]) <= plan.size

(* When the call succeeds, the plan holds each request exactly once, with  *)
(* the size and lifetime that were asked for, and nothing else.            *)
Places(a, r) == /\ a.name = r.name
                /\ a.size = r.size
                /\ a.alignment = r.alignment
                /\ a.start = r.start
                /\ a.end = r.end

PlanCoversRequests ==
  pc = "done" =>
    /\ \A i \in DOMAIN requests :
         \E k \in DOMAIN plan.allocations :
           Places(plan.allocations[k], requests[i])
    /\ \A k \in DOMAIN plan.allocations :
         \E i \in DOMAIN requests : Places(plan.allocations[k], requests[i])
    /\ \A k, l \in DOMAIN plan.allocations :
         k # l => plan.allocations[k].name # plan.allocations[l].name

(* First fit wastes nothing: every aligned offset below the candidate is   *)
(* occupied by an allocation that lives at the same time, although the     *)
(* inner loop jumps to the largest end of all the ranges it met.           *)
NoLowerFit ==
  current # 0 =>
    \A at \in 0..(candidate - 1) :
      at % requests[current].alignment = 0 =>
        ConflictsAt(requests[current], at) # {}

(* An overflow reported while a request is being placed is never spurious: *)
(* no aligned representable range is free for that request.                *)
OverflowIsGenuine ==
  (pc = "failed" /\ status = "kDimensionOverflow" /\ current # 0) =>
    \A at \in 0..(UIntMax - requests[current].size) :
      at % requests[current].alignment = 0 =>
        ConflictsAt(requests[current], at) # {}

(* The candidate grows at every turn of the inner loop, so each call ends. *)
CallReturns == <>(pc \in {"done", "failed"})
=============================================================================
