---------------------- MODULE WorkspacePlanner_proofs ----------------------
(***************************************************************************)
(* Proofs about plan_workspace, for every list of requests and every word  *)
(* width.                                                                  *)
(***************************************************************************)
EXTENDS WorkspacePlanner, TLAPS

-----------------------------------------------------------------------------
(* The inductive invariant behind the theorems: what each phase of the     *)
(* call has established about the requests and the partial plan.           *)

(* The validation loop has accepted the first `checked` requests.          *)
ValidatedPrefix ==
  \A i \in 1..checked :
    /\ ~ Malformed(requests[i])
    /\ \A j \in 1..(i - 1) : requests[j].name # requests[i].name

PhaseInv ==
  /\ pc \in {"place", "done"} \/ current # 0 => checked = Len(requests)
  /\ pc = "validate" => current = 0 /\ remaining = {} /\ allocations = <<>>
  /\ pc = "done" => current = 0 /\ remaining = {}
  /\ current \notin remaining
  /\ allocations # <<>> => checked = Len(requests)

(* Every allocation is a request that was taken, at an aligned offset.     *)
PlacedInv ==
  \A k \in DOMAIN allocations :
    /\ allocations[k].offset % allocations[k].alignment = 0
    /\ AllocationEnd(allocations[k]) <= UIntMax
    /\ \E i \in DOMAIN requests \ (remaining \cup {current}) :
         Places(allocations[k], requests[i])

DistinctNames ==
  \A k, l \in DOMAIN allocations :
    k # l => allocations[k].name # allocations[l].name

(* Every request that was taken and is not being placed is in the plan.    *)
TakenPlaced ==
  pc \in {"place", "done"} =>
    \A i \in DOMAIN requests \ (remaining \cup {current}) :
      \E k \in DOMAIN allocations : Places(allocations[k], requests[i])

OutputInv ==
  /\ pc # "done" => plan = EmptyPlan
  /\ pc = "done" => plan.allocations = allocations /\ PlanInBounds

OverflowInv ==
  (pc = "failed" /\ current # 0) => ~ CandidateFits

IInv ==
  /\ TypeOK
  /\ ValidatedPrefix
  /\ PhaseInv
  /\ PlacedInv
  /\ DistinctNames
  /\ TakenPlaced
  /\ NoLiveOverlap
  /\ NoLowerFit
  /\ OutputInv
  /\ OverflowInv
-----------------------------------------------------------------------------
USE DEF kWorkspaceAlignment

(* AlignUp rounds to the least multiple of a power of two.                 *)
LEMMA AlignUpProperties ==
  ASSUME NEW value \in Nat, NEW alignment \in PowersOfTwo
  PROVE  /\ AlignUp(value, alignment) \in Nat
         /\ AlignUp(value, alignment) >= value
         /\ AlignUp(value, alignment) % alignment = 0
         /\ \A at \in Nat : at >= value /\ at % alignment = 0 =>
              at >= AlignUp(value, alignment)
<1>1. CASE alignment = 1  BY <1>1 DEF AlignUp
<1>2. CASE alignment = 2  BY <1>2 DEF AlignUp
<1>3. CASE alignment = 4  BY <1>3 DEF AlignUp
<1>4. CASE alignment = 8  BY <1>4 DEF AlignUp
<1>5. CASE alignment = 16 BY <1>5 DEF AlignUp
<1>6. CASE alignment = 32 BY <1>6 DEF AlignUp
<1>7. CASE alignment = 64 BY <1>7 DEF AlignUp
<1>8. QED
  BY <1>1, <1>2, <1>3, <1>4, <1>5, <1>6, <1>7 DEF PowersOfTwo

(* Two multiples of a power of two are equal or that far apart.            *)
LEMMA AlignedGap ==
  ASSUME NEW alignment \in PowersOfTwo, NEW x \in Nat, NEW y \in Nat,
         x % alignment = 0, y % alignment = 0, x + (alignment - 1) >= y
  PROVE  x >= y
<1>1. CASE alignment = 1  BY <1>1
<1>2. CASE alignment = 2  BY <1>2
<1>3. CASE alignment = 4  BY <1>3
<1>4. CASE alignment = 8  BY <1>4
<1>5. CASE alignment = 16 BY <1>5
<1>6. CASE alignment = 32 BY <1>6
<1>7. CASE alignment = 64 BY <1>7
<1>8. QED
  BY <1>1, <1>2, <1>3, <1>4, <1>5, <1>6, <1>7 DEF PowersOfTwo

LEMMA EmptyPlanInBounds == plan = EmptyPlan => PlanInBounds
BY WidthAssumption DEF EmptyPlan, PlanInBounds

(* A validated request is well formed, so it can become an allocation.     *)
LEMMA ValidatedRequest ==
  ASSUME TypeOK, ValidatedPrefix, checked = Len(requests),
         NEW i \in DOMAIN requests
  PROVE  /\ requests[i] \in Request
         /\ requests[i].alignment \in PowersOfTwo
         /\ requests[i].size \in Nat \ {0}
         /\ requests[i].start <= requests[i].end
<1>1. i \in 1..checked /\ requests[i] \in Request
  BY DEF TypeOK
<1>2. ~ Malformed(requests[i])
  BY <1>1 DEF ValidatedPrefix
<1>3. QED
  BY <1>1, <1>2 DEF Malformed, Request

LEMMA InitInv == Init => IInv
<1> SUFFICES ASSUME Init PROVE IInv
  OBVIOUS
<1>1. requests \in Seq(Request)
  BY InputAssumption DEF Init
<1>2. TypeOK
  BY <1>1 DEF Init, PlannerInit, TypeOK, EmptyPlan
<1>3. ValidatedPrefix /\ PhaseInv /\ TakenPlaced
  BY DEF Init, PlannerInit, ValidatedPrefix, PhaseInv, TakenPlaced
<1>4. PlacedInv /\ DistinctNames /\ NoLiveOverlap
  BY DEF Init, PlannerInit, PlacedInv, DistinctNames, NoLiveOverlap
<1>5. NoLowerFit /\ OutputInv /\ OverflowInv
  BY DEF Init, PlannerInit, NoLowerFit, OutputInv, OverflowInv
<1>6. QED
  BY <1>2, <1>3, <1>4, <1>5 DEF IInv

LEMMA ValidateKeepsInv == IInv /\ ValidateRequest => IInv'
<1> SUFFICES ASSUME IInv, ValidateRequest PROVE IInv'
  OBVIOUS
<1> USE DEF IInv
<1>1. TypeOK'
  BY DEF ValidateRequest, TypeOK
<1>2. ValidatedPrefix'
  <2>1. checked' = checked + 1 /\ requests' = requests /\ checked \in Nat
    BY DEF ValidateRequest, TypeOK
  <2>2. /\ ~ Malformed(requests[checked + 1])
        /\ \A j \in 1..checked : requests[j].name # requests[checked + 1].name
    BY <2>1 DEF ValidateRequest, RequestStatus
  <2>3. ASSUME NEW i \in 1..(checked + 1)
        PROVE  /\ ~ Malformed(requests[i])
               /\ \A j \in 1..(i - 1) : requests[j].name # requests[i].name
    <3>1. CASE i \in 1..checked
      BY <3>1 DEF ValidatedPrefix
    <3>2. CASE i = checked + 1
      BY <2>1, <2>2, <3>2
    <3>3. QED
      BY <2>1, <3>1, <3>2
  <2>4. QED
    BY <2>1, <2>3 DEF ValidatedPrefix, Malformed
<1>3. PhaseInv' /\ TakenPlaced'
  BY DEF ValidateRequest, PhaseInv, TakenPlaced, TypeOK
<1>4. PlacedInv' /\ DistinctNames' /\ NoLiveOverlap' /\ NoLowerFit'
  BY DEF ValidateRequest, PhaseInv, PlacedInv, DistinctNames, NoLiveOverlap,
         NoLowerFit
<1>5. OutputInv' /\ OverflowInv'
  BY DEF ValidateRequest, OutputInv, OverflowInv
<1>6. QED
  BY <1>1, <1>2, <1>3, <1>4, <1>5

(* A failing call leaves everything but pc and status alone.               *)
LEMMA FailKeepsInv ==
  ASSUME IInv, pc \in {"validate", "place"},
         NEW code \in {"kInvalidArgument", "kInvalidValue",
                       "kDimensionOverflow"},
         Fail(code), current # 0 => ~ CandidateFits
  PROVE  IInv'
<1> USE DEF IInv, Fail
<1>1. TypeOK'
  BY DEF TypeOK
<1>2. ValidatedPrefix' /\ PhaseInv' /\ TakenPlaced'
  BY DEF ValidatedPrefix, Malformed, PhaseInv, TakenPlaced
<1>3. PlacedInv' /\ DistinctNames' /\ NoLiveOverlap' /\ NoLowerFit'
  BY DEF PlacedInv, DistinctNames, NoLiveOverlap, NoLowerFit, ConflictsAt
<1>4. OutputInv' /\ OverflowInv'
  BY DEF OutputInv, OverflowInv, CandidateFits, AlignedCandidate,
         AlignOverflows
<1>5. QED
  BY <1>1, <1>2, <1>3, <1>4

LEMMA SortKeepsInv == IInv /\ SortRequests => IInv'
<1> SUFFICES ASSUME IInv, SortRequests PROVE IInv'
  OBVIOUS
<1> USE DEF IInv, SortRequests
<1>1. TypeOK'
  BY DEF TypeOK
<1>2. ValidatedPrefix' /\ PhaseInv' /\ TakenPlaced'
  BY DEF ValidatedPrefix, Malformed, PhaseInv, TakenPlaced, TypeOK
<1>3. PlacedInv' /\ DistinctNames' /\ NoLiveOverlap' /\ NoLowerFit'
  BY DEF PhaseInv, PlacedInv, DistinctNames, NoLiveOverlap, NoLowerFit
<1>4. OutputInv' /\ OverflowInv'
  BY DEF OutputInv, OverflowInv
<1>5. QED
  BY <1>1, <1>2, <1>3, <1>4

LEMMA TakeKeepsInv == IInv /\ TakeRequest => IInv'
<1> SUFFICES ASSUME IInv, TakeRequest PROVE IInv'
  OBVIOUS
<1> USE DEF IInv
<1>1. PICK i \in remaining :
        /\ current' = i
        /\ remaining' = remaining \ {i}
  BY DEF TakeRequest
<1>2. /\ pc = "place" /\ current = 0 /\ candidate' = 0
      /\ UNCHANGED <<requests, pc, checked, allocations, plan, status>>
  BY DEF TakeRequest
<1>3. i \in DOMAIN requests /\ i \in 1..Len(requests)
  BY <1>1 DEF TypeOK
<1>4. TypeOK'
  BY <1>1, <1>2, <1>3 DEF TypeOK
<1>5. ValidatedPrefix' /\ PhaseInv'
  BY <1>1, <1>2, <1>3 DEF ValidatedPrefix, Malformed, PhaseInv
<1>6. TakenPlaced' /\ PlacedInv'
  <2>1. DOMAIN requests \ (remaining' \cup {current'}) =
        DOMAIN requests \ (remaining \cup {current})
    BY <1>1, <1>2, <1>3
  <2>2. QED
    BY <1>2, <2>1 DEF TakenPlaced, PlacedInv, Places, AllocationEnd
<1>7. DistinctNames' /\ NoLiveOverlap' /\ NoLowerFit'
  BY <1>2 DEF DistinctNames, NoLiveOverlap, NoLowerFit
<1>8. OutputInv' /\ OverflowInv'
  BY <1>2 DEF OutputInv, OverflowInv
<1>9. QED
  BY <1>4, <1>5, <1>6, <1>7, <1>8

LEMMA PlaceKeepsInv == IInv /\ PlaceRequest => IInv'
<1> SUFFICES ASSUME IInv, PlaceRequest PROVE IInv'
  OBVIOUS
<1> USE DEF IInv
<1> DEFINE r == requests[current]
           new == [name |-> r.name, offset |-> AlignedCandidate,
                   size |-> r.size, alignment |-> r.alignment,
                   start |-> r.start, end |-> r.end]
           n == Len(allocations)
<1>1. /\ pc = "place" /\ current # 0
      /\ CandidateFits
      /\ ConflictsAt(r, AlignedCandidate) = {}
      /\ allocations' = Append(allocations, new)
      /\ current' = 0
      /\ UNCHANGED <<requests, pc, checked, remaining, candidate, plan,
                     status>>
  BY DEF PlaceRequest
<1>2. /\ current \in DOMAIN requests
      /\ checked = Len(requests)
      /\ current \notin remaining
  BY <1>1 DEF TypeOK, PhaseInv
<1>3. /\ r \in Request
      /\ r.alignment \in PowersOfTwo
      /\ r.size \in Nat \ {0}
      /\ r.start <= r.end
  BY <1>2, ValidatedRequest
<1>4. candidate \in Nat
  BY DEF TypeOK
<1>5. /\ AlignedCandidate \in Nat
      /\ AlignedCandidate >= candidate
      /\ AlignedCandidate % r.alignment = 0
  BY <1>3, <1>4, AlignUpProperties DEF AlignedCandidate
<1>6. new \in Allocation
  BY <1>3, <1>5 DEF Allocation, Request
<1>7. allocations \in Seq(Allocation) /\ n \in Nat
  BY DEF TypeOK
<1>8. /\ allocations' \in Seq(Allocation)
      /\ Len(allocations') = n + 1
      /\ DOMAIN allocations' = 1..(n + 1)
      /\ \A k \in 1..n : allocations'[k] = allocations[k]
      /\ allocations'[n + 1] = new
  BY <1>1, <1>6, <1>7
<1>9. DOMAIN allocations = 1..n
  BY <1>7
<1> HIDE DEF n, new
<1>10. TypeOK'
  BY <1>1, <1>8 DEF TypeOK
<1>11. ValidatedPrefix' /\ PhaseInv'
  <2>1. 0 \notin remaining
    BY DEF TypeOK
  <2>2. QED
    BY <1>1, <1>2, <2>1 DEF ValidatedPrefix, Malformed, PhaseInv
<1>12. DOMAIN requests' \ (remaining' \cup {current'}) =
       (DOMAIN requests \ (remaining \cup {current})) \cup {current}
  BY <1>1, <1>2 DEF TypeOK
<1>13. Places(new, r)
  BY DEF Places, new
<1>14. PlacedInv'
  <2>1. ASSUME NEW k \in 1..n
        PROVE  /\ allocations'[k].offset % allocations'[k].alignment = 0
               /\ AllocationEnd(allocations'[k]) <= UIntMax
               /\ \E i \in DOMAIN requests' \ (remaining' \cup {current'}) :
                    Places(allocations'[k], requests'[i])
    BY <1>1, <1>8, <1>9, <1>12, <2>1 DEF PlacedInv
  <2>2. /\ new.offset % new.alignment = 0
        /\ AllocationEnd(new) <= UIntMax
    BY <1>1, <1>5 DEF new, AllocationEnd, CandidateFits
  <2>3. \E i \in DOMAIN requests' \ (remaining' \cup {current'}) :
          Places(new, requests'[i])
    BY <1>1, <1>12, <1>13
  <2>4. ASSUME NEW k \in DOMAIN allocations'
        PROVE  /\ allocations'[k].offset % allocations'[k].alignment = 0
               /\ AllocationEnd(allocations'[k]) <= UIntMax
               /\ \E i \in DOMAIN requests' \ (remaining' \cup {current'}) :
                    Places(allocations'[k], requests'[i])
    <3>1. CASE k \in 1..n BY <2>1, <3>1
    <3>2. CASE k = n + 1 BY <1>8, <2>2, <2>3, <3>2
    <3>3. QED BY <1>7, <1>8, <3>1, <3>2
  <2>5. QED
    BY <2>4 DEF PlacedInv, AllocationEnd
<1>15. DistinctNames'
  <2>1. ASSUME NEW k \in 1..n PROVE allocations[k].name # new.name
    <3>1. PICK i \in DOMAIN requests \ (remaining \cup {current}) :
            Places(allocations[k], requests[i])
      BY <1>9, <2>1 DEF PlacedInv
    <3>2. requests[i].name # requests[current].name
      <4>1. /\ i \in 1..checked /\ current \in 1..checked /\ i # current
            /\ checked \in Nat
        BY <1>2, <3>1 DEF TypeOK
      <4>2. CASE i < current
        <5>1. i \in 1..(current - 1) BY <4>1, <4>2
        <5>2. QED BY <4>1, <5>1 DEF ValidatedPrefix
      <4>3. CASE current < i
        <5>1. current \in 1..(i - 1) BY <4>1, <4>3
        <5>2. QED BY <4>1, <5>1 DEF ValidatedPrefix
      <4>4. QED BY <4>1, <4>2, <4>3
    <3>3. QED
      BY <3>1, <3>2 DEF Places, new
  <2>2. QED
    BY <1>7, <1>8, <1>9, <2>1 DEF DistinctNames
<1>16. TakenPlaced'
  <2>1. ASSUME NEW i \in (DOMAIN requests \ (remaining \cup {current}))
                           \cup {current}
        PROVE  \E k \in 1..(n + 1) : Places(allocations'[k], requests[i])
    <3>1. CASE i = current
      BY <1>7, <1>8, <1>13, <3>1
    <3>2. CASE i # current
      <4>1. PICK k \in 1..n : Places(allocations[k], requests[i])
        BY <1>1, <1>9, <2>1, <3>2 DEF TakenPlaced
      <4>2. QED
        BY <1>7, <1>8, <4>1
    <3>3. QED
      BY <3>1, <3>2
  <2>2. QED
    BY <1>1, <1>8, <1>12, <2>1 DEF TakenPlaced, Places
<1>17. NoLiveOverlap'
  <2>1. ASSUME NEW k \in 1..n, LifetimesOverlap(allocations[k], new)
        PROVE  ~ RangesOverlap(new.offset, AllocationEnd(new),
                               allocations[k].offset,
                               AllocationEnd(allocations[k]))
    <3>1. LifetimesOverlap(allocations[k], r)
      BY <2>1 DEF LifetimesOverlap, new
    <3>2. k \notin ConflictsAt(r, AlignedCandidate) /\ k \in DOMAIN allocations
      BY <1>1, <1>9
    <3>3. ~ RangesOverlap(AlignedCandidate, AlignedCandidate + r.size,
                          allocations[k].offset,
                          AllocationEnd(allocations[k]))
      BY <3>1, <3>2 DEF ConflictsAt
    <3>4. QED
      BY <3>3 DEF new, AllocationEnd
  <2>2. ASSUME NEW k \in 1..(n + 1), NEW l \in 1..(n + 1), k # l,
               LifetimesOverlap(allocations'[k], allocations'[l])
        PROVE  ~ RangesOverlap(
                   allocations'[k].offset, AllocationEnd(allocations'[k]),
                   allocations'[l].offset, AllocationEnd(allocations'[l]))
    <3>1. CASE k \in 1..n /\ l \in 1..n
      BY <1>8, <1>9, <2>2, <3>1 DEF NoLiveOverlap
    <3>2. CASE k \in 1..n /\ l = n + 1
      BY <1>8, <2>1, <2>2, <3>2 DEF RangesOverlap
    <3>3. CASE k = n + 1 /\ l \in 1..n
      BY <1>8, <2>1, <2>2, <3>3 DEF LifetimesOverlap
    <3>4. QED
      BY <1>7, <2>2, <3>1, <3>2, <3>3
  <2>3. QED
    BY <1>8, <2>2 DEF NoLiveOverlap, LifetimesOverlap, RangesOverlap,
                      AllocationEnd
<1>18. NoLowerFit' /\ OutputInv' /\ OverflowInv'
  BY <1>1 DEF NoLowerFit, OutputInv, OverflowInv
<1>19. QED
  BY <1>10, <1>11, <1>14, <1>15, <1>16, <1>17, <1>18

(* Bumping keeps first fit: an aligned offset below the new candidate is   *)
(* below the old one, or it overlaps the conflict with the largest end.    *)
LEMMA BumpKeepsInv == IInv /\ BumpCandidate => IInv'
<1> SUFFICES ASSUME IInv, BumpCandidate PROVE IInv'
  OBVIOUS
<1> USE DEF IInv
<1> DEFINE r == requests[current]
           conflicts == ConflictsAt(r, AlignedCandidate)
<1>1. PICK k \in conflicts : candidate' = AllocationEnd(allocations[k])
  BY DEF BumpCandidate
<1>2. /\ pc = "place" /\ current # 0
      /\ UNCHANGED <<requests, pc, checked, remaining, current, allocations,
                     plan, status>>
  BY DEF BumpCandidate
<1>3. /\ current \in DOMAIN requests
      /\ checked = Len(requests)
  BY <1>2 DEF TypeOK, PhaseInv
<1>4. /\ r.alignment \in PowersOfTwo
      /\ r.size \in Nat \ {0}
  BY <1>3, ValidatedRequest
<1>5. /\ candidate \in Nat
      /\ k \in DOMAIN allocations
      /\ allocations[k] \in Allocation
  BY <1>1 DEF TypeOK, ConflictsAt
<1>6. /\ allocations[k].offset \in Nat
      /\ AllocationEnd(allocations[k]) \in Nat
  BY <1>5 DEF Allocation, AllocationEnd
<1>7. TypeOK'
  BY <1>1, <1>2, <1>6 DEF TypeOK
<1>8. ValidatedPrefix' /\ PhaseInv' /\ TakenPlaced'
  BY <1>2 DEF ValidatedPrefix, Malformed, PhaseInv, TakenPlaced, Places
<1>9. PlacedInv' /\ DistinctNames' /\ NoLiveOverlap'
  BY <1>2 DEF PlacedInv, DistinctNames, NoLiveOverlap, Places,
              AllocationEnd, LifetimesOverlap, RangesOverlap
<1>10. NoLowerFit'
  <2>1. ASSUME NEW at \in 0..(candidate' - 1), at % r.alignment = 0
        PROVE  ConflictsAt(r, at) # {}
    <3>1. at \in Nat /\ at < AllocationEnd(allocations[k])
      BY <1>1, <1>6, <2>1
    <3>2. CASE at < candidate
      BY <1>2, <1>5, <2>1, <3>1, <3>2 DEF NoLowerFit
    <3>3. CASE at >= candidate
      <4>1. /\ AlignedCandidate \in Nat
            /\ at >= AlignedCandidate
        BY <1>4, <1>5, <2>1, <3>1, <3>3, AlignUpProperties
        DEF AlignedCandidate
      <4>2. /\ LifetimesOverlap(allocations[k], r)
            /\ allocations[k].offset < AlignedCandidate + r.size
        BY <1>1 DEF ConflictsAt, RangesOverlap
      <4>3. allocations[k].offset < at + r.size
        BY <1>4, <1>6, <3>1, <4>1, <4>2
      <4>4. k \in ConflictsAt(r, at)
        BY <1>5, <3>1, <4>2, <4>3 DEF ConflictsAt, RangesOverlap
      <4>5. QED
        BY <4>4
    <3>4. QED
      BY <1>5, <3>1, <3>2, <3>3
  <2>2. \A at \in 0..(candidate' - 1) :
          at % r.alignment = 0 => ConflictsAt(r, at)' # {}
    <3>1. ASSUME NEW at PROVE ConflictsAt(r, at)' = ConflictsAt(r, at)
      BY <1>2 DEF ConflictsAt, LifetimesOverlap, RangesOverlap,
                  AllocationEnd
    <3>2. QED
      BY <2>1, <3>1
  <2>3. QED
    BY <1>2, <2>2 DEF NoLowerFit
<1>11. OutputInv' /\ OverflowInv'
  BY <1>2 DEF OutputInv, OverflowInv
<1>12. QED
  BY <1>7, <1>8, <1>9, <1>10, <1>11

LEMMA FinishKeepsInv == IInv /\ FinishPlan => IInv'
<1> SUFFICES ASSUME IInv, FinishPlan PROVE IInv'
  OBVIOUS
<1> USE DEF IInv
<1>1. PICK high \in {0} \cup AllocationEnds :
        /\ IsMaximum(high, {0} \cup AllocationEnds)
        /\ SizeFits(high)
        /\ plan' = [size        |-> AlignUp(high, kWorkspaceAlignment),
                    allocations |-> allocations]
  BY DEF FinishPlan
<1>2. /\ pc = "place" /\ current = 0 /\ remaining = {}
      /\ pc' = "done" /\ status' = "ok"
      /\ UNCHANGED <<requests, checked, remaining, current, candidate,
                     allocations>>
  BY DEF FinishPlan
<1>3. allocations \in Seq(Allocation)
  BY DEF TypeOK
<1>4. \A k \in DOMAIN allocations :
        /\ AllocationEnd(allocations[k]) \in Nat
        /\ AllocationEnd(allocations[k]) \in AllocationEnds
  <2>1. \A k \in DOMAIN allocations : allocations[k] \in Allocation
    BY <1>3
  <2>2. QED
    BY <2>1 DEF Allocation, AllocationEnd, AllocationEnds
<1>5. high \in Nat
  BY <1>1, <1>4 DEF AllocationEnds
<1>6. 64 \in PowersOfTwo
  BY DEF PowersOfTwo
<1>7. /\ AlignUp(high, 64) \in Nat
      /\ AlignUp(high, 64) >= high
      /\ AlignUp(high, 64) % 64 = 0
  BY <1>5, <1>6, AlignUpProperties
<1>8. TypeOK'
  BY <1>1, <1>2, <1>7 DEF TypeOK
<1>9. ValidatedPrefix' /\ PhaseInv' /\ TakenPlaced'
  BY <1>2 DEF ValidatedPrefix, Malformed, PhaseInv, TakenPlaced
<1>10. PlacedInv' /\ DistinctNames' /\ NoLiveOverlap' /\ NoLowerFit'
  BY <1>2 DEF PlacedInv, DistinctNames, NoLiveOverlap, NoLowerFit
<1>11. OutputInv'
  <2>1. \A k \in DOMAIN allocations :
          /\ allocations[k].offset % allocations[k].alignment = 0
          /\ AllocationEnd(allocations[k]) <= AlignUp(high, 64)
    BY <1>1, <1>4, <1>5, <1>7 DEF PlacedInv, IsMaximum
  <2>2. AlignUp(high, 64) <= IntMax
    BY <1>1 DEF SizeFits
  <2>3. PlanInBounds'
    BY <1>1, <1>7, <2>1, <2>2 DEF PlanInBounds, AllocationEnd
  <2>4. QED
    BY <1>1, <1>2, <2>3 DEF OutputInv
<1>12. OverflowInv'
  BY <1>2 DEF OverflowInv
<1>13. QED
  BY <1>8, <1>9, <1>10, <1>11, <1>12

LEMMA NextKeepsInv == IInv /\ [Next]_vars => IInv'
<1> SUFFICES ASSUME IInv, [Next]_vars PROVE IInv'
  OBVIOUS
<1>1. CASE ValidateRequest   BY <1>1, ValidateKeepsInv
<1>2. CASE RejectRequest
  <2>1. current = 0
    BY <1>2 DEF RejectRequest, IInv, PhaseInv
  <2>2. /\ pc = "validate"
        /\ Fail(RequestStatus(checked + 1))
        /\ RequestStatus(checked + 1) \in {"kInvalidArgument",
                                           "kInvalidValue"}
    BY <1>2 DEF RejectRequest, RequestStatus
  <2>3. QED
    BY <2>1, <2>2, FailKeepsInv
<1>3. CASE SortRequests      BY <1>3, SortKeepsInv
<1>4. CASE TakeRequest       BY <1>4, TakeKeepsInv
<1>5. CASE PlaceRequest      BY <1>5, PlaceKeepsInv
<1>6. CASE BumpCandidate     BY <1>6, BumpKeepsInv
<1>7. CASE OverflowCandidate BY <1>7, FailKeepsInv DEF OverflowCandidate
<1>8. CASE FinishPlan        BY <1>8, FinishKeepsInv
<1>9. CASE OverflowPlan      BY <1>9, FailKeepsInv DEF OverflowPlan
<1>10. CASE UNCHANGED vars
  <2> USE <1>10 DEF IInv, vars
  <2>1. TypeOK' /\ ValidatedPrefix' /\ PhaseInv' /\ TakenPlaced'
    BY DEF TypeOK, ValidatedPrefix, Malformed, PhaseInv, TakenPlaced
  <2>2. PlacedInv' /\ DistinctNames' /\ NoLiveOverlap' /\ NoLowerFit'
    BY DEF PlacedInv, DistinctNames, NoLiveOverlap, NoLowerFit, ConflictsAt
  <2>3. OutputInv' /\ OverflowInv'
    BY DEF OutputInv, OverflowInv, PlanInBounds, CandidateFits,
           AlignedCandidate
  <2>4. QED
    BY <2>1, <2>2, <2>3
<1>11. QED
  BY <1>1, <1>2, <1>3, <1>4, <1>5, <1>6, <1>7, <1>8, <1>9, <1>10 DEF Next

LEMMA Invariance == Spec => []IInv
BY InitInv, NextKeepsInv, PTL DEF Spec

-----------------------------------------------------------------------------
(* plan_workspace keeps every variable well formed: in particular no       *)
(* offset ever becomes negative and no allocation is built from a request  *)
(* that validation did not accept.                                         *)
THEOREM TypeCorrect == Spec => []TypeOK
BY Invariance, PTL DEF IInv

(* Whatever the requests, two allocations whose lifetimes meet are         *)
(* disjoint in the workspace.                                              *)
THEOREM LiveAllocationsDisjoint == Spec => []NoLiveOverlap
BY Invariance, PTL DEF IInv

(* Whatever the requests, the published plan keeps each allocation aligned *)
(* and inside a size that is a multiple of 64 and fits int64_t.            *)
THEOREM PlanWithinBounds == Spec => []PlanInBounds
<1>1. IInv => PlanInBounds
  BY EmptyPlanInBounds DEF IInv, OutputInv
<1>2. QED
  BY <1>1, Invariance, PTL

(* A successful call has placed each request once and nothing else.        *)
THEOREM PlanComplete == Spec => []PlanCoversRequests
<1>1. IInv => PlanCoversRequests
  <2> SUFFICES ASSUME IInv, pc = "done" PROVE PlanCoversRequests
    BY DEF PlanCoversRequests
  <2>1. /\ plan.allocations = allocations
        /\ current = 0 /\ remaining = {}
        /\ requests \in Seq(Request)
    BY DEF IInv, OutputInv, PhaseInv, TypeOK
  <2>2. DOMAIN requests \ (remaining \cup {current}) = DOMAIN requests
    <3>1. DOMAIN requests = 1..Len(requests) /\ Len(requests) \in Nat
      BY <2>1
    <3>2. 0 \notin DOMAIN requests
      BY <3>1
    <3>3. QED
      BY <2>1, <3>2
  <2>3. QED
    BY <2>1, <2>2 DEF IInv, TakenPlaced, PlacedInv, DistinctNames,
                      PlanCoversRequests
<1>2. QED
  BY <1>1, Invariance, PTL

(* The inner loop never skips a free aligned offset.                       *)
THEOREM FirstFit == Spec => []NoLowerFit
BY Invariance, PTL DEF IInv

(* kDimensionOverflow during placement means that no representable aligned *)
(* range was free.                                                         *)
THEOREM OverflowGenuine == Spec => []OverflowIsGenuine
<1>1. IInv => OverflowIsGenuine
  <2> SUFFICES ASSUME IInv, pc = "failed", current # 0,
                      NEW at \in 0..(UIntMax - requests[current].size),
                      at % requests[current].alignment = 0
               PROVE  ConflictsAt(requests[current], at) # {}
    BY DEF OverflowIsGenuine
  <2> DEFINE r == requests[current]
             a == r.alignment
  <2>1. /\ r.alignment \in PowersOfTwo
        /\ r.size \in Nat \ {0}
    <3>1. current \in DOMAIN requests /\ checked = Len(requests)
      BY DEF IInv, TypeOK, PhaseInv
    <3>2. QED
      BY <3>1, ValidatedRequest DEF IInv
  <2>2. candidate \in Nat /\ UIntMax \in Nat /\ at \in Nat
        /\ at + r.size <= UIntMax
    BY <2>1, WidthAssumption DEF IInv, TypeOK
  <2>3. ~ CandidateFits
    BY DEF IInv, OverflowInv
  <2>4. /\ AlignedCandidate \in Nat
        /\ AlignedCandidate >= candidate
        /\ AlignedCandidate % a = 0
        /\ at >= candidate => at >= AlignedCandidate
    BY <2>1, <2>2, AlignUpProperties DEF AlignedCandidate
  <2>5. at < candidate
    <3>1. SUFFICES ASSUME at >= candidate PROVE FALSE
      BY <2>2
    <3>2. AlignedCandidate + r.size <= UIntMax
      BY <2>1, <2>2, <2>4, <3>1
    <3>3. candidate + (a - 1) > UIntMax
      BY <2>3, <3>2 DEF CandidateFits, AlignOverflows
    <3>4. (UIntMax + 1) % a = 0 /\ a \in Nat \ {0}
      <4>1. (UIntMax + 1) % 64 = 0 /\ UIntMax \in Nat
        BY WidthAssumption
      <4> HIDE DEF a
      <4>2. ASSUME a = 1 PROVE (UIntMax + 1) % a = 0 BY <4>1, <4>2
      <4>3. ASSUME a = 2 PROVE (UIntMax + 1) % a = 0 BY <4>1, <4>3
      <4>4. ASSUME a = 4 PROVE (UIntMax + 1) % a = 0 BY <4>1, <4>4
      <4>5. ASSUME a = 8 PROVE (UIntMax + 1) % a = 0 BY <4>1, <4>5
      <4>6. ASSUME a = 16 PROVE (UIntMax + 1) % a = 0 BY <4>1, <4>6
      <4>7. ASSUME a = 32 PROVE (UIntMax + 1) % a = 0 BY <4>1, <4>7
      <4>8. a \in PowersOfTwo BY <2>1 DEF a
      <4>9. QED
        BY <4>1, <4>2, <4>3, <4>4, <4>5, <4>6, <4>7, <4>8 DEF PowersOfTwo
    <3>5. AlignedCandidate >= UIntMax + 1
      <4>1. UIntMax + 1 \in Nat
        BY <2>2
      <4>2. AlignedCandidate + (a - 1) >= UIntMax + 1
        BY <2>2, <2>4, <3>3, <3>4
      <4> HIDE DEF a
      <4>3. a \in PowersOfTwo
        BY <2>1 DEF a
      <4>4. QED
        BY <2>4, <3>4, <4>1, <4>2, <4>3, AlignedGap
    <3>6. QED
      BY <2>1, <2>2, <2>4, <3>2, <3>5
  <2>6. QED
    BY <2>2, <2>5 DEF IInv, NoLowerFit
<1>2. QED
  BY <1>1, Invariance, PTL
-----------------------------------------------------------------------------
(* The plan is determined by its requests: it lists them in the sorted     *)
(* order, and each is at the lowest offset the earlier ones leave it.      *)
InOrder ==
  /\ \A k, l \in DOMAIN allocations :
       k < l => Precedes(allocations[k], allocations[l])
  /\ \A k \in DOMAIN allocations, j \in remaining :
       Precedes(allocations[k], requests[j])
  /\ current # 0 =>
       /\ \A k \in DOMAIN allocations :
            Precedes(allocations[k], requests[current])
       /\ \A j \in remaining : Precedes(requests[current], requests[j])

(* An earlier allocation occupies the offset `at` while a lives.           *)
Occupied(list, k, at) ==
  \E l \in 1..(k - 1) :
    /\ LifetimesOverlap(list[l], list[k])
    /\ RangesOverlap(at, at + list[k].size,
                     list[l].offset, AllocationEnd(list[l]))

PlacedLowest(list) ==
  \A k \in DOMAIN list : \A at \in 0..(list[k].offset - 1) :
    at % list[k].alignment = 0 => Occupied(list, k, at)

Ends(list) == {AllocationEnd(list[k]) : k \in DOMAIN list}

SizedFor(p) ==
  \E high \in {0} \cup Ends(p.allocations) :
    /\ IsMaximum(high, {0} \cup Ends(p.allocations))
    /\ SizeFits(high)
    /\ p.size = AlignUp(high, kWorkspaceAlignment)

CanonicalInv ==
  /\ IInv
  /\ InOrder
  /\ PlacedLowest(allocations)
  /\ pc = "done" => SizedFor(plan)

(* Steps that leave the allocations and their order alone.                 *)
LEMMA SameAllocations ==
  ASSUME CanonicalInv, IInv',
         UNCHANGED <<requests, remaining, current, allocations>>,
         pc' # "done" \/ UNCHANGED <<pc, plan>>
  PROVE  CanonicalInv'
<1>1. InOrder'
  BY DEF CanonicalInv, InOrder
<1>2. PlacedLowest(allocations)'
  BY DEF CanonicalInv
<1>3. (pc = "done" => SizedFor(plan))'
  BY DEF CanonicalInv
<1> QED
  BY <1>1, <1>2, <1>3 DEF CanonicalInv

LEMMA TakeInOrder ==
  ASSUME CanonicalInv, TakeRequest, IInv'
  PROVE  CanonicalInv'
<1>1. PICK i \in remaining :
        /\ \A j \in remaining \ {i} : Precedes(requests[i], requests[j])
        /\ current' = i
        /\ remaining' = remaining \ {i}
  BY DEF TakeRequest
<1>2. /\ pc = "place"
      /\ UNCHANGED <<requests, pc, allocations, plan>>
  BY DEF TakeRequest
<1>3. InOrder'
  BY <1>1, <1>2 DEF CanonicalInv, InOrder
<1> QED
  BY <1>2, <1>3 DEF CanonicalInv

LEMMA PlaceInOrder ==
  ASSUME CanonicalInv, PlaceRequest, IInv'
  PROVE  CanonicalInv'
<1> DEFINE r == requests[current]
           new == [name |-> r.name, offset |-> AlignedCandidate,
                   size |-> r.size, alignment |-> r.alignment,
                   start |-> r.start, end |-> r.end]
           n == Len(allocations)
<1>1. /\ pc = "place" /\ current # 0
      /\ ConflictsAt(r, AlignedCandidate) = {}
      /\ allocations' = Append(allocations, new)
      /\ current' = 0
      /\ UNCHANGED <<requests, pc, remaining, candidate, plan>>
  BY DEF PlaceRequest
<1>2. /\ allocations \in Seq(Allocation) /\ n \in Nat
      /\ DOMAIN allocations = 1..n
      /\ DOMAIN allocations' = 1..(n + 1)
      /\ \A k \in 1..n : allocations'[k] = allocations[k]
      /\ allocations'[n + 1] = new
  BY <1>1 DEF CanonicalInv, IInv, TypeOK
<1>3. /\ new.name = r.name /\ new.offset = AlignedCandidate
      /\ new.size = r.size /\ new.alignment = r.alignment
      /\ new.start = r.start /\ new.end = r.end
  OBVIOUS
<1>4. current \in DOMAIN requests /\ checked = Len(requests)
  BY <1>1 DEF CanonicalInv, IInv, TypeOK, PhaseInv
<1>5. /\ r.alignment \in PowersOfTwo
      /\ candidate \in Nat
  BY <1>4, ValidatedRequest DEF CanonicalInv, IInv, TypeOK
<1> HIDE DEF n, new, r
<1>6. InOrder'
  <2>1. \A k \in 1..n : Precedes(allocations[k], new)
    BY <1>1, <1>2, <1>3 DEF CanonicalInv, InOrder, Precedes, r
  <2>2. \A j \in remaining : Precedes(new, requests[j])
    BY <1>1, <1>3 DEF CanonicalInv, InOrder, Precedes, r
  <2>3. \A k, l \in 1..(n + 1) :
          k < l => Precedes(allocations'[k], allocations'[l])
    <3> SUFFICES ASSUME NEW k \in 1..(n + 1), NEW l \in 1..(n + 1), k < l
                 PROVE  Precedes(allocations'[k], allocations'[l])
      OBVIOUS
    <3>1. k \in 1..n
      BY <1>2
    <3>2. CASE l \in 1..n
      BY <1>2, <3>1, <3>2 DEF CanonicalInv, InOrder
    <3>3. CASE l = n + 1
      BY <1>2, <2>1, <3>1, <3>3
    <3> QED
      BY <1>2, <3>2, <3>3
  <2>4. \A k \in 1..(n + 1), j \in remaining :
          Precedes(allocations'[k], requests[j])
    <3> SUFFICES ASSUME NEW k \in 1..(n + 1), NEW j \in remaining
                 PROVE  Precedes(allocations'[k], requests[j])
      OBVIOUS
    <3>1. CASE k \in 1..n
      BY <1>2, <3>1 DEF CanonicalInv, InOrder
    <3>2. CASE k = n + 1
      BY <1>2, <2>2, <3>2
    <3> QED
      BY <1>2, <3>1, <3>2
  <2> QED
    BY <1>1, <1>2, <2>3, <2>4 DEF InOrder, Precedes
<1>7. PlacedLowest(allocations')
  <2>1. ASSUME NEW k \in 1..n, NEW at \in 0..(allocations'[k].offset - 1),
               at % allocations'[k].alignment = 0
        PROVE  Occupied(allocations', k, at)
    <3>1. Occupied(allocations, k, at)
      BY <1>2, <2>1 DEF CanonicalInv, PlacedLowest
    <3>2. \A l \in 1..(k - 1) : l \in 1..n
      BY <1>2
    <3> QED
      BY <1>2, <3>1, <3>2 DEF Occupied
  <2>2. ASSUME NEW at \in 0..(AlignedCandidate - 1), at % r.alignment = 0
        PROVE  Occupied(allocations', n + 1, at)
    <3>1. at < candidate
      BY <1>5, <2>2, AlignUpProperties DEF AlignedCandidate, r
    <3>2. PICK l \in ConflictsAt(r, at) : TRUE
      BY <1>1, <1>5, <2>2, <3>1 DEF CanonicalInv, IInv, NoLowerFit, r
    <3>3. /\ l \in 1..n
          /\ LifetimesOverlap(allocations[l], r)
          /\ RangesOverlap(at, at + r.size, allocations[l].offset,
                           AllocationEnd(allocations[l]))
      BY <1>2, <3>2 DEF ConflictsAt
    <3>4. /\ LifetimesOverlap(allocations'[l], allocations'[n + 1])
          /\ RangesOverlap(at, at + allocations'[n + 1].size,
                           allocations'[l].offset,
                           AllocationEnd(allocations'[l]))
      BY <1>2, <1>3, <3>3 DEF LifetimesOverlap
    <3>5. l \in 1..((n + 1) - 1)
      BY <1>2, <3>3
    <3> QED
      BY <3>4, <3>5 DEF Occupied
  <2> SUFFICES ASSUME NEW k \in 1..(n + 1),
                      NEW at \in 0..(allocations'[k].offset - 1),
                      at % allocations'[k].alignment = 0
               PROVE  Occupied(allocations', k, at)
    BY <1>2 DEF PlacedLowest
  <2>3. CASE k \in 1..n
    BY <2>1, <2>3
  <2>4. CASE k = n + 1
    BY <1>2, <1>3, <2>2, <2>4
  <2> QED
    BY <1>2, <2>3, <2>4
<1>8. PlacedLowest(allocations)'
  BY <1>7 DEF PlacedLowest, Occupied, LifetimesOverlap, RangesOverlap,
              AllocationEnd
<1> QED
  BY <1>1, <1>6, <1>8 DEF CanonicalInv

LEMMA FinishInOrder ==
  ASSUME CanonicalInv, FinishPlan, IInv'
  PROVE  CanonicalInv'
<1>1. /\ UNCHANGED <<requests, remaining, current, allocations>>
      /\ \E high \in {0} \cup AllocationEnds :
           /\ IsMaximum(high, {0} \cup AllocationEnds)
           /\ SizeFits(high)
           /\ plan' = [size        |-> AlignUp(high, kWorkspaceAlignment),
                       allocations |-> allocations]
  BY DEF FinishPlan
<1>2. SizedFor(plan')
  BY <1>1 DEF SizedFor, AllocationEnds, Ends
<1>3. SizedFor(plan)'
  BY <1>2 DEF SizedFor, Ends, AllocationEnd, IsMaximum, SizeFits, AlignUp,
              AlignOverflows
<1> QED
  BY <1>1, <1>3 DEF CanonicalInv, InOrder

LEMMA StepKeepsCanonical ==
  ASSUME CanonicalInv, [Next]_vars
  PROVE  CanonicalInv'
<1>1. IInv'
  BY NextKeepsInv DEF CanonicalInv
<1>2. CASE SortRequests
  <2>1. /\ allocations = <<>> /\ current = 0
        /\ allocations' = <<>> /\ current' = 0 /\ pc' = "place"
    BY <1>2 DEF SortRequests, CanonicalInv, IInv, PhaseInv
  <2> QED
    BY <1>1, <2>1 DEF CanonicalInv, InOrder, PlacedLowest
<1>3. CASE TakeRequest
  BY <1>1, <1>3, TakeInOrder
<1>4. CASE PlaceRequest
  BY <1>1, <1>4, PlaceInOrder
<1>5. CASE FinishPlan
  BY <1>1, <1>5, FinishInOrder
<1>6. CASE ValidateRequest \/ RejectRequest \/ BumpCandidate
           \/ OverflowCandidate \/ OverflowPlan \/ UNCHANGED vars
  BY <1>1, <1>6, SameAllocations
     DEF ValidateRequest, RejectRequest, BumpCandidate, OverflowCandidate,
         OverflowPlan, Fail, vars
<1> QED
  BY <1>2, <1>3, <1>4, <1>5, <1>6 DEF Next
=============================================================================
