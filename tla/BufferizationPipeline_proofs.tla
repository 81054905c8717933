--------------------- MODULE BufferizationPipeline_proofs ---------------------
(***************************************************************************)
(* What bufferize_and_plan_conv2d hands to the caller, for every function  *)
(* body and all word widths: the invariant of the planner, taken through   *)
(* both of its uses.                                                       *)
(***************************************************************************)
EXTENDS BufferizationPipeline, FiniteSetTheorems, WellFoundedInduction, TLAPS

Planning == INSTANCE WorkspacePlanner_proofs WITH Inputs <- {}

(* The steps of the planner the model composes are those proved about.     *)
LEMMA SamePlanner == [Planner!Next]_plannerVars => [Planning!Next]_Planning!vars
<1>1. Planner!ValidateRequest => Planning!ValidateRequest
  BY DEF Planner!ValidateRequest, Planner!RequestStatus, Planner!Malformed,
         Planner!PowersOfTwo, Planning!ValidateRequest,
         Planning!RequestStatus, Planning!Malformed, Planning!PowersOfTwo
<1>2. Planner!RejectRequest => Planning!RejectRequest
  BY DEF Planner!RejectRequest, Planner!RequestStatus, Planner!Malformed,
         Planner!PowersOfTwo, Planner!Fail, Planning!RejectRequest,
         Planning!RequestStatus, Planning!Malformed, Planning!PowersOfTwo,
         Planning!Fail
<1>3. Planner!SortRequests => Planning!SortRequests
  BY DEF Planner!SortRequests, Planning!SortRequests
<1>4. Planner!TakeRequest => Planning!TakeRequest
  BY DEF Planner!TakeRequest, Planner!Precedes, Planning!TakeRequest,
         Planning!Precedes
<1>5. Planner!CandidateFits <=> Planning!CandidateFits
  BY DEF Planner!CandidateFits, Planner!AlignOverflows,
         Planner!AlignedCandidate, Planner!AlignUp, Planning!CandidateFits,
         Planning!AlignOverflows, Planning!AlignedCandidate, Planning!AlignUp
<1>6. Planner!AlignedCandidate = Planning!AlignedCandidate
  BY DEF Planner!AlignedCandidate, Planner!AlignUp,
         Planning!AlignedCandidate, Planning!AlignUp
<1>7. \A r, at : Planner!ConflictsAt(r, at) = Planning!ConflictsAt(r, at)
  BY DEF Planner!ConflictsAt, Planner!LifetimesOverlap,
         Planner!RangesOverlap, Planner!AllocationEnd, Planning!ConflictsAt,
         Planning!LifetimesOverlap, Planning!RangesOverlap,
         Planning!AllocationEnd
<1>8. Planner!PlaceRequest => Planning!PlaceRequest
  BY <1>5, <1>6, <1>7 DEF Planner!PlaceRequest, Planning!PlaceRequest
<1>9. Planner!BumpCandidate => Planning!BumpCandidate
  BY <1>5, <1>6, <1>7
     DEF Planner!BumpCandidate, Planner!AllocationEnd,
         Planning!BumpCandidate, Planning!AllocationEnd
<1>10. Planner!OverflowCandidate => Planning!OverflowCandidate
  BY <1>5 DEF Planner!OverflowCandidate, Planner!Fail,
              Planning!OverflowCandidate, Planning!Fail
<1>11. /\ Planner!AllocationEnds = Planning!AllocationEnds
       /\ \A m, S : Planner!IsMaximum(m, S) <=> Planning!IsMaximum(m, S)
       /\ \A high : Planner!SizeFits(high) <=> Planning!SizeFits(high)
       /\ \A high : Planner!AlignUp(high, Planner!kWorkspaceAlignment)
                      = Planning!AlignUp(high, Planning!kWorkspaceAlignment)
  BY DEF Planner!AllocationEnds, Planner!AllocationEnd, Planner!IsMaximum,
         Planner!SizeFits, Planner!AlignOverflows, Planner!AlignUp,
         Planner!kWorkspaceAlignment, Planning!AllocationEnds,
         Planning!AllocationEnd, Planning!IsMaximum, Planning!SizeFits,
         Planning!AlignOverflows, Planning!AlignUp,
         Planning!kWorkspaceAlignment
<1>12. Planner!FinishPlan => Planning!FinishPlan
  BY <1>11 DEF Planner!FinishPlan, Planning!FinishPlan
<1>13. Planner!OverflowPlan => Planning!OverflowPlan
  BY <1>11 DEF Planner!OverflowPlan, Planner!Fail, Planning!OverflowPlan,
               Planning!Fail
<1> QED
  BY <1>1, <1>2, <1>3, <1>4, <1>8, <1>9, <1>10, <1>12, <1>13
     DEF Planner!Next, Planning!Next, plannerVars, Planning!vars

(* A call of the planner starts where its invariant holds.                 *)
LEMMA CallStarts ==
  ASSUME \E list \in Seq(Planning!Request) : StartPlanner(list)
  PROVE  /\ Planning!CanonicalInv'
         /\ pc' = "validate" /\ allocations' = <<>>
<1>1. /\ requests' \in Seq(Planning!Request)
      /\ pc' = "validate" /\ checked' = 0 /\ remaining' = {}
      /\ current' = 0 /\ candidate' = 0 /\ allocations' = <<>>
      /\ plan' = [size |-> 0, allocations |-> <<>>]
      /\ status' = "none"
  BY DEF StartPlanner, Planner!EmptyPlan
<1>2. Planning!TypeOK'
  BY <1>1 DEF Planning!TypeOK
<1>3. (Planning!ValidatedPrefix /\ Planning!PhaseInv /\ Planning!TakenPlaced)'
  BY <1>1 DEF Planning!ValidatedPrefix, Planning!PhaseInv,
              Planning!TakenPlaced
<1>4. (Planning!PlacedInv /\ Planning!DistinctNames /\ Planning!NoLiveOverlap)'
  BY <1>1 DEF Planning!PlacedInv, Planning!DistinctNames,
              Planning!NoLiveOverlap
<1>5. (Planning!NoLowerFit /\ Planning!OutputInv /\ Planning!OverflowInv)'
  BY <1>1 DEF Planning!NoLowerFit, Planning!OutputInv, Planning!OverflowInv,
              Planning!EmptyPlan
<1>6. (Planning!InOrder /\ Planning!PlacedLowest(allocations))'
  BY <1>1 DEF Planning!InOrder, Planning!PlacedLowest
<1> QED
  BY <1>1, <1>2, <1>3, <1>4, <1>5, <1>6
     DEF Planning!IInv, Planning!CanonicalInv
-----------------------------------------------------------------------------
(* What a plan that was returned says of the requests it was made for.     *)
SoundPlan(p, list) ==
  /\ p \in [size: Nat, allocations: Seq(Planning!Allocation)]
  /\ \A i \in DOMAIN list : \E k \in DOMAIN p.allocations :
       Planning!Places(p.allocations[k], list[i])
  /\ \A k \in DOMAIN p.allocations : \E i \in DOMAIN list :
       Planning!Places(p.allocations[k], list[i])
  /\ \A k, l \in DOMAIN p.allocations :
       k # l => p.allocations[k].name # p.allocations[l].name
  /\ \A k, l \in DOMAIN p.allocations :
       k # l /\ Planning!LifetimesOverlap(p.allocations[k], p.allocations[l])
       => ~ Planning!RangesOverlap(
              p.allocations[k].offset,
              Planning!AllocationEnd(p.allocations[k]),
              p.allocations[l].offset,
              Planning!AllocationEnd(p.allocations[l]))
  /\ \A k \in DOMAIN p.allocations :
       /\ p.allocations[k].offset % p.allocations[k].alignment = 0
       /\ Planning!AllocationEnd(p.allocations[k]) <= UIntMax
  /\ \A k, l \in DOMAIN p.allocations :
       k < l => Planning!Precedes(p.allocations[k], p.allocations[l])
  /\ Planning!PlacedLowest(p.allocations)
  /\ Planning!SizedFor(p)

LEMMA ReturnedIsSound ==
  ASSUME Planning!CanonicalInv, pc = "done"
  PROVE  SoundPlan(plan, requests)
<1>1. /\ plan \in [size: Nat, allocations: Seq(Planning!Allocation)]
      /\ plan.allocations = allocations
      /\ current = 0 /\ remaining = {}
      /\ DOMAIN requests = 1..Len(requests)
  BY DEF Planning!CanonicalInv, Planning!IInv, Planning!TypeOK,
         Planning!OutputInv, Planning!PhaseInv
<1>2. DOMAIN requests \ (remaining \cup {current}) = DOMAIN requests
  BY <1>1
<1>3. \A i \in DOMAIN requests : \E k \in DOMAIN allocations :
        Planning!Places(allocations[k], requests[i])
  BY <1>2 DEF Planning!CanonicalInv, Planning!IInv, Planning!TakenPlaced
<1>4. \A k \in DOMAIN allocations :
        /\ allocations[k].offset % allocations[k].alignment = 0
        /\ Planning!AllocationEnd(allocations[k]) <= UIntMax
        /\ \E i \in DOMAIN requests :
             Planning!Places(allocations[k], requests[i])
  BY <1>2 DEF Planning!CanonicalInv, Planning!IInv, Planning!PlacedInv
<1>5. /\ \A k, l \in DOMAIN allocations :
           k # l => allocations[k].name # allocations[l].name
      /\ \A k, l \in DOMAIN allocations :
           k # l /\ Planning!LifetimesOverlap(allocations[k], allocations[l])
           => ~ Planning!RangesOverlap(
                  allocations[k].offset,
                  Planning!AllocationEnd(allocations[k]),
                  allocations[l].offset,
                  Planning!AllocationEnd(allocations[l]))
  BY DEF Planning!CanonicalInv, Planning!IInv, Planning!DistinctNames,
         Planning!NoLiveOverlap
<1>6. \A k, l \in DOMAIN allocations :
        k < l => Planning!Precedes(allocations[k], allocations[l])
  BY DEF Planning!CanonicalInv, Planning!InOrder
<1>7. Planning!PlacedLowest(allocations) /\ Planning!SizedFor(plan)
  BY DEF Planning!CanonicalInv
<1> QED
  BY <1>1, <1>3, <1>4, <1>5, <1>6, <1>7 DEF SoundPlan
-----------------------------------------------------------------------------
(* The greatest number of a finite set of naturals exists.                 *)
LEMMA MaxIsGreatest ==
  ASSUME NEW n \in Nat, NEW S \in SUBSET (0..n), S # {}
  PROVE  Max(S) \in S /\ \A y \in S : Max(S) >= y
<1> DEFINE T == {n - x : x \in S}
<1>1. T \subseteq Nat /\ T # {}
  <2>1. \A x \in S : n - x \in Nat
    OBVIOUS
  <2>2. \E x \in S : n - x \in T
    OBVIOUS
  <2> QED
    BY <2>1, <2>2
<1>2. IsWellFoundedOn(OpToRel(<, Nat), Nat)
  BY NatLessThanWellFounded
<1>3. PICK least \in T : \A y \in T : ~ (<<y, least>> \in OpToRel(<, Nat))
  BY <1>1, <1>2, WFMin
<1>4. \A y \in T : least <= y
  <2> SUFFICES ASSUME NEW y \in T PROVE least <= y
    OBVIOUS
  <2>1. y \in Nat /\ least \in Nat
    BY <1>1
  <2>2. <<y, least>> \in Nat \X Nat
    BY <2>1
  <2>3. ~ (y < least)
    BY <1>3, <2>2 DEF OpToRel
  <2> QED
    BY <2>1, <2>3
<1>5. PICK greatest \in S : least = n - greatest
  BY <1>3
<1>6. \A y \in S : greatest >= y
  BY <1>4, <1>5
<1> QED
  BY <1>6 DEF Max

(* The lifetime of a record holds every use of its buffer.                 *)
BodyInv ==
  /\ body \in Seq(Operation)
  /\ \A q \in DOMAIN body : body[q].kind # "alloc" => \A p \in body[q].of : p < q

LivesThrough(record) ==
  /\ record.start <= record.end
  /\ \A q \in UsesOf(record.start) : record.start <= q /\ q <= record.end

LEMMA LastUseIsLast ==
  ASSUME BodyInv, NEW p \in DOMAIN body
  PROVE  /\ LastUse(p) \in Nat
         /\ p <= LastUse(p)
         /\ \A q \in UsesOf(p) : p <= q /\ q <= LastUse(p)
<1>1. DOMAIN body = 1..Len(body) /\ Len(body) \in Nat
  BY DEF BodyInv
<1>2. UsesOf(p) \subseteq 1..Len(body)
  BY <1>1 DEF UsesOf
<1>3. {p} \cup UsesOf(p) \in SUBSET (0..Len(body))
  BY <1>1, <1>2
<1>4. /\ LastUse(p) \in {p} \cup UsesOf(p)
      /\ \A y \in {p} \cup UsesOf(p) : LastUse(p) >= y
  BY <1>1, <1>3, MaxIsGreatest DEF LastUse
<1>5. \A q \in UsesOf(p) : p < q
  BY DEF UsesOf, BodyInv
<1> QED
  BY <1>1, <1>2, <1>4, <1>5

RecordsInv ==
  /\ records \in Seq(Planning!Request)
  /\ \A i \in DOMAIN records : /\ records[i].name = i
                               /\ records[i].size \in Nat \ {0}
                               /\ records[i].alignment = 64
                               /\ LivesThrough(records[i])

LEMMA CollectRecords ==
  ASSUME BodyInv, WordWidths, Collect
  PROVE  /\ RecordsInv'
         /\ StartPlanner(records')
<1>1. PICK order \in [1..Cardinality(Allocations) -> Allocations] :
        /\ records' = [i \in DOMAIN order |-> RecordOf(order[i], i)]
        /\ StartPlanner(records')
  BY DEF Collect
<1>2. body' = body /\ \A p \in Allocations : Supported(p)
  BY DEF Collect
<1>3. DOMAIN body = 1..Len(body) /\ Len(body) \in Nat
  BY DEF BodyInv
<1>4. IsFiniteSet(Allocations)
  <2>1. IsFiniteSet(DOMAIN body)
    BY <1>3, FS_Interval
  <2> QED
    BY <2>1, FS_Subset DEF Allocations
<1>5. Cardinality(Allocations) \in Nat
  BY <1>4, FS_CardinalityType
<1> DEFINE n == Cardinality(Allocations)
<1>6. ASSUME NEW i \in 1..n
      PROVE  /\ RecordOf(order[i], i) \in Planning!Request
             /\ RecordOf(order[i], i).name = i
             /\ RecordOf(order[i], i).size \in Nat \ {0}
             /\ RecordOf(order[i], i).alignment = 64
             /\ LivesThrough(RecordOf(order[i], i))
  <2>1. order[i] \in Allocations /\ order[i] \in DOMAIN body
    BY DEF Allocations
  <2>2. body[order[i]].size \in Nat \ {0}
    BY <1>2, <2>1 DEF Supported, WordWidths
  <2>3. order[i] \in Nat /\ LastUse(order[i]) \in Nat
    BY <1>3, <2>1, LastUseIsLast
  <2> QED
    BY <1>5, <2>1, <2>2, <2>3, LastUseIsLast
       DEF RecordOf, LivesThrough, Planning!Request
<1>7. /\ records' \in Seq(Planning!Request)
      /\ DOMAIN records' = 1..n
      /\ \A i \in 1..n : records'[i] = RecordOf(order[i], i)
  BY <1>1, <1>5, <1>6
<1>8. \A i \in 1..n : LivesThrough(records'[i])
  BY <1>6, <1>7
<1> HIDE DEF n
<1>9. \A i \in 1..n : LivesThrough(records[i])'
  BY <1>2, <1>8 DEF LivesThrough, UsesOf
<1>10. RecordsInv'
  BY <1>6, <1>7, <1>9 DEF RecordsInv
<1> QED
  BY <1>1, <1>10
-----------------------------------------------------------------------------
(* Planning the allocations of a plan once more gives that plan: what has  *)
(* been placed so far is the beginning of it.                              *)
Placed == planned.allocations

Repeats ==
  /\ Planning!CanonicalInv
  /\ DOMAIN requests = DOMAIN Placed
  /\ \A k \in DOMAIN Placed : Planning!Places(Placed[k], requests[k])
  /\ pc # "failed"
  /\ Len(allocations) <= Len(Placed)
  /\ \A k \in DOMAIN allocations : allocations[k] = Placed[k]
  /\ pc \in {"place", "done"} =>
       remaining = {j \in DOMAIN Placed :
                      j > Len(allocations) + (IF current = 0 THEN 0 ELSE 1)}
  /\ current # 0 => current = Len(allocations) + 1

LEMMA PlacedEntries ==
  ASSUME RecordsInv, SoundPlan(planned, records), NEW k \in DOMAIN Placed
  PROVE  /\ Placed[k].name \in Nat \ {0} /\ Placed[k].offset \in Nat
         /\ Placed[k].size \in Nat \ {0} /\ Placed[k].alignment = 64
         /\ Placed[k].start \in Nat /\ Placed[k].end \in Nat
         /\ Placed[k].start <= Placed[k].end
         /\ Placed[k].offset % 64 = 0
         /\ Placed[k].offset + Placed[k].size <= UIntMax
         /\ k \in 1..Len(Placed) /\ Len(Placed) \in Nat
         /\ DOMAIN Placed = 1..Len(Placed)
<1>1. Placed \in Seq(Planning!Allocation)
  BY DEF SoundPlan, Placed
<1>2. Placed[k] \in Planning!Allocation
  BY <1>1
<1>3. PICK i \in DOMAIN records : Planning!Places(Placed[k], records[i])
  BY DEF SoundPlan, Placed
<1>4. /\ records[i].name = i /\ i \in Nat \ {0}
      /\ records[i].size \in Nat \ {0}
      /\ records[i].alignment = 64
      /\ records[i].start <= records[i].end
  BY DEF RecordsInv, LivesThrough
<1>5. /\ Placed[k].offset % Placed[k].alignment = 0
      /\ Placed[k].offset + Placed[k].size <= UIntMax
  BY DEF SoundPlan, Placed, Planning!AllocationEnd
<1>6. /\ Placed[k].offset \in Nat
      /\ Placed[k].start \in Nat /\ Placed[k].end \in Nat
  BY <1>2 DEF Planning!Allocation
<1>7. /\ Placed[k].name \in Nat \ {0} /\ Placed[k].size \in Nat \ {0}
      /\ Placed[k].alignment = 64 /\ Placed[k].start <= Placed[k].end
  BY <1>3, <1>4 DEF Planning!Places
<1>8. /\ k \in 1..Len(Placed) /\ Len(Placed) \in Nat
      /\ DOMAIN Placed = 1..Len(Placed)
  BY <1>1
<1> QED
  BY <1>5, <1>6, <1>7, <1>8

(* The place it had before is still free for the request being placed, so  *)
(* the candidate never gets past it.                                       *)
LEMMA FormerPlaceFree ==
  ASSUME RecordsInv, SoundPlan(planned, records), WordWidths, Repeats,
         current # 0
  PROVE  /\ current \in DOMAIN Placed
         /\ current = Len(allocations) + 1
         /\ Planning!ConflictsAt(requests[current], Placed[current].offset)
              = {}
         /\ candidate \in Nat
         /\ candidate <= Placed[current].offset
<1> DEFINE k == current
<1>1. /\ k = Len(allocations) + 1 /\ k \in DOMAIN Placed
      /\ Planning!Places(Placed[k], requests[k])
      /\ candidate \in Nat
      /\ DOMAIN allocations = 1..Len(allocations)
      /\ Len(allocations) \in Nat
  BY DEF Repeats, Planning!CanonicalInv, Planning!IInv, Planning!TypeOK
<1>2. Planning!ConflictsAt(requests[k], Placed[k].offset) = {}
  <2> SUFFICES ASSUME NEW l \in Planning!ConflictsAt(requests[k],
                                                     Placed[k].offset)
               PROVE  FALSE
    OBVIOUS
  <2>1. /\ l \in DOMAIN allocations
        /\ Planning!LifetimesOverlap(allocations[l], requests[k])
        /\ Planning!RangesOverlap(
             Placed[k].offset, Placed[k].offset + requests[k].size,
             allocations[l].offset, Planning!AllocationEnd(allocations[l]))
    BY DEF Planning!ConflictsAt
  <2>2. allocations[l] = Placed[l] /\ l \in DOMAIN Placed /\ l # k
    <3>1. Len(allocations) <= Len(Placed) /\ DOMAIN Placed = 1..Len(Placed)
      BY <1>1, PlacedEntries DEF Repeats
    <3> QED
      BY <1>1, <2>1, <3>1, PlacedEntries DEF Repeats
  <2>3. Planning!LifetimesOverlap(Placed[l], Placed[k])
    BY <1>1, <2>1, <2>2
       DEF Planning!LifetimesOverlap, Planning!Places
  <2>4. Planning!RangesOverlap(
          Placed[l].offset, Planning!AllocationEnd(Placed[l]),
          Placed[k].offset, Planning!AllocationEnd(Placed[k]))
    BY <1>1, <2>1, <2>2
       DEF Planning!RangesOverlap, Planning!Places, Planning!AllocationEnd
  <2> QED
    BY <1>1, <2>2, <2>3, <2>4 DEF SoundPlan, Placed
<1>3. candidate <= Placed[k].offset
  <2> SUFFICES ASSUME Placed[k].offset < candidate PROVE FALSE
    BY <1>1, PlacedEntries
  <2>1. /\ Placed[k].offset \in 0..(candidate - 1)
        /\ Placed[k].offset % requests[k].alignment = 0
    BY <1>1, PlacedEntries DEF Planning!Places
  <2> QED
    BY <1>2, <2>1
       DEF Repeats, Planning!CanonicalInv, Planning!IInv, Planning!NoLowerFit
<1> QED
  BY <1>1, <1>2, <1>3

LEMMA FormerPlaceReached ==
  ASSUME RecordsInv, SoundPlan(planned, records), WordWidths, Repeats,
         current # 0
  PROVE  /\ Planning!AlignedCandidate \in Nat
         /\ Planning!AlignedCandidate % 64 = 0
         /\ Planning!AlignedCandidate <= Placed[current].offset
         /\ Planning!CandidateFits
<1> DEFINE k == current
           offset == Placed[k].offset
<1>1. /\ k \in DOMAIN Placed /\ candidate \in Nat
      /\ candidate <= offset
  BY FormerPlaceFree
<1>2. /\ requests[k].alignment = 64 /\ requests[k].size = Placed[k].size
      /\ requests[k].size \in Nat \ {0}
      /\ offset \in Nat /\ offset % 64 = 0
      /\ offset + requests[k].size <= UIntMax
  BY <1>1, PlacedEntries DEF Repeats, Planning!Places
<1>3. UIntMax \in Nat /\ (UIntMax + 1) % 64 = 0
  BY DEF WordWidths
<1> HIDE DEF k, offset
<1>4. /\ Planning!AlignUp(candidate, 64) \in Nat
      /\ Planning!AlignUp(candidate, 64) % 64 = 0
      /\ Planning!AlignUp(candidate, 64) <= offset
  BY <1>1, <1>2 DEF Planning!AlignUp
<1>5. candidate + 63 <= UIntMax
  BY <1>1, <1>2, <1>3
<1>6. Planning!AlignedCandidate = Planning!AlignUp(candidate, 64)
  BY <1>2 DEF Planning!AlignedCandidate, k
<1>7. ~ Planning!AlignOverflows(candidate, requests[k].alignment)
  BY <1>1, <1>2, <1>3, <1>5 DEF Planning!AlignOverflows
<1>8. Planning!AlignedCandidate + requests[k].size <= UIntMax
  BY <1>2, <1>3, <1>4, <1>6
<1> QED
  BY <1>4, <1>6, <1>7, <1>8 DEF Planning!CandidateFits, k, offset

(* Steps that leave what has been placed and what is left alone.           *)
LEMMA SamePlacement ==
  ASSUME Repeats, Planning!CanonicalInv',
         UNCHANGED <<requests, remaining, current, allocations, planned>>,
         pc' \in {pc, "done"}, pc' = "done" => pc \in {"place", "done"}
  PROVE  Repeats'
BY DEF Repeats, Placed, Planning!Places

LEMMA RepeatedTake ==
  ASSUME RecordsInv, SoundPlan(planned, records), Repeats,
         Planning!TakeRequest, planned' = planned, Planning!CanonicalInv'
  PROVE  Repeats'
<1>1. PICK i \in remaining :
        /\ \A j \in remaining \ {i} :
             Planning!Precedes(requests[i], requests[j])
        /\ current' = i
        /\ remaining' = remaining \ {i}
  BY DEF Planning!TakeRequest
<1>2. /\ pc = "place" /\ current = 0
      /\ UNCHANGED <<requests, pc, allocations>>
  BY DEF Planning!TakeRequest
<1> DEFINE m == Len(allocations) + 1
<1>3. Len(allocations) \in Nat
  BY DEF Repeats, Planning!CanonicalInv, Planning!IInv, Planning!TypeOK
<1>4. remaining = {j \in DOMAIN Placed : j > Len(allocations)}
  BY <1>2, <1>3 DEF Repeats
<1>5. i \in DOMAIN Placed /\ DOMAIN Placed = 1..Len(Placed) /\ i >= m
  BY <1>1, <1>3, <1>4, PlacedEntries
<1>6. i = m
  <2> SUFFICES ASSUME m < i PROVE FALSE
    BY <1>3, <1>5
  <2>1. m \in DOMAIN Placed /\ m \in remaining \ {i}
    BY <1>3, <1>4, <1>5
  <2>2. Planning!Precedes(requests[i], requests[m])
    BY <1>1, <2>1
  <2>3. Planning!Precedes(Placed[m], Placed[i])
    BY <1>5, <2>1 DEF SoundPlan, Placed
  <2>4. Planning!Places(Placed[m], requests[m])
        /\ Planning!Places(Placed[i], requests[i])
    BY <1>5, <2>1 DEF Repeats
  <2>5. /\ Placed[m].start \in Nat /\ Placed[i].start \in Nat
        /\ Placed[m].end \in Nat /\ Placed[i].end \in Nat
        /\ Placed[m].name \in Nat /\ Placed[i].name \in Nat
    BY <1>5, <2>1, PlacedEntries
  <2> QED
    BY <2>2, <2>3, <2>4, <2>5 DEF Planning!Precedes, Planning!Places
<1>7. remaining' = {j \in DOMAIN Placed : j > Len(allocations) + 1}
  BY <1>1, <1>3, <1>4, <1>5, <1>6
<1> QED
  BY <1>1, <1>2, <1>3, <1>6, <1>7 DEF Repeats, Placed, Planning!Places

LEMMA RepeatedPlace ==
  ASSUME RecordsInv, SoundPlan(planned, records), WordWidths, Repeats,
         Planning!PlaceRequest, planned' = planned, Planning!CanonicalInv'
  PROVE  Repeats'
<1> DEFINE k == current
           r == requests[current]
           at == Planning!AlignedCandidate
           new == [name |-> r.name, offset |-> at, size |-> r.size,
                   alignment |-> r.alignment, start |-> r.start,
                   end |-> r.end]
<1>1. /\ pc = "place" /\ current # 0
      /\ Planning!ConflictsAt(r, at) = {}
      /\ allocations' = Append(allocations, new)
      /\ current' = 0
      /\ UNCHANGED <<requests, pc, remaining>>
  BY DEF Planning!PlaceRequest
<1>2. /\ k \in DOMAIN Placed /\ k = Len(allocations) + 1
      /\ at \in Nat /\ at % 64 = 0 /\ at <= Placed[k].offset
      /\ Planning!Places(Placed[k], r)
      /\ Len(allocations) \in Nat
      /\ DOMAIN allocations = 1..Len(allocations)
  BY <1>1, FormerPlaceFree, FormerPlaceReached
     DEF Repeats, Planning!CanonicalInv, Planning!IInv, Planning!TypeOK
<1>3. /\ Placed[k] \in Planning!Allocation
      /\ Placed[k].alignment = 64 /\ Placed[k].offset \in Nat
      /\ Len(Placed) \in Nat /\ DOMAIN Placed = 1..Len(Placed)
  <2>1. Placed \in Seq(Planning!Allocation)
    BY DEF SoundPlan, Placed
  <2> QED
    BY <1>2, <2>1, PlacedEntries
<1>4. at = Placed[k].offset
  <2> SUFFICES ASSUME at < Placed[k].offset PROVE FALSE
    BY <1>2, <1>3
  <2>1. at \in 0..(Placed[k].offset - 1) /\ at % Placed[k].alignment = 0
    BY <1>2, <1>3
  <2>2. Planning!Occupied(Placed, k, at)
    BY <1>2, <2>1 DEF SoundPlan, Placed, Planning!PlacedLowest
  <2>3. PICK l \in 1..(k - 1) :
          /\ Planning!LifetimesOverlap(Placed[l], Placed[k])
          /\ Planning!RangesOverlap(at, at + Placed[k].size,
                                    Placed[l].offset,
                                    Planning!AllocationEnd(Placed[l]))
    BY <2>2 DEF Planning!Occupied
  <2>4. l \in DOMAIN allocations /\ allocations[l] = Placed[l]
    BY <1>2 DEF Repeats
  <2>5. l \in Planning!ConflictsAt(r, at)
    BY <1>2, <2>3, <2>4
       DEF Planning!ConflictsAt, Planning!LifetimesOverlap, Planning!Places
  <2> QED
    BY <1>1, <2>5
<1>5. new = Placed[k]
  BY <1>2, <1>3, <1>4 DEF Planning!Places, Planning!Allocation
<1> HIDE DEF new, at, r
<1>6. /\ Len(allocations') = k
      /\ DOMAIN allocations' = 1..k
      /\ \A l \in 1..k : allocations'[l] = Placed[l]
  <2>1. allocations \in Seq(Planning!Allocation)
    BY DEF Repeats, Planning!CanonicalInv, Planning!IInv, Planning!TypeOK
  <2>2. /\ Len(allocations') = k /\ DOMAIN allocations' = 1..k
        /\ \A l \in 1..Len(allocations) : allocations'[l] = allocations[l]
        /\ allocations'[k] = Placed[k]
    BY <1>1, <1>2, <1>5, <2>1
  <2>3. \A l \in 1..Len(allocations) : allocations[l] = Placed[l]
    BY <1>2 DEF Repeats
  <2> QED
    BY <1>2, <2>2, <2>3
<1>7. remaining' = {j \in DOMAIN Placed : j > k}
  BY <1>1, <1>2 DEF Repeats
<1>8. UNCHANGED <<requests, pc, planned>> /\ current' = 0
  BY <1>1
<1>9. k <= Len(Placed)
  BY <1>2, <1>3
<1> HIDE DEF k
<1>10. k \in Nat
  BY <1>2
<1> QED
  BY <1>6, <1>7, <1>8, <1>9, <1>10 DEF Repeats, Placed, Planning!Places

LEMMA AllPlacedAgain ==
  ASSUME Repeats, RecordsInv, SoundPlan(planned, records),
         pc \in {"place", "done"}, current = 0, remaining = {}
  PROVE  allocations = Placed
<1>1. /\ allocations \in Seq(Planning!Allocation)
      /\ Placed \in Seq(Planning!Allocation)
  BY DEF Repeats, Planning!CanonicalInv, Planning!IInv, Planning!TypeOK,
         SoundPlan, Placed
<1>2. Len(Placed) \notin remaining
  OBVIOUS
<1>3. Len(allocations) = Len(Placed)
  BY <1>1, <1>2 DEF Repeats
<1> QED
  BY <1>1, <1>3 DEF Repeats

LEMMA OneMaximum ==
  ASSUME NEW S \in SUBSET Nat, NEW m, NEW n,
         Planning!IsMaximum(m, S), Planning!IsMaximum(n, S)
  PROVE  m = n
BY DEF Planning!IsMaximum

LEMMA EndsAreNatural ==
  ASSUME SoundPlan(planned, records)
  PROVE  {0} \cup Planning!Ends(Placed) \in SUBSET Nat
<1>1. Placed \in Seq(Planning!Allocation)
  BY DEF SoundPlan, Placed
<1>2. \A k \in DOMAIN Placed : Placed[k] \in Planning!Allocation
  BY <1>1
<1> QED
  BY <1>2 DEF Planning!Ends, Planning!AllocationEnd, Planning!Allocation

LEMMA RepeatedStep ==
  ASSUME RecordsInv, SoundPlan(planned, records), WordWidths, Repeats,
         [Planning!Next]_Planning!vars, planned' = planned
  PROVE  Repeats'
<1>1. Planning!CanonicalInv'
  BY Planning!StepKeepsCanonical DEF Repeats, WordWidths
<1>2. CASE Planning!RejectRequest
  <2> DEFINE c == checked + 1
  <2>1. Planning!RequestStatus(c) # "ok"
    BY <1>2 DEF Planning!RejectRequest
  <2>2. /\ c \in DOMAIN requests /\ c \in DOMAIN Placed /\ c \in Nat
        /\ \A j \in 1..(c - 1) : j \in DOMAIN Placed /\ j # c
    <3>1. /\ checked \in 0..Len(requests) /\ checked < Len(requests)
          /\ requests \in Seq(Planning!Request)
      BY <1>2 DEF Planning!RejectRequest, Repeats, Planning!CanonicalInv,
                  Planning!IInv, Planning!TypeOK
    <3>2. DOMAIN requests = 1..Len(requests) /\ Len(requests) \in Nat
      BY <3>1
    <3> QED
      BY <3>1, <3>2 DEF Repeats
  <2>3. Planning!Places(Placed[c], requests[c])
    BY <2>2 DEF Repeats
  <2>4. requests[c].name # 0 /\ ~ Planning!Malformed(requests[c])
    BY <2>2, <2>3, PlacedEntries
       DEF Planning!Places, Planning!Malformed, Planning!PowersOfTwo
  <2>5. ASSUME NEW j \in 1..(c - 1) PROVE requests[j].name # requests[c].name
    <3>1. Placed[j].name # Placed[c].name
      BY <2>2 DEF SoundPlan, Placed
    <3> QED
      BY <2>2, <2>3, <3>1 DEF Repeats, Planning!Places
  <2> QED
    BY <2>1, <2>4, <2>5 DEF Planning!RequestStatus
<1>3. CASE Planning!SortRequests
  <2>1. /\ pc' = "place" /\ remaining' = DOMAIN requests
        /\ allocations = <<>> /\ current = 0
        /\ UNCHANGED <<requests, current, allocations>>
    BY <1>3 DEF Planning!SortRequests, Repeats, Planning!CanonicalInv,
                Planning!IInv, Planning!PhaseInv
  <2>2. DOMAIN requests = {j \in DOMAIN Placed : j > 0}
    <3>1. requests \in Seq(Planning!Request)
      BY DEF Repeats, Planning!CanonicalInv, Planning!IInv, Planning!TypeOK
    <3>2. DOMAIN requests = 1..Len(requests)
      BY <3>1
    <3>3. DOMAIN Placed = 1..Len(requests)
      BY <3>2 DEF Repeats
    <3> HIDE DEF Placed
    <3> QED
      BY <3>1, <3>2, <3>3
  <2> QED
    BY <1>1, <2>1, <2>2 DEF Repeats, Placed, Planning!Places
<1>4. CASE Planning!TakeRequest
  BY <1>1, <1>4, RepeatedTake
<1>5. CASE Planning!PlaceRequest
  BY <1>1, <1>5, RepeatedPlace
<1>6. CASE Planning!OverflowCandidate
  BY <1>6, FormerPlaceReached DEF Planning!OverflowCandidate
<1>7. CASE Planning!OverflowPlan
  <2>1. allocations = Placed
    BY <1>7, AllPlacedAgain DEF Planning!OverflowPlan
  <2>2. PICK m \in {0} \cup Planning!Ends(Placed) :
          /\ Planning!IsMaximum(m, {0} \cup Planning!Ends(Placed))
          /\ ~ Planning!SizeFits(m)
    BY <1>7, <2>1
       DEF Planning!OverflowPlan, Planning!AllocationEnds, Planning!Ends
  <2>3. PICK n \in {0} \cup Planning!Ends(Placed) :
          /\ Planning!IsMaximum(n, {0} \cup Planning!Ends(Placed))
          /\ Planning!SizeFits(n)
    BY DEF SoundPlan, Placed, Planning!SizedFor
  <2>4. m = n
    BY <2>2, <2>3, EndsAreNatural, OneMaximum
  <2> QED
    BY <2>2, <2>3, <2>4
<1>8. CASE Planning!FinishPlan
  <2>1. /\ pc = "place" /\ pc' = "done"
        /\ UNCHANGED <<requests, remaining, current, allocations>>
    BY <1>8 DEF Planning!FinishPlan
  <2> QED
    BY <1>1, <2>1, SamePlacement
<1>9. CASE Planning!ValidateRequest \/ Planning!BumpCandidate
           \/ UNCHANGED Planning!vars
  <2>1. UNCHANGED <<requests, remaining, current, allocations, pc>>
    BY <1>9 DEF Planning!ValidateRequest, Planning!BumpCandidate,
                Planning!vars
  <2>2. pc = "done" => pc \in {"place", "done"}
    OBVIOUS
  <2> QED
    BY <1>1, <2>1, <2>2, SamePlacement
<1> QED
  BY <1>2, <1>3, <1>4, <1>5, <1>6, <1>7, <1>8, <1>9 DEF Planning!Next

(* When the second planning returns, its plan is the first one.            *)
LEMMA SamePlanAgain ==
  ASSUME RecordsInv, SoundPlan(planned, records), Repeats, pc = "done"
  PROVE  plan = planned
<1>1. /\ plan \in [size: Nat, allocations: Seq(Planning!Allocation)]
      /\ plan.allocations = allocations
      /\ current = 0 /\ remaining = {}
  BY DEF Repeats, Planning!CanonicalInv, Planning!IInv, Planning!TypeOK,
         Planning!OutputInv, Planning!PhaseInv
<1>2. plan.allocations = Placed
  BY <1>1, AllPlacedAgain
<1>3. PICK m \in {0} \cup Planning!Ends(Placed) :
        /\ Planning!IsMaximum(m, {0} \cup Planning!Ends(Placed))
        /\ plan.size = Planning!AlignUp(m, 64)
  BY <1>2 DEF Repeats, Planning!CanonicalInv, Planning!SizedFor,
              Planning!kWorkspaceAlignment
<1>4. PICK n \in {0} \cup Planning!Ends(Placed) :
        /\ Planning!IsMaximum(n, {0} \cup Planning!Ends(Placed))
        /\ planned.size = Planning!AlignUp(n, 64)
  BY DEF SoundPlan, Placed, Planning!SizedFor, Planning!kWorkspaceAlignment
<1>5. plan.size = planned.size
  BY <1>3, <1>4, EndsAreNatural, OneMaximum
<1>6. planned \in [size: Nat, allocations: Seq(Planning!Allocation)]
  BY DEF SoundPlan
<1> QED
  BY <1>1, <1>2, <1>5, <1>6 DEF Placed
-----------------------------------------------------------------------------
(* Every record finds its own allocation under its name.                   *)
Index(i) == CHOOSE k \in DOMAIN Placed : Placed[k].name = records[i].name

LEMMA IndexFindsPlace ==
  ASSUME RecordsInv, SoundPlan(planned, records), NEW i \in DOMAIN records
  PROVE  /\ Index(i) \in DOMAIN Placed
         /\ Planning!Places(Placed[Index(i)], records[i])
         /\ PlannedFor(i) = Placed[Index(i)]
<1>1. PICK k \in DOMAIN Placed : Planning!Places(Placed[k], records[i])
  BY DEF SoundPlan, Placed
<1>2. Placed[k].name = records[i].name
  BY <1>1 DEF Planning!Places
<1>3. /\ Index(i) \in DOMAIN Placed
      /\ Placed[Index(i)].name = records[i].name
  BY <1>1, <1>2 DEF Index
<1>4. Index(i) = k
  BY <1>2, <1>3 DEF SoundPlan, Placed
<1>5. PlannedFor(i) = Placed[Index(i)]
  BY DEF PlannedFor, Index, Placed
<1> QED
  BY <1>1, <1>3, <1>4, <1>5

LEMMA IndexInjective ==
  ASSUME RecordsInv, SoundPlan(planned, records), NEW i \in DOMAIN records,
         NEW j \in DOMAIN records, Index(i) = Index(j)
  PROVE  i = j
BY IndexFindsPlace DEF Planning!Places, RecordsInv

LEMMA PlanCovers ==
  ASSUME RecordsInv, SoundPlan(planned, records)
  PROVE  Covered
<1> DEFINE n == Len(records)
           m == Len(Placed)
<1>1. /\ n \in Nat /\ DOMAIN records = 1..n
      /\ m \in Nat /\ DOMAIN Placed = 1..m
  <2>1. /\ records \in Seq(Planning!Request)
        /\ Placed \in Seq(Planning!Allocation)
    BY DEF RecordsInv, SoundPlan, Placed
  <2> QED
    BY <2>1
<1>2. /\ IsFiniteSet(1..n) /\ Cardinality(1..n) = n
      /\ IsFiniteSet(1..m) /\ Cardinality(1..m) = m
  <2>1. \A x \in Nat : IsFiniteSet(1..x) /\ Cardinality(1..x) = x
    <3> TAKE x \in Nat
    <3>1. Cardinality(1..x) = IF 1 > x THEN 0 ELSE x - 1 + 1
      BY FS_Interval
    <3> QED
      BY <3>1, FS_Interval
  <2> QED
    BY <1>1, <2>1
<1>3. n <= m
  <2> DEFINE f == [i \in 1..n |-> Index(i)]
  <2>1. f \in [1..n -> 1..m]
    BY <1>1, IndexFindsPlace
  <2>2. \A i, j \in 1..n : f[i] = f[j] => i = j
    BY <1>1, IndexInjective
  <2>3. f \in Injection(1..n, 1..m)
    BY <2>1, <2>2 DEF Injection, IsInjective
  <2> QED
    BY <1>2, <2>3, FS_Injection
<1>4. m <= n
  <2> DEFINE g == [k \in 1..m |-> Placed[k].name]
  <2>1. \A k \in 1..m : Placed[k].name \in 1..n
    BY <1>1 DEF SoundPlan, Placed, Planning!Places, RecordsInv
  <2>2. \A k, l \in 1..m : k # l => Placed[k].name # Placed[l].name
    BY <1>1 DEF SoundPlan, Placed
  <2>3. g \in Injection(1..m, 1..n)
    BY <2>1, <2>2 DEF Injection, IsInjective
  <2> QED
    BY <1>2, <2>3, FS_Injection
<1>5. planned.size = 0 => records = <<>>
  <2> SUFFICES ASSUME planned.size = 0, records # <<>> PROVE FALSE
    OBVIOUS
  <2>1. 1 \in DOMAIN records
    BY <1>1 DEF RecordsInv
  <2>2. Index(1) \in DOMAIN Placed
    BY <2>1, IndexFindsPlace
  <2>3. /\ Planning!AllocationEnd(Placed[Index(1)]) \in Nat \ {0}
        /\ Planning!AllocationEnd(Placed[Index(1)]) \in Planning!Ends(Placed)
    BY <2>2, PlacedEntries DEF Planning!AllocationEnd, Planning!Ends
  <2>4. PICK high \in {0} \cup Planning!Ends(Placed) :
          /\ Planning!IsMaximum(high, {0} \cup Planning!Ends(Placed))
          /\ planned.size = Planning!AlignUp(high, 64)
    BY DEF SoundPlan, Placed, Planning!SizedFor,
           Planning!kWorkspaceAlignment
  <2>5. high \in Nat /\ high >= 1
    BY <2>3, <2>4, EndsAreNatural DEF Planning!IsMaximum
  <2> QED
    BY <2>4, <2>5 DEF Planning!AlignUp
<1>6. \A i \in DOMAIN records : \E k \in DOMAIN Placed :
        Placed[k].name = records[i].name
  BY IndexFindsPlace DEF Planning!Places
<1> QED
  BY <1>1, <1>3, <1>4, <1>5, <1>6 DEF Covered, Placed

ViewsInv ==
  /\ DOMAIN views = DOMAIN records /\ Len(views) = Len(records)
  /\ \A i \in DOMAIN records :
       /\ views[i].offset = Placed[Index(i)].offset
       /\ views[i].size = records[i].size

LEMMA SameViews ==
  ASSUME ViewsInv, UNCHANGED <<records, planned, views>>
  PROVE  ViewsInv'
<1>1. \A i \in DOMAIN records : Placed[Index(i)]' = Placed[Index(i)]
  BY DEF Index, Placed
<1> QED
  BY <1>1 DEF ViewsInv

LEMMA OwnViewsMatch ==
  ASSUME RecordsInv, SoundPlan(planned, records), ViewsInv
  PROVE  ViewsMatch
<1>1. Len(views) = Len(Placed)
  BY PlanCovers DEF Covered, ViewsInv, Placed
<1>2. ASSUME NEW j \in DOMAIN views
      PROVE  Cardinality({i \in DOMAIN views : views[i] = views[j]}) <=
               Cardinality({k \in DOMAIN Placed :
                              /\ Placed[k].offset = views[j].offset
                              /\ Placed[k].size = views[j].size})
  <2> DEFINE A == {i \in DOMAIN views : views[i] = views[j]}
             B == {k \in DOMAIN Placed :
                     /\ Placed[k].offset = views[j].offset
                     /\ Placed[k].size = views[j].size}
             f == [i \in A |-> Index(i)]
  <2>1. IsFiniteSet(B)
    <3>1. Len(Placed) \in Nat /\ DOMAIN Placed = 1..Len(Placed)
      BY DEF SoundPlan, Placed
    <3>2. IsFiniteSet(DOMAIN Placed)
      BY <3>1, FS_Interval
    <3> QED
      BY <3>2, FS_Subset
  <2>2. \A i \in A : Index(i) \in B
    BY IndexFindsPlace DEF ViewsInv, Planning!Places
  <2>3. \A i, k \in A : Index(i) = Index(k) => i = k
    BY IndexInjective DEF ViewsInv
  <2> HIDE DEF A, B
  <2>4. f \in Injection(A, B)
    BY <2>2, <2>3 DEF Injection, IsInjective
  <2>5. Cardinality(A) <= Cardinality(B)
    BY <2>1, <2>4, FS_Injection
  <2> QED
    BY <2>5 DEF A, B
<1> QED
  BY <1>1, <1>2 DEF ViewsMatch, Placed
-----------------------------------------------------------------------------
PipelineInv ==
  /\ BodyInv
  /\ RecordsInv
  /\ stage \in {"collect", "plan"} => planned = Planner!EmptyPlan /\ views = <<>>
  /\ stage = "plan" => Planning!CanonicalInv /\ requests = records
  /\ stage \in {"rewrite", "verify", "compare", "done"} =>
       SoundPlan(planned, records)
  /\ stage \in {"verify", "compare", "done"} => ViewsInv
  /\ stage = "compare" => Repeats
  /\ OwnPlanVerifies

LEMMA PipelineStarts == BodiesWellFormed /\ PipelineInit => PipelineInv
<1> SUFFICES ASSUME BodiesWellFormed, PipelineInit PROVE PipelineInv
  OBVIOUS
<1>1. /\ body \in Bodies /\ stage = "collect" /\ records = <<>>
      /\ planned = Planner!EmptyPlan /\ views = <<>>
  BY DEF PipelineInit
<1>2. BodyInv
  BY <1>1 DEF BodiesWellFormed, BodyInv
<1>3. RecordsInv
  BY <1>1 DEF RecordsInv
<1> QED
  BY <1>1, <1>2, <1>3 DEF PipelineInv, OwnPlanVerifies

LEMMA CollectKeeps ==
  ASSUME PipelineInv, WordWidths, Collect
  PROVE  PipelineInv'
<1>1. /\ stage = "collect" /\ stage' = "plan"
      /\ UNCHANGED <<body, planned, views, output>>
  BY DEF Collect
<1>2. RecordsInv' /\ StartPlanner(records')
  BY CollectRecords DEF PipelineInv
<1>3. records' \in Seq(Planning!Request)
  BY <1>2 DEF RecordsInv
<1>4. Planning!CanonicalInv'
  BY <1>2, <1>3, CallStarts
<1>5. requests' = records'
  BY <1>2 DEF StartPlanner
<1>6. BodyInv'
  BY <1>1 DEF PipelineInv, BodyInv
<1> QED
  BY <1>1, <1>2, <1>4, <1>5, <1>6
     DEF PipelineInv, OwnPlanVerifies, Planner!EmptyPlan

(* Steps that leave the body, its records and the plan alone.              *)
LEMMA SameRecords ==
  ASSUME PipelineInv, UNCHANGED <<body, records>>
  PROVE  BodyInv' /\ RecordsInv'
BY DEF PipelineInv, BodyInv, RecordsInv, LivesThrough, UsesOf

LEMMA SameSoundPlan ==
  ASSUME SoundPlan(planned', records')
  PROVE  SoundPlan(planned, records)'
BY DEF SoundPlan, Planning!Places, Planning!LifetimesOverlap,
       Planning!RangesOverlap, Planning!AllocationEnd, Planning!Precedes,
       Planning!PlacedLowest, Planning!Occupied, Planning!SizedFor,
       Planning!Ends, Planning!IsMaximum, Planning!SizeFits,
       Planning!AlignOverflows, Planning!AlignUp,
       Planning!kWorkspaceAlignment, Planning!Allocation,
       Planning!PowersOfTwo

LEMMA PlanKeeps ==
  ASSUME PipelineInv, WordWidths, stage \in {"plan", "compare"},
         UNCHANGED pipelineVars, [Planner!Next]_plannerVars
  PROVE  PipelineInv'
<1>1. UNCHANGED <<body, stage, records, planned, views, output>>
  BY DEF pipelineVars
<1>2. [Planning!Next]_Planning!vars
  BY SamePlanner
<1>3. requests' = requests
  BY <1>2 DEF Planning!Next, Planning!vars, Planning!ValidateRequest,
              Planning!RejectRequest, Planning!SortRequests,
              Planning!TakeRequest, Planning!PlaceRequest,
              Planning!BumpCandidate, Planning!OverflowCandidate,
              Planning!FinishPlan, Planning!OverflowPlan, Planning!Fail
<1>4. BodyInv' /\ RecordsInv'
  BY <1>1, SameRecords
<1>5. CASE stage = "plan"
  <2>1. Planning!CanonicalInv'
    BY <1>2, <1>5, Planning!StepKeepsCanonical DEF PipelineInv, WordWidths
  <2> QED
    BY <1>1, <1>3, <1>4, <1>5, <2>1
       DEF PipelineInv, OwnPlanVerifies, Planner!EmptyPlan
<1>6. CASE stage = "compare"
  <2>1. Repeats'
    BY <1>1, <1>2, <1>6, RepeatedStep DEF PipelineInv
  <2>2. SoundPlan(planned, records)'
    BY <1>1, <1>6, SameSoundPlan DEF PipelineInv
  <2>3. ViewsInv'
    BY <1>1, <1>6, SameViews DEF PipelineInv
  <2> QED
    BY <1>1, <1>4, <1>6, <2>1, <2>2, <2>3 DEF PipelineInv, OwnPlanVerifies
<1> QED
  BY <1>1, <1>5, <1>6

LEMMA TakeKeeps ==
  ASSUME PipelineInv, TakePlan
  PROVE  PipelineInv'
<1>1. /\ stage = "plan" /\ pc = "done" /\ stage' = "rewrite"
      /\ planned' = plan
      /\ UNCHANGED <<body, records, views>>
  BY DEF TakePlan
<1>2. SoundPlan(plan, records)
  BY <1>1, ReturnedIsSound DEF PipelineInv
<1>3. SoundPlan(planned, records)'
  BY <1>1, <1>2, SameSoundPlan
<1> QED
  BY <1>1, <1>3, SameRecords DEF PipelineInv, OwnPlanVerifies

LEMMA RewriteKeeps ==
  ASSUME PipelineInv, Rewrite
  PROVE  PipelineInv'
<1>1. /\ stage = "rewrite" /\ stage' = "verify"
      /\ views' = [i \in DOMAIN records |->
                     [offset |-> PlannedFor(i).offset,
                      size |-> records[i].size]]
      /\ body' = [p \in DOMAIN body |->
                    IF body[p].kind = "dealloc"
                    THEN [body[p] EXCEPT !.of = {}] ELSE body[p]]
      /\ UNCHANGED <<records, planned>>
  BY DEF Rewrite
<1>2. body \in Seq(Operation) /\ DOMAIN body = 1..Len(body)
  BY DEF PipelineInv, BodyInv
<1>3. /\ DOMAIN body' = DOMAIN body
      /\ \A q \in DOMAIN body :
           /\ body'[q] \in Operation
           /\ body'[q].kind = body[q].kind
           /\ body[q].kind # "alloc" => body'[q].of \subseteq body[q].of
  <2> SUFFICES ASSUME NEW q \in DOMAIN body
               PROVE  /\ body'[q] \in Operation
                      /\ body'[q].kind = body[q].kind
                      /\ body[q].kind # "alloc" =>
                           body'[q].of \subseteq body[q].of
    BY <1>1
  <2>1. body[q] \in Operation
    BY <1>2
  <2>2. CASE body[q].kind = "dealloc"
    <3>1. body[q] \in [kind: {"use", "dealloc"}, of: SUBSET Nat]
      BY <2>1, <2>2 DEF Operation
    <3>2. body'[q] = [body[q] EXCEPT !.of = {}]
      BY <1>1, <2>2
    <3> QED
      BY <3>1, <3>2 DEF Operation
  <2>3. CASE body[q].kind # "dealloc"
    BY <1>1, <2>1, <2>3
  <2> QED
    BY <2>2, <2>3
<1>4. body' \in Seq(Operation)
  BY <1>1, <1>2, <1>3
<1>5. BodyInv'
  BY <1>3, <1>4 DEF PipelineInv, BodyInv
<1>6. RecordsInv'
  <2>1. \A p : {q \in DOMAIN body' : body'[q].kind # "alloc" /\ p \in body'[q].of}
                 \subseteq UsesOf(p)
    BY <1>3 DEF UsesOf
  <2>2. \A i \in DOMAIN records : LivesThrough(records[i])
    BY DEF PipelineInv, RecordsInv
  <2>3. \A i \in DOMAIN records : LivesThrough(records[i])'
    BY <1>1, <2>1, <2>2 DEF LivesThrough, UsesOf
  <2> QED
    BY <1>1, <2>3 DEF PipelineInv, RecordsInv
<1>7. SoundPlan(planned, records)'
  BY <1>1, SameSoundPlan DEF PipelineInv
<1>8. ViewsInv'
  <2>1. \A i \in DOMAIN records : PlannedFor(i) = Placed[Index(i)]
    BY <1>1, IndexFindsPlace DEF PipelineInv
  <2>2. DOMAIN records = 1..Len(records) /\ Len(records) \in Nat
    BY DEF PipelineInv, RecordsInv
  <2>3. Len(views') = Len(records) /\ DOMAIN views' = DOMAIN records
    BY <1>1, <2>2
  <2>4. \A i \in DOMAIN records : /\ views'[i].offset = Placed[Index(i)].offset
                                  /\ views'[i].size = records[i].size
    BY <1>1, <2>1
  <2>5. \A i \in DOMAIN records : Placed[Index(i)]' = Placed[Index(i)]
    BY <1>1 DEF Index, Placed
  <2> QED
    BY <1>1, <2>3, <2>4, <2>5 DEF ViewsInv
<1> QED
  BY <1>1, <1>5, <1>6, <1>7, <1>8 DEF PipelineInv, OwnPlanVerifies

LEMMA VerifyKeeps ==
  ASSUME PipelineInv, VerifyPlan
  PROVE  PipelineInv'
<1> DEFINE again == [k \in DOMAIN Placed |->
                       [name      |-> Placed[k].name,
                        size      |-> Placed[k].size,
                        alignment |-> Placed[k].alignment,
                        start     |-> Placed[k].start,
                        end       |-> Placed[k].end]]
<1>1. /\ stage = "verify" /\ stage' = "compare"
      /\ StartPlanner(again)
      /\ UNCHANGED <<body, records, planned, views>>
  BY DEF VerifyPlan, Placed
<1>2. /\ DOMAIN Placed = 1..Len(Placed) /\ Len(Placed) \in Nat
      /\ Placed \in Seq(Planning!Allocation)
  BY <1>1 DEF PipelineInv, SoundPlan, Placed
<1>3. \A k \in DOMAIN Placed : again[k] \in Planning!Request
  <2> SUFFICES ASSUME NEW k \in DOMAIN Placed
               PROVE  again[k] \in Planning!Request
    OBVIOUS
  <2>1. Placed[k] \in Planning!Allocation
    BY <1>2
  <2> QED
    BY <2>1 DEF Planning!Allocation, Planning!PowersOfTwo, Planning!Request
<1>4. again \in Seq(Planning!Request)
  BY <1>2, <1>3
<1>5. /\ requests' = again
      /\ pc' = "validate" /\ current' = 0 /\ allocations' = <<>>
  BY <1>1 DEF StartPlanner
<1>6. Planning!CanonicalInv'
  BY <1>1, <1>4, CallStarts
<1>7. /\ DOMAIN again = DOMAIN Placed
      /\ \A k \in DOMAIN Placed : Planning!Places(Placed[k], again[k])
  BY DEF Planning!Places
<1> HIDE DEF again
<1>8. Placed' = Placed
  BY <1>1 DEF Placed
<1>9. Repeats'
  BY <1>2, <1>5, <1>6, <1>7, <1>8 DEF Repeats, Planning!Places
<1>10. SoundPlan(planned, records)' /\ ViewsInv'
  BY <1>1, SameSoundPlan, SameViews DEF PipelineInv
<1> QED
  BY <1>1, <1>9, <1>10, SameRecords DEF PipelineInv, OwnPlanVerifies

LEMMA FinishKeeps ==
  ASSUME PipelineInv, Finish
  PROVE  PipelineInv'
<1>1. /\ stage = "compare" /\ stage' = "done"
      /\ UNCHANGED <<body, records, planned, views>>
  BY DEF Finish
<1>2. SoundPlan(planned, records)' /\ ViewsInv'
  BY <1>1, SameSoundPlan, SameViews DEF PipelineInv
<1> QED
  BY <1>1, <1>2, SameRecords DEF PipelineInv, OwnPlanVerifies

(* None of the pipeline's own checks ever fails.                           *)
LEMMA RejectKeeps ==
  ASSUME PipelineInv, Reject
  PROVE  PipelineInv'
<1>1. /\ Refused /\ stage' = "rejected"
      /\ UNCHANGED <<body, records, planned, views>>
  BY DEF Reject
<1>2. ASSUME stage = "rewrite" PROVE Covered
  BY <1>2, PlanCovers DEF PipelineInv
<1>3. ASSUME stage = "compare", pc = "done" PROVE Accepted
  BY <1>3, SamePlanAgain, OwnViewsMatch DEF PipelineInv, Accepted
<1>4. stage = "compare" => pc # "failed"
  BY DEF PipelineInv, Repeats
<1>5. stage \in {"collect", "plan"}
  BY <1>1, <1>2, <1>3, <1>4 DEF Refused
<1> QED
  BY <1>1, <1>5, SameRecords
     DEF PipelineInv, OwnPlanVerifies, Planner!EmptyPlan

LEMMA StutterKeeps ==
  ASSUME PipelineInv, WordWidths, UNCHANGED bufferizationVars
  PROVE  PipelineInv'
<1>1. UNCHANGED pipelineVars /\ [Planner!Next]_plannerVars
  BY DEF bufferizationVars
<1>2. UNCHANGED <<body, stage, records, planned, views>>
  BY <1>1 DEF pipelineVars
<1>3. CASE stage \in {"plan", "compare"}
  BY <1>1, <1>3, PlanKeeps
<1>4. CASE stage \notin {"plan", "compare"}
  <2>1. SoundPlan(planned, records) => SoundPlan(planned, records)'
    BY <1>2, SameSoundPlan
  <2>2. ViewsInv => ViewsInv'
    BY <1>2, SameViews
  <2> QED
    BY <1>2, <1>4, <2>1, <2>2, SameRecords
       DEF PipelineInv, OwnPlanVerifies, Planner!EmptyPlan
<1> QED
  BY <1>3, <1>4

LEMMA PipelineInvariance ==
  ASSUME BodiesWellFormed, WordWidths
  PROVE  PipelineSpec => []PipelineInv
<1>1. PipelineInit => PipelineInv
  BY PipelineStarts
<1>2. PipelineInv /\ [PipelineNext]_bufferizationVars => PipelineInv'
  <2> SUFFICES ASSUME PipelineInv, [PipelineNext]_bufferizationVars PROVE PipelineInv'
    OBVIOUS
  <2>1. CASE Collect
    BY <2>1, CollectKeeps
  <2>2. CASE Plan
    BY <2>2, PlanKeeps DEF Plan
  <2>3. CASE TakePlan
    BY <2>3, TakeKeeps
  <2>4. CASE Rewrite
    BY <2>4, RewriteKeeps
  <2>5. CASE VerifyPlan
    BY <2>5, VerifyKeeps
  <2>6. CASE Finish
    BY <2>6, FinishKeeps
  <2>7. CASE Reject
    BY <2>7, RejectKeeps
  <2>8. CASE UNCHANGED bufferizationVars
    BY <2>8, StutterKeeps
  <2> QED
    BY <2>1, <2>2, <2>3, <2>4, <2>5, <2>6, <2>7, <2>8 DEF PipelineNext
<1> QED
  BY <1>1, <1>2, PTL DEF PipelineSpec
-----------------------------------------------------------------------------
(* bufferize_and_plan_conv2d never refuses its own plan: whatever the      *)
(* body, it is rejected before it was rewritten or not at all.             *)
THEOREM VerifierAgrees ==
  ASSUME BodiesWellFormed, WordWidths
  PROVE  PipelineSpec => []OwnPlanVerifies
<1>1. PipelineInv => OwnPlanVerifies
  BY DEF PipelineInv
<1> QED
  BY <1>1, PipelineInvariance, PTL

(* In a function the pipeline returns, no operation touches the bytes of   *)
(* a buffer between its allocation and its last use through another.       *)
THEOREM BuffersKeepContents ==
  ASSUME BodiesWellFormed, WordWidths
  PROVE  PipelineSpec => []ContentsKept
<1>1. PipelineInv => ContentsKept
  <2> SUFFICES ASSUME PipelineInv, stage = "done",
                      NEW i \in DOMAIN records, NEW j \in DOMAIN records,
                      i # j, Shares(i, j),
                      NEW p \in UsesOf(records[j].start),
                      NEW q \in UsesOf(records[i].start),
                      records[i].start <= p, p <= q
               PROVE  FALSE
    BY DEF ContentsKept
  <2> DEFINE k == Index(i)
             l == Index(j)
  <2>1. /\ RecordsInv /\ SoundPlan(planned, records) /\ ViewsInv
        /\ LivesThrough(records[i]) /\ LivesThrough(records[j])
    BY DEF PipelineInv, RecordsInv
  <2>2. /\ k \in DOMAIN Placed /\ Planning!Places(Placed[k], records[i])
        /\ l \in DOMAIN Placed /\ Planning!Places(Placed[l], records[j])
        /\ k # l
    BY <2>1, IndexFindsPlace, IndexInjective
  <2>3. p \in Nat /\ q \in Nat
    <3>1. DOMAIN body = 1..Len(body)
      BY DEF PipelineInv, BodyInv
    <3> QED
      BY <3>1 DEF UsesOf
  <2>4. /\ records[i].start \in Nat /\ records[i].end \in Nat
        /\ records[j].start \in Nat /\ records[j].end \in Nat
    <3>1. records \in Seq(Planning!Request)
      BY <2>1 DEF RecordsInv
    <3>2. /\ records[i] \in Planning!Request
          /\ records[j] \in Planning!Request
      BY <3>1
    <3> QED
      BY <3>2 DEF Planning!Request
  <2>5. Planning!LifetimesOverlap(Placed[k], Placed[l])
    BY <2>1, <2>2, <2>3, <2>4
       DEF LivesThrough, Planning!LifetimesOverlap, Planning!Places
  <2>6. Planning!RangesOverlap(
          Placed[k].offset, Planning!AllocationEnd(Placed[k]),
          Placed[l].offset, Planning!AllocationEnd(Placed[l]))
    BY <2>1, <2>2
       DEF Shares, ViewsInv, Planning!Places, Planning!RangesOverlap,
           Planning!AllocationEnd
  <2> QED
    BY <2>1, <2>2, <2>5, <2>6 DEF SoundPlan, Placed
<1> QED
  BY <1>1, PipelineInvariance, PTL
=============================================================================
