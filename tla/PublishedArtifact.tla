-------------------------- MODULE PublishedArtifact --------------------------
(***************************************************************************)
(* What write_artifact and read_artifact promise about one destination     *)
(* (docs/artifact-format.en.md section 1): a write either replaces the     *)
(* whole artifact at one moment or leaves it alone, a read returns one     *)
(* whole artifact that was at the destination while it ran, or fails and   *)
(* leaves the caller's output alone.                                       *)
(***************************************************************************)
EXTENDS Integers

CONSTANTS Writers, Readers, Absent

VARIABLES
  value,   (* the artifact at the destination, or Absent                   *)
  outcome, (* of each writer's call: none, published, failed               *)
  taken,   (* what each reader's call will return, Absent before           *)
  output   (* what the caller of each reader got                           *)

registerVars == <<value, outcome, taken, output>>

RegisterInit ==
  /\ value = Absent
  /\ outcome = [w \in Writers |-> "none"]
  /\ taken = [r \in Readers |-> Absent]
  /\ output = [r \in Readers |-> Absent]

Publish(w) ==
  /\ outcome[w] = "none"
  /\ value' = w
  /\ outcome' = [outcome EXCEPT ![w] = "published"]
  /\ UNCHANGED <<taken, output>>

(* A write fails, or the process of several dies.                          *)
GiveUp(S) ==
  /\ \A w \in S : outcome[w] = "none"
  /\ outcome' = [w \in Writers |-> IF w \in S THEN "failed" ELSE outcome[w]]
  /\ UNCHANGED <<value, taken, output>>

Take(r) ==
  /\ taken[r] = Absent
  /\ value # Absent
  /\ taken' = [taken EXCEPT ![r] = value]
  /\ UNCHANGED <<value, outcome, output>>

Deliver(r) ==
  /\ taken[r] # Absent
  /\ output' = [output EXCEPT ![r] = taken[r]]
  /\ UNCHANGED <<value, outcome, taken>>

RegisterNext ==
  \/ \E w \in Writers : Publish(w)
  \/ \E S \in SUBSET Writers : GiveUp(S)
  \/ \E r \in Readers : Take(r) \/ Deliver(r)

RegisterSpec == RegisterInit /\ [][RegisterNext]_registerVars
=============================================================================
