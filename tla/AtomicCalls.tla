---------------------------- MODULE AtomicCalls ----------------------------
(***************************************************************************)
(* What callers of Executable::execute are promised (docs/user-guide.en.md *)
(* section 8): a call that meets the runtime contract takes effect at one  *)
(* moment and succeeds; a call that does not is refused and writes         *)
(* nothing.  Calls of several threads take effect one after the other.     *)
(***************************************************************************)
EXTENDS Integers, Sequences, SequencesExt, FiniteSetsExt

CONSTANTS
  Calls, UIntPtrMax,
  Joined(_)   (* the contents of some addresses, in their order            *)

VARIABLES scenario, memory, answered, succeeded

atomicVars == <<scenario, memory, answered, succeeded>>

Called(c) == scenario.executables[scenario.target[c]]
ArgumentSet(c) == ToSet(Called(c).arguments)
At(c, uid) == scenario.pack[c][uid]

Needed == [scalar |-> {},
           avx2   |-> {"avx", "fma", "avx2", "os_ymm_state"},
           avx512 |-> {"avx", "fma", "avx512f", "os_ymm_state",
                       "os_zmm_state"}]

Runnable(c) ==
  {v \in Called(c).compiled : Needed[v] \subseteq scenario.features}

(* The prefix of a ragged argument, as the integers it holds.              *)
Number(contents, a) == IF Len(contents[a]) = 1 THEN contents[a][1] ELSE -1

Prefix(c, a) ==
  [b \in 0..a.batches |-> Number(scenario.memory, At(c, a.offset) + b)]
Lengths(c, a) ==
  [b \in 0..(a.batches - 1) |-> Number(scenario.memory, At(c, a.sequence) + b)]

PrefixGood(c, a) ==
  /\ Prefix(c, a)[0] = 0
  /\ \A b \in DOMAIN Lengths(c, a) :
       /\ 0 <= Prefix(c, a)[b]
       /\ Lengths(c, a)[b] \in 0..a.bound
       /\ Prefix(c, a)[b] + Lengths(c, a)[b] <= Prefix(c, a)[b + 1]
       /\ Prefix(c, a)[b + 1] <= a.size

Span(c, a) ==
  At(c, a.uid) .. (At(c, a.uid)
                     + (IF a.ragged THEN Prefix(c, a)[a.batches] ELSE a.size)
                     - 1)
Scratch(c) == scenario.workspace[c] .. (scenario.workspace[c]
                                          + Called(c).workspace - 1)

Written(c) ==
  UNION {Span(c, a) : a \in {b \in ArgumentSet(c) : b.access # "read"}}
Read(c) ==
  UNION {Span(c, a) : a \in {b \in ArgumentSet(c) : b.access = "read"}}

(* The runtime contract.                                                   *)
Placed(c, a) ==
  /\ a.uid \in DOMAIN scenario.pack[c]
  /\ At(c, a.uid) # 0
  /\ At(c, a.uid) % a.alignment = 0

Separate(c) ==
  /\ \A a, b \in ArgumentSet(c) :
       a # b /\ a.access # "read" => Span(c, a) \cap Span(c, b) = {}
  /\ Called(c).workspace # 0 => Scratch(c) \cap (Written(c) \cup Read(c)) = {}

Acceptable(c) ==
  /\ scenario.target[c] \in DOMAIN scenario.executables
  /\ IF scenario.variant[c] = "auto" THEN Runnable(c) # {}
     ELSE scenario.variant[c] \in Runnable(c)
  /\ \A a \in ArgumentSet(c) : Placed(c, a)
  /\ \A a \in ArgumentSet(c) : a.ragged => PrefixGood(c, a)
  /\ \A x \in Written(c) \cup Read(c) : x < UIntPtrMax
  /\ Called(c).workspace # 0 =>
       /\ scenario.workspace[c] # 0
       /\ scenario.workspace[c] % Called(c).alignment = 0
       /\ \A x \in Scratch(c) : x < UIntPtrMax
  /\ Separate(c)

(* The runtime counts an empty span as overlapping the range around it.    *)
EmptyInside(c) ==
  \E a \in ArgumentSet(c) :
    /\ a.ragged
    /\ Span(c, a) = {}
    /\ At(c, a.uid) \in Written(c) \cup Scratch(c) \cup Read(c)

(* What the kernel computes, from the contents at the moment of the call.  *)
Cells(S, contents) == Joined([a \in S |-> contents[a]])

Result(c, a) ==
  LET inputs == Cells(Read(c), memory)
      partial == <<scenario.target[c]>> \o inputs
  IN <<scenario.target[c], a>> \o Joined([x \in Scratch(c) |-> partial]) \o inputs
-----------------------------------------------------------------------------
AtomicInit ==
  /\ memory = scenario.memory
  /\ answered = {}
  /\ succeeded = {}

Perform(c) ==
  /\ c \notin answered
  /\ Acceptable(c)
  /\ memory' = [a \in DOMAIN memory |->
                  IF a \in Written(c) THEN Result(c, a) ELSE memory[a]]
  /\ answered' = answered \cup {c}
  /\ succeeded' = succeeded \cup {c}
  /\ UNCHANGED scenario

Refuse(c) ==
  /\ c \notin answered
  /\ \/ ~ Acceptable(c)
     \/ EmptyInside(c)
     \/ Called(c).engine
  /\ answered' = answered \cup {c}
  /\ UNCHANGED <<scenario, memory, succeeded>>

AtomicNext == \E c \in Calls : Perform(c) \/ Refuse(c)

AtomicSpec == AtomicInit /\ [][AtomicNext]_atomicVars
=============================================================================
